------------------------------- MODULE Mirrors -------------------------------
(***************************************************************************)
(* The tasks that mirror the chain in one collection each: denoms, tokens, *)
(* IRITA validators, account information, the tally of a proposal.  They   *)
(* share neither collections nor variables, so a behaviour of one of them  *)
(* is a behaviour of all: task names the one that runs.                    *)
(***************************************************************************)
EXTENDS DenomSync, TokenSync, ValidatorsSync, AccountInfo, GovTally

VARIABLE task

mirrorVars ==
    <<task, faults, denomVars, tokenVars, valVars, infoVars, tallyVars>>

MirrorsInit ==
    /\ DenomInit /\ TokenInit /\ ValInit /\ InfoInit /\ TallyInit
    /\ faults = 0
    /\ task \in {"denoms", "tokens", "validators", "accounts", "tally"}

DenomTask ==
    /\ task = "denoms" /\ DenomNext
    /\ UNCHANGED <<task, tokenVars, valVars, infoVars, tallyVars>>
TokenTask ==
    /\ task = "tokens" /\ TokenNext
    /\ UNCHANGED <<task, denomVars, valVars, infoVars, tallyVars>>
ValidatorTask ==
    /\ task = "validators" /\ ValNext
    /\ UNCHANGED <<task, denomVars, tokenVars, infoVars, tallyVars>>
AccountTask ==
    /\ task = "accounts" /\ InfoNext
    /\ UNCHANGED <<task, denomVars, tokenVars, valVars, tallyVars>>
TallyTask ==
    /\ task = "tally" /\ TallyNext
    /\ UNCHANGED <<task, denomVars, tokenVars, valVars, infoVars>>

MirrorsNext == DenomTask \/ TokenTask \/ ValidatorTask \/ AccountTask \/ TallyTask

(* The tasks whose settling is checked: their steps and writes go on. *)
TasksGoOn ==
    /\ \A r \in Runs : WF_mirrorVars(ValidatorTask /\ ValRunStep(r))
    /\ \A v \in Names : WF_mirrorVars(ValidatorTask /\ DeleteLands(v))
    /\ WF_mirrorVars(AccountTask /\ InfoStep)
    /\ \A a \in Operators : WF_mirrorVars(AccountTask /\ ListOperator(a))

MirrorsSpec == MirrorsInit /\ [][MirrorsNext]_mirrorVars /\ TasksGoOn

MirrorsTypeOK == DenomTypeOK /\ TokenTypeOK /\ ValTypeOK /\ InfoTypeOK /\ TallyTypeOK

(* When the chain and its faults have come to rest, the validators and the *)
(* totals of the accounts become what the chain says.                      *)
MirrorsSettle ==
    /\ task = "validators" => ListSettles
    /\ task = "accounts" => TotalsSettle
=============================================================================
