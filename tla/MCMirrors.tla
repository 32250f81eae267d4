------------------------------ MODULE MCMirrors ------------------------------
(***************************************************************************)
(* Three transactions, two runs, two validators or accounts and so on for  *)
(* each of the tasks.  Only the task of the validators starts with a node  *)
(* that has some.                                                          *)
(***************************************************************************)
EXTENDS Mirrors, TLC

CONSTANTS r1, r2, d1, d2, d3, d4, i1, i2, i3, t1, t2, m1, m2, m3, on, off, a1, a2,
          w1, w2, w3, v1, v2, x1, x2, x3

(* Two denoms in one transaction, one behind a message of another type. *)
MCFirstId == (i1 :> d1) @@ (i2 :> NoId) @@ (i3 :> d2)
MCIssues == (i1 :> {d1, d3}) @@ (i2 :> {d4}) @@ (i3 :> {d2})

(* Two mints and a burn of t1, one of them in a transaction that is about  *)
(* t2 as well: t2 is counted wrong, t1 is not.                             *)
MCAmounts == (m1 :> (t1 :> 2 @@ t2 :> 0)) @@ (m2 :> (t1 :> -1 @@ t2 :> 0))
             @@ (m3 :> (t1 :> 1 @@ t2 :> 0))
MCAbout == (m1 :> {t1}) @@ (m2 :> {t1}) @@ (m3 :> {t1, t2})

(* Two operators and an account that delegates to both of them. *)
MCOperator == (v1 :> w1) @@ (v2 :> w2)
MCStake == (w1 :> (v1 :> 1 @@ v2 :> 0)) @@ (w2 :> (v1 :> 0 @@ v2 :> 2))
           @@ (w3 :> (v1 :> 1 @@ v2 :> 1))
MCVoters == (x1 :> <<w1>>) @@ (x2 :> <<w3>>) @@ (x3 :> <<w3, w2>>)
MCOption == (x1 :> "yes") @@ (x2 :> "no") @@ (x3 :> "yes")

Init == MirrorsInit /\ (task # "validators" => node = Nobody)

Spec == Init /\ [][MirrorsNext]_mirrorVars /\ TasksGoOn
=============================================================================
