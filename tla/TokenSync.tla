------------------------------ MODULE TokenSync ------------------------------
(***************************************************************************)
(* TokensTaskService.doTask: the supply of each token of the chain is what *)
(* its document says plus the mints and burns above the document's height. *)
(* The updated documents are sent without waiting, whole and by denom.     *)
(* A supply is counted from the initial one; a token without a document    *)
(* starts like one whose document holds the initial supply at height 0.    *)
(***************************************************************************)
EXTENDS TaskRuns, Functions

CONSTANTS
    Symbols,        \* tokens the chain lists
    MintTxs,        \* successful transactions that mint or burn
    amounts,        \* what each of them adds to each token
    about,          \* the tokens its messages are about
    TokenLimit,     \* the 1000 of queryTxBySymbol
    MaxTokenHeight, \* height at which the chain stops (bound)
    MaxSent         \* writes a finished run may leave under way (bound)

ASSUME TokenSettings ==
    /\ amounts \in [MintTxs -> [Symbols -> Int]]
    /\ about \in [MintTxs -> SUBSET Symbols]
    /\ \A x \in MintTxs, s \in Symbols : amounts[x][s] # 0 => s \in about[x]
    /\ IsFiniteSet(Symbols) /\ IsFiniteSet(MintTxs)
    /\ TokenLimit \in Nat \ {0}
    /\ MaxTokenHeight \in Nat /\ MaxSent \in Nat

VARIABLES
    minted,         \* the height of each transaction, 0 before it exists
    tokens,         \* total_supply and update_block_height of each token
    tokenRun,       \* the runs: the tokens to fold, the documents so far
    tokenSent,      \* upserts nobody waits for
    cutTokens       \* history: tokens with a height the limit cut in two

tokenVars == <<minted, tokens, tokenRun, tokenSent, cutTokens>>

TokenDoc == [supply : Int, height : 0..MaxTokenHeight]
NoMint == [supply |-> 0, height |-> 0]
TokenIdle == [at |-> "idle", todo |-> {}, docs |-> [s \in Symbols |-> NoMint]]

TokenTypeOK ==
    /\ minted \in [MintTxs -> 0..MaxTokenHeight]
    /\ tokens \in [Symbols -> TokenDoc]
    /\ tokenRun \in [Runs -> [at : {"idle", "fold"}, todo : SUBSET Symbols,
                              docs : [Symbols -> TokenDoc]]]
    /\ tokenSent \subseteq Symbols \X TokenDoc
    /\ cutTokens \subseteq Symbols

TokenInit ==
    /\ minted = [x \in MintTxs |-> 0]
    /\ tokens = [s \in Symbols |-> NoMint]
    /\ tokenRun = [r \in Runs |-> TokenIdle]
    /\ tokenSent = {} /\ cutTokens = {}

(* The next block with mints or burns. *)
MintBlock(S) ==
    LET top == Max({minted[x] : x \in MintTxs}) IN
    /\ S # {} /\ top < MaxTokenHeight
    /\ \A x \in S : minted[x] = 0
    /\ minted' = [x \in MintTxs |-> IF x \in S THEN top + 1 ELSE minted[x]]
    /\ UNCHANGED <<tokens, tokenRun, tokenSent, cutTokens, faults>>

(* The chain's list, then the documents, then the staking token. *)
QueryAllTokens(r) ==
    /\ tokenRun[r].at = "idle"
    /\ tokenRun' = [tokenRun EXCEPT
           ![r] = [at |-> "fold", todo |-> Symbols, docs |-> tokens]]
    /\ UNCHANGED <<minted, tokens, tokenSent, cutTokens, faults>>

(* Mutant: the transactions of the recorded height are read again. *)
TxBySymbolFrom(s, h) ==
    {x \in MintTxs : s \in about[x] /\ minted[x] > 0 /\ minted[x] >= h}

TxBySymbol(s, h) == {x \in MintTxs : s \in about[x] /\ minted[x] > h}

(* Every mint and burn message of a transaction is added to the token that *)
(* was asked for, whatever token the message is about.                     *)
AmountOf(x) == SumFunction(amounts[x])

FoldedToken(doc, B) ==
    IF B = {} THEN doc
    ELSE [supply |-> doc.supply + SumFunction([x \in B |-> AmountOf(x)]),
          height |-> Max({minted[x] : x \in B})]

QueryTxBySymbol(r, s) ==
    LET docs  == tokenRun[r].docs
        found == TxBySymbol(s, docs[s].height)
    IN
    /\ s \in tokenRun[r].todo
    /\ \E B \in Smallest(found, minted, TokenLimit) :
           /\ tokenRun' = [tokenRun EXCEPT
                  ![r] = [at |-> "fold", todo |-> @.todo \ {s},
                          docs |-> [docs EXCEPT ![s] = FoldedToken(docs[s], B)]]]
           /\ cutTokens' =
                  IF CutOff(found, B, minted) = {} THEN cutTokens
                  ELSE cutTokens \cup {s}
    /\ UNCHANGED <<minted, tokens, tokenSent, faults>>

(* All documents are sent, the unchanged ones too. *)
InsertTokens(r) ==
    /\ tokenRun[r].at = "fold" /\ tokenRun[r].todo = {}
    /\ Cardinality(tokenSent) <= MaxSent
    /\ tokenSent' = tokenSent \cup {<<s, tokenRun[r].docs[s]>> : s \in Symbols}
    /\ tokenRun' = [tokenRun EXCEPT ![r] = TokenIdle]
    /\ UNCHANGED <<minted, tokens, cutTokens, faults>>

(* A query rejects, or the list lacks the staking token and setting its    *)
(* is_main_token throws: nothing of the run is written.                    *)
TokenRunThrows(r) ==
    /\ tokenRun[r].at = "fold"
    /\ Fails
    /\ tokenRun' = [tokenRun EXCEPT ![r] = TokenIdle]
    /\ UNCHANGED <<minted, tokens, tokenSent, cutTokens>>

(* findOneAndUpdate with upsert, in any order. *)
TokenLands(w) ==
    /\ w \in tokenSent
    /\ tokens' = [tokens EXCEPT ![w[1]] = w[2]]
    /\ tokenSent' = tokenSent \ {w}
    /\ UNCHANGED <<minted, tokenRun, cutTokens, faults>>

TokenLost(w) ==
    /\ w \in tokenSent
    /\ Fails
    /\ tokenSent' = tokenSent \ {w}
    /\ UNCHANGED <<minted, tokens, tokenRun, cutTokens>>

TokenRunStep(r) ==
    QueryAllTokens(r) \/ InsertTokens(r) \/ \E s \in Symbols : QueryTxBySymbol(r, s)

TokenNext ==
    \/ \E S \in SUBSET MintTxs : MintBlock(S)
    \/ \E r \in Runs : TokenRunStep(r) \/ TokenRunThrows(r)
    \/ \E w \in tokenSent : TokenLands(w) \/ TokenLost(w)

TokenSpec == TokenInit /\ faults = 0 /\ [][TokenNext]_<<tokenVars, faults>>

(* Tokens that share a transaction with a mint or burn of another one. *)
Tangled == {s \in Symbols : \E x \in MintTxs, u \in Symbols \ {s} :
                s \in about[x] /\ amounts[x][u] # 0}

SupplyAt(s, h) ==
    SumFunction([x \in {y \in MintTxs : 0 < minted[y] /\ minted[y] <= h} |-> amounts[x][s]])

(* Supply and height of a document belong together, whatever runs overlap  *)
(* and in whatever order their writes land: the supply is what all mints   *)
(* and burns up to that height make of it.  It is wrong only for a token   *)
(* whose transactions the limit cut within a height, or that shares a      *)
(* transaction with a mint or burn of another one.                         *)
SupplyMatchesHeight ==
    \A s \in Symbols \ (cutTokens \cup Tangled) :
        tokens[s].supply = SupplyAt(s, tokens[s].height)
=============================================================================
