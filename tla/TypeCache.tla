------------------------------ MODULE TypeCache ------------------------------
(***************************************************************************)
(* Cache.supportTypes: the types of transactions the lists are filtered    *)
(* by.  Every request reads the collection of types anew, puts what it got *)
(* into the cache of the process and then takes the cache; the handlers    *)
(* that change the collection refresh the cache without waiting for it,    *)
(* and so does the start of the process.  The contents of the collection   *)
(* are numbered in the order in which they replace each other.             *)
(***************************************************************************)
EXTENDS Integers, FiniteSets, FiniteSetsExt

CONSTANTS
    Calls,          \* calls of cacheTxTypes
    MaxTypeEdits    \* changes of the collection (bound)

ASSUME TypeSettings == MaxTypeEdits \in Nat

VARIABLES
    typesNow,       \* the contents of the collection
    cached,         \* Cache.supportTypes, 0 for []
    calls

typeVars == <<typesNow, cached, calls>>

Absent == 0

(* for: whom the types are read for.  got: what the collection said, then  *)
(* what the request uses.  asOf is history: the oldest contents that a     *)
(* reading under way when the call began may still bring.                  *)
CallStates == [at : {"free", "sent", "read", "set", "used"},
               for : {"nobody", "request", "edit"},
               got : 0..MaxTypeEdits + 1, asOf : 0..MaxTypeEdits + 1]

FreeCall == [at |-> "free", for |-> "nobody", got |-> 0, asOf |-> 0]

TypesInit ==
    /\ typesNow = 1
    /\ cached = Absent
    /\ \E c \in Calls :
           calls = [d \in Calls |-> IF d = c THEN [FreeCall EXCEPT !.at = "sent"]
                                    ELSE FreeCall]

Oldest == Min({typesNow} \cup {calls[c].got : c \in {d \in Calls : calls[d].at = "read"}})

Sent(who) == [at |-> "sent", for |-> who, got |-> 0, asOf |-> Oldest]

(* Mutant: the condition the source has commented out. *)
AskUnlessCached(c) ==
    /\ calls[c].at = "free"
    /\ calls' = [calls EXCEPT ![c] =
           IF cached = Absent THEN Sent("request") ELSE [Sent("request") EXCEPT !.at = "set"]]
    /\ UNCHANGED <<typesNow, cached>>

(* A request for a list: await this.cacheTxTypes(). *)
AskForTypes(c) ==
    /\ calls[c].at = "free"
    /\ calls' = [calls EXCEPT ![c] = Sent("request")]
    /\ UNCHANGED <<typesNow, cached>>

(* insertTxTypes, updateTxType, deleteTxType; c, if there is one, refreshes *)
(* the cache.  Another process that changes the types leaves it alone.      *)
EditTypes(C) ==
    /\ typesNow <= MaxTypeEdits
    /\ Cardinality(C) <= 1 /\ \A c \in C : calls[c].at = "free"
    /\ typesNow' = typesNow + 1
    /\ calls' = [c \in Calls |-> IF c \in C THEN Sent("edit") ELSE calls[c]]
    /\ UNCHANGED cached

(* The collection answers, the answers arrive in any order. *)
QueryTxTypeList(c) ==
    /\ calls[c].at = "sent"
    /\ calls' = [calls EXCEPT ![c].at = "read", ![c].got = typesNow]
    /\ UNCHANGED <<typesNow, cached>>

CacheTxTypes(c) ==
    /\ calls[c].at = "read"
    /\ cached' = calls[c].got
    /\ calls' = [calls EXCEPT ![c] = IF @.for = "request" THEN [@ EXCEPT !.at = "set"]
                                     ELSE FreeCall]
    /\ UNCHANGED typesNow

(* The list is filtered by what the cache has by now. *)
UseTypes(c) ==
    /\ calls[c].at = "set"
    /\ calls' = [calls EXCEPT ![c].at = "used", ![c].got = cached]
    /\ UNCHANGED <<typesNow, cached>>

EndCall(c) ==
    /\ calls[c].at = "used"
    /\ calls' = [calls EXCEPT ![c] = FreeCall]
    /\ UNCHANGED <<typesNow, cached>>

TypesNext ==
    \/ \E C \in SUBSET Calls : EditTypes(C)
    \/ \E c \in Calls : \/ AskForTypes(c) \/ QueryTxTypeList(c) \/ CacheTxTypes(c)
                        \/ UseTypes(c) \/ EndCall(c)

TypesSpec == TypesInit /\ [][TypesNext]_typeVars

-----------------------------------------------------------------------------
TypesTypeOK ==
    /\ typesNow \in 1..MaxTypeEdits + 1 /\ cached \in 0..typesNow
    /\ calls \in [Calls -> CallStates]

(* A list is filtered by types that are as new as the request, or as what  *)
(* some other call had already read when the request came.                 *)
EditsAreSeen == \A c \in Calls : calls[c].at = "used" => calls[c].got >= calls[c].asOf
=============================================================================
