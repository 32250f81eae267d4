---------------------------- MODULE ServiceNames ----------------------------
(***************************************************************************)
(* The annotation of the service transactions in the collection tx.        *)
(* TxTaskService takes the newest transactions that have no service name,  *)
(* finds the calls that the answers and the operations on a request        *)
(* context belong to, and writes the names without waiting for the writes. *)
(* A successful binding also marks the definition of its service as bound. *)
(*                                                                         *)
(* A transaction has one message; its hash is its position in the          *)
(* collection, which is ordered by height.  The consumer and the context   *)
(* an answer is given travel with the hash of its call.                    *)
(***************************************************************************)
EXTENDS Naturals, Sequences, FiniteSets

CONSTANTS
    Names,          \* names of services
    Contexts,       \* request contexts
    NoContext,      \* what other transactions have instead
    Arriving,       \* bound: the types of the transactions that still come
    Old,            \* the transactions the collection starts with
    MaxTxs,         \* bound: transactions in the collection
    MaxLate,        \* bound: queries and writes a run leaves to its successor
    Size,           \* syncTxServiceNameSize: how many a run reads
    MaxFaults       \* bound: queries and writes lost, and crashes

OwnTypes ==
    {"define_service", "bind_service", "call_service", "update_service_binding",
     "disable_service_binding", "enable_service_binding", "refund_service_deposit"}
ContextTypes ==
    {"pause_request_context", "start_request_context", "kill_request_context",
     "update_request_context"}
Types == OwnTypes \cup ContextTypes \cup {"respond_service"}

NoName == "none"

(* What the task reads of a transaction: the name it carries itself, if    *)
(* any, the context it is about or, for a call, has opened, and whether it *)
(* succeeded.                                                              *)
Tx == [type : Types, name : Names \cup {NoName}, context : Contexts \cup {NoContext},
       ok : BOOLEAN]

ASSUME ServiceSettings ==
    /\ Arriving \subseteq Types
    /\ NoContext \notin Contexts /\ NoName \notin Names
    /\ Size \in Nat \ {0} /\ {MaxTxs, MaxLate, MaxFaults} \subseteq Nat
    /\ Old \in Seq(Tx) /\ Len(Old) <= MaxTxs
    /\ \A i \in DOMAIN Old :
          /\ Old[i].name = NoName <=> Old[i].type \notin OwnTypes
          /\ Old[i].type = "bind_service" /\ Old[i].ok =>
                \E d \in DOMAIN Old : /\ Old[d].type = "define_service" /\ Old[d].ok
                                      /\ Old[d].name = Old[i].name

VARIABLES
    txs,        \* the transactions in the collection
    named,      \* ex.service_name of every transaction
    callHash,   \* ex.call_hash of every transaction, 0 when there is none
    bound,      \* definitions with ex.bind
    stage,      \* the await a run stands at
    batch,      \* what the run has read
    binds,      \* bindings whose definition is being looked up
    sent,       \* calls of addExFieldForServiceTx under way
    faults,     \* faults so far
    lost        \* history: definitions one of whose marks was lost

vars == <<txs, named, callHash, bound, stage, batch, binds, sent, faults, lost>>
tables == <<named, callHash, bound>>

Hashes == 1..MaxTxs
Known == DOMAIN txs

(* The argument of addExFieldForServiceTx. *)
ExField == [hash : Hashes, name : Names \cup {NoName}, call : Hashes \cup {0}, bind : BOOLEAN]

TypeOK ==
    /\ txs \in Seq(Tx) /\ Len(txs) <= MaxTxs
    /\ named \in [Hashes -> Names \cup {NoName}]
    /\ callHash \in [Hashes -> Hashes \cup {0}]
    /\ bound \subseteq Hashes
    /\ stage \in {"idle", "calls"}
    /\ batch \subseteq Known /\ Cardinality(batch) <= Size
    /\ binds \subseteq Known
    /\ sent \subseteq ExField
    /\ faults \in 0..MaxFaults
    /\ lost \subseteq Hashes

Init ==
    /\ txs = Old
    /\ named = [i \in Hashes |-> NoName]
    /\ callHash = [i \in Hashes |-> 0]
    /\ bound = {}
    /\ stage = "idle"
    /\ batch = {}
    /\ binds = {}
    /\ sent = {}
    /\ faults = 0
    /\ lost = {}

Fault == faults < MaxFaults /\ faults' = faults + 1

-----------------------------------------------------------------------------
(* The chain and its synchroniser. *)

Succeeded(type, name) ==
    \E i \in Known : txs[i].type = type /\ txs[i].name = name /\ txs[i].ok

Opened(context) == \E i \in Known : txs[i].type = "call_service" /\ txs[i].context = context

(* A service is defined once, then bound, then called; a call opens a      *)
(* context of its own.  Anybody may try anything at any time and fail.     *)
Allowed(tx) ==
    /\ tx.type \in Arriving
    /\ tx.name = NoName <=> tx.type \notin OwnTypes
    /\ tx.context = NoContext <=> tx.type \in OwnTypes /\ ~(tx.type = "call_service" /\ tx.ok)
    /\ tx.ok =>
        CASE tx.type = "define_service" -> ~Succeeded("define_service", tx.name)
          [] tx.type = "bind_service" -> Succeeded("define_service", tx.name)
          [] tx.type = "call_service" ->
                Succeeded("bind_service", tx.name) /\ ~Opened(tx.context)
          [] tx.type \notin OwnTypes -> Opened(tx.context)
          [] OTHER -> Succeeded("bind_service", tx.name)

NewTx ==
    /\ Len(txs) < MaxTxs
    /\ \E tx \in Tx : Allowed(tx) /\ txs' = Append(txs, tx)
    /\ UNCHANGED <<tables, stage, batch, binds, sent, faults, lost>>

-----------------------------------------------------------------------------
(* TxTaskService.doTask. *)

Unnamed == {i \in Known : named[i] = NoName}

(* findAllServiceTx, sorted by height, the newest first. *)
NextBatch == {i \in Unnamed : Cardinality({j \in Unnamed : j >= i}) <= Size}

FindAllServiceTx ==
    /\ stage = "idle"
    /\ Cardinality(sent) + Cardinality(binds) <= MaxLate
    /\ NextBatch # {}
    /\ stage' = "calls"
    /\ batch' = NextBatch
    /\ UNCHANGED <<txs, tables, binds, sent, faults, lost>>

(* Mutant: a call is a call. *)
AnyCall(i) ==
    {c \in Known : txs[i].type \notin OwnTypes /\ txs[c].type = "call_service" /\ txs[c].ok}

(* findCallServiceTxWithReqContextIds, for the context of one transaction. *)
CallsOf(i) ==
    {c \in Known : /\ txs[i].type \notin OwnTypes
                   /\ txs[c].type = "call_service"
                   /\ txs[c].context = txs[i].context}

(* The answers of a context are kept in a list, which nobody has created   *)
(* if the batch only holds operations on the context.                      *)
Throws(b) ==
    \E i \in b : /\ CallsOf(i) # {}
                 /\ \A j \in b : ~(/\ txs[j].type = "respond_service"
                                   /\ txs[j].context = txs[i].context)

(* Of several operations of one type on one context the map keeps the one  *)
(* that comes last, the oldest.                                            *)
Replaced(b, i) ==
    /\ txs[i].type \in ContextTypes
    /\ \E j \in b : j < i /\ txs[j].type = txs[i].type /\ txs[j].context = txs[i].context

(* Mutant: only the field service_name is looked at. *)
ByServiceName(b, i) ==
    IF txs[i].type \in OwnTypes
      THEN {[hash |-> i, name |-> txs[i].name, call |-> 0, bind |-> FALSE] :
               x \in {i} \ {d \in Known : txs[d].type = "define_service"}}
      ELSE {[hash |-> i, name |-> txs[c].name, bind |-> FALSE,
             call |-> IF txs[i].type = "respond_service" THEN c ELSE 0] :
               c \in IF Replaced(b, i) THEN {} ELSE CallsOf(i)}

(* What a transaction of the batch is given, if anything. *)
ExFields(b, i) ==
    IF txs[i].type \in OwnTypes
      THEN {[hash |-> i, name |-> txs[i].name, call |-> 0, bind |-> FALSE]}
      ELSE {[hash |-> i, name |-> txs[c].name, bind |-> FALSE,
             call |-> IF txs[i].type = "respond_service" THEN c ELSE 0] :
               c \in IF Replaced(b, i) THEN {} ELSE CallsOf(i)}

Binding(i) == txs[i].type = "bind_service" /\ txs[i].ok

(* The calls are read and the names sent, save those of the bindings,      *)
(* which wait for a query.  When it throws, nothing is sent.               *)
FindCallServiceTx ==
    /\ stage = "calls"
    /\ stage' = "idle"
    /\ batch' = {}
    /\ IF Throws(batch)
         THEN UNCHANGED <<binds, sent>>
         ELSE /\ binds' = binds \cup {i \in batch : Binding(i)}
              /\ sent' = sent \cup UNION {ExFields(batch, i) : i \in {j \in batch : ~Binding(j)}}
    /\ UNCHANGED <<txs, tables, faults, lost>>

(* Mutant: of any status. *)
AnyDefinition(name) == {d \in Known : txs[d].type = "define_service" /\ txs[d].name = name}

(* queryDefineServiceTxHashByServiceName. *)
Definitions(name) ==
    {d \in Known : txs[d].type = "define_service" /\ txs[d].name = name /\ txs[d].ok}

Mark(d) == [hash |-> d, name |-> NoName, call |-> 0, bind |-> TRUE]

(* findOne returns one of them, the mark is sent, and then the name. *)
QueryDefinition(i) ==
    /\ i \in binds
    /\ binds' = binds \ {i}
    /\ \E marks \in IF Definitions(txs[i].name) = {} THEN {{}}
                      ELSE {{Mark(d)} : d \in Definitions(txs[i].name)} :
          sent' = sent \cup marks \cup ExFields({i}, i)
    /\ UNCHANGED <<txs, tables, stage, batch, faults, lost>>

QueryFails(i) ==
    /\ Fault
    /\ i \in binds
    /\ binds' = binds \ {i}
    /\ UNCHANGED <<txs, tables, stage, batch, sent, lost>>

(* addExFieldForServiceTx sets what it is given; commands that are under   *)
(* way at the same time are applied in any order.                          *)
WriteLands(w) ==
    /\ w \in sent
    /\ sent' = sent \ {w}
    /\ named' = IF w.name = NoName THEN named ELSE [named EXCEPT ![w.hash] = w.name]
    /\ callHash' = IF w.call = 0 THEN callHash ELSE [callHash EXCEPT ![w.hash] = w.call]
    /\ bound' = IF w.bind THEN bound \cup {w.hash} ELSE bound
    /\ UNCHANGED <<txs, stage, batch, binds, faults, lost>>

LostMarks(writes) == lost' = lost \cup {w.hash : w \in {x \in writes : x.bind}}

WriteFails(w) ==
    /\ Fault
    /\ w \in sent
    /\ sent' = sent \ {w}
    /\ LostMarks({w})
    /\ UNCHANGED <<txs, tables, stage, batch, binds>>

(* The process dies, with everything it was about to do. *)
Crash ==
    /\ Fault
    /\ stage' = "idle" /\ batch' = {} /\ binds' = {} /\ sent' = {}
    /\ LostMarks(sent)
    /\ UNCHANGED <<txs, tables>>

RunStep == FindAllServiceTx \/ FindCallServiceTx

Next ==
    \/ NewTx \/ RunStep \/ Crash
    \/ \E i \in Hashes : QueryDefinition(i) \/ QueryFails(i)
    \/ \E w \in sent : WriteLands(w) \/ WriteFails(w)

Spec == Init /\ [][Next]_vars

(* Cron starts the task again and again; a query that is not lost is       *)
(* answered, and a write that is not lost is applied.                      *)
LiveSpec ==
    /\ Spec
    /\ WF_vars(RunStep)
    /\ \A i \in Hashes : WF_vars(QueryDefinition(i))
    /\ \A i \in Hashes : WF_vars(\E w \in sent : w.hash = i /\ WriteLands(w))
-----------------------------------------------------------------------------
(* Correctness. *)

(* The name a transaction should have, by what the chain knows of it. *)
Services(i) ==
    IF txs[i].type \in OwnTypes THEN {txs[i].name}
      ELSE {txs[c].name : c \in {k \in Known : /\ txs[k].type = "call_service"
                                               /\ txs[k].context = txs[i].context}}

(* Whatever batches cut it off, runs throw and writes come late, a         *)
(* transaction is never given the name of another service, nor an answer   *)
(* the call of another context or a name without its call.                 *)
NamesAreRight ==
    \A i \in Known :
        /\ named[i] # NoName => named[i] \in Services(i)
        /\ txs[i].type = "respond_service" =>
              /\ named[i] # NoName <=> callHash[i] # 0
              /\ callHash[i] # 0 => txs[callHash[i]].context = txs[i].context

Defines(d, i) ==
    txs[d].type = "define_service" /\ txs[d].ok /\ txs[d].name = txs[i].name

(* Once a binding has its name the task will not look at it again, so the  *)
(* mark on the definition is there, or still under way, or was lost on its *)
(* way.  And only a definition that took effect and was bound is marked.   *)
MarksAreRight ==
    /\ \A i \in Known : Binding(i) /\ named[i] # NoName =>
          \E d \in Known : Defines(d, i) /\ (d \in bound \cup lost \/ Mark(d) \in sent)
    /\ \A d \in bound : \E i \in Known : Binding(i) /\ Defines(d, i)

(* The next run throws, and so will all others until newer transactions    *)
(* push the operation out of the batch.                                    *)
Blocked == Throws(NextBatch)

(* The batch is full of transactions that will never have a name. *)
Clogged == Cardinality(NextBatch) = Size /\ \A i \in NextBatch : Services(i) = {}

(* When chain and faults rest, each transaction that can have a name gets  *)
(* it: lost writes, thrown runs that heal and operations replaced in the   *)
(* map delay it; only a blocked or a clogged batch keep it away for good.  *)
EveryTxIsNamed ==
    \A i \in Hashes :
        <>[](i \in Known /\ Services(i) # {} => named[i] # NoName \/ Blocked \/ Clogged)

=============================================================================
