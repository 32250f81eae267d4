---------------------------- MODULE ServicesPage ----------------------------
(***************************************************************************)
(* The pages of services: services with their providers, the providers of  *)
(* a service, the bindings of a provider.  An answer is put together from  *)
(* a list and of one count of responses for each provider, read one after  *)
(* the other while transactions are stored and annotated (ServiceNames).   *)
(***************************************************************************)
EXTENDS Integers, FiniteSets

CONSTANTS
    ServiceTxs,             \* transactions about services
    Services, Providers,
    doesOf,                 \* define, bind, respond or disable
    serviceOf, providerOf,  \* with which service and provider
    okServiceTxs            \* those that succeeded

ASSUME ServicePageSettings ==
    /\ IsFiniteSet(ServiceTxs)
    /\ serviceOf \in [ServiceTxs -> Services] /\ providerOf \in [ServiceTxs -> Providers]

VARIABLES
    svcState,       \* of each transaction: absent, stored, named
    markedBound,    \* services whose definition has ex.bind > 0
    svcPage         \* the request

svcVars == <<svcState, markedBound, svcPage>>

Does(d) == {x \in ServiceTxs : svcState[x] # "absent" /\ doesOf[x] = d}
NamedTxs == {x \in ServiceTxs : svcState[x] = "named"}
Pair(x) == <<serviceOf[x], providerOf[x]>>
Pairs == Services \X Providers
Responses(sp) ==
    Cardinality({x \in NamedTxs : doesOf[x] = "respond" /\ Pair(x) = sp})

(* todo: services to look up.  pairs: services with providers to count the *)
(* responses of.  times: the counts.  unbound: pairs with an unbinding     *)
(* time.  atFirst, offFirst: history, the counts and the disabled pairs    *)
(* when the request came.                                                  *)
SvcInit ==
    /\ svcState = [x \in ServiceTxs |-> "absent"]
    /\ markedBound = {}
    /\ \E of \in {"services", "providers", "bindings"}, s \in Services, p \in Providers :
           svcPage = [at |-> "idle", of |-> of, service |-> s, provider |-> p,
                      todo |-> {}, pairs |-> {}, times |-> <<>>, unbound |-> {},
                      atFirst |-> <<>>, offFirst |-> {}]

-----------------------------------------------------------------------------
FindServiceAll == {serviceOf[x] : x \in Does("define") \cap okServiceTxs}

FindBindService(s) ==
    {Pair(x) : x \in {y \in Does("bind") \cap okServiceTxs \cap NamedTxs : serviceOf[y] = s}}

QueryBindServiceWithProvider(p) ==
    {Pair(x) : x \in {y \in Does("bind") \cap okServiceTxs : providerOf[y] = p}}

(* Mutant: whatever the service is. *)
RespondTimesOfProvider(s, p) ==
    Cardinality({x \in Does("respond") \cap NamedTxs : providerOf[x] = p})

FindProviderRespondTimesForService(s, p) ==
    Cardinality({x \in Does("respond") \cap NamedTxs : Pair(x) = <<s, p>>})

(* One that failed counts too. *)
QuerydisableServiceBinding(s, p) ==
    {x \in Does("disable") \cap NamedTxs : Pair(x) = <<s, p>>}

Disabled == {sp \in Pairs : QuerydisableServiceBinding(sp[1], sp[2]) # {}}

-----------------------------------------------------------------------------
StoreServiceTx(x) ==
    /\ svcState[x] = "absent"
    /\ svcState' = [svcState EXCEPT ![x] = "stored"]
    /\ UNCHANGED <<markedBound, svcPage>>

(* The naming task has found the service of a transaction.  A definition   *)
(* is marked when it counts the bindings.                                  *)
NameServiceTx(x) ==
    /\ svcState[x] = "stored"
    /\ svcState' = [svcState EXCEPT ![x] = "named"]
    /\ UNCHANGED <<markedBound, svcPage>>

MarkBound(s) ==
    /\ s \in FindServiceAll \ markedBound
    /\ FindBindService(s) # {}
    /\ markedBound' = markedBound \cup {s}
    /\ UNCHANGED <<svcState, svcPage>>

(* The list the answer begins with. *)
ListServices ==
    /\ svcPage.at = "idle"
    /\ svcPage' = [svcPage EXCEPT
           !.at = "reading",
           !.atFirst = [sp \in Pairs |-> Responses(sp)],
           !.offFirst = Disabled,
           !.todo = IF svcPage.of = "services" THEN FindServiceAll \cap markedBound ELSE {},
           !.pairs = CASE svcPage.of = "services" -> {}
                       [] svcPage.of = "providers" -> FindBindService(svcPage.service)
                       [] OTHER -> QueryBindServiceWithProvider(svcPage.provider)]
    /\ UNCHANGED <<svcState, markedBound>>

(* Providers are looked up for services that were marked in the list, for  *)
(* the next one when those of the last one are counted.                    *)
ListProviders(s) ==
    /\ svcPage.at = "reading" /\ s \in svcPage.todo
    /\ svcPage.pairs = DOMAIN svcPage.times
    /\ svcPage' = [svcPage EXCEPT !.todo = @ \ {s}, !.pairs = @ \cup FindBindService(s)]
    /\ UNCHANGED <<svcState, markedBound>>

(* One count for each provider; a binding also asks when it was disabled.  *)
CountResponds(sp) ==
    /\ svcPage.at = "reading"
    /\ sp \in svcPage.pairs \ DOMAIN svcPage.times
    /\ svcPage' = [svcPage EXCEPT
           !.times = [q \in DOMAIN @ \cup {sp} |->
               IF q = sp THEN FindProviderRespondTimesForService(sp[1], sp[2]) ELSE @[q]],
           !.unbound = IF svcPage.of = "bindings" /\ sp \in Disabled THEN @ \cup {sp} ELSE @]
    /\ UNCHANGED <<svcState, markedBound>>

AnswerServices ==
    /\ svcPage.at = "reading"
    /\ svcPage.todo = {} /\ svcPage.pairs = DOMAIN svcPage.times
    /\ svcPage' = [svcPage EXCEPT !.at = "done"]
    /\ UNCHANGED <<svcState, markedBound>>

SvcNext ==
    \/ \E x \in ServiceTxs : StoreServiceTx(x) \/ NameServiceTx(x)
    \/ \E s \in Services : MarkBound(s) \/ ListProviders(s)
    \/ \E sp \in Pairs : CountResponds(sp)
    \/ ListServices \/ AnswerServices

SvcSpec == SvcInit /\ [][SvcNext]_svcVars

-----------------------------------------------------------------------------
SvcTypeOK ==
    /\ svcState \in [ServiceTxs -> {"absent", "stored", "named"}]
    /\ markedBound \subseteq Services
    /\ svcPage.pairs \subseteq Pairs /\ svcPage.todo \subseteq Services

(* Whatever is stored and named meanwhile, the responses of a provider to  *)
(* a service are at least those of the time when the request came and at   *)
(* most those of the present, only bindings that succeeded are answered,   *)
(* and no service is answered with providers before it is marked.  A       *)
(* binding has an unbinding time if somebody had tried to disable it when  *)
(* the request came, and only if somebody has by now.                      *)
RespondTimesFit ==
    \A sp \in DOMAIN svcPage.times :
        /\ svcPage.times[sp] >= svcPage.atFirst[sp]
        /\ svcPage.times[sp] <= Responses(sp)
        /\ \E x \in Does("bind") \cap okServiceTxs : Pair(x) = sp
        /\ svcPage.of = "services" => sp[1] \in markedBound
        /\ sp \in svcPage.unbound => sp \in Disabled
        /\ svcPage.of = "bindings" /\ sp \in svcPage.offFirst => sp \in svcPage.unbound
=============================================================================
