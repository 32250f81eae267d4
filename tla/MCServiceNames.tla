--------------------------- MODULE MCServiceNames ---------------------------
(* Small instances of ServiceNames. *)
EXTENDS ServiceNames

CONSTANTS s1, s2, c1, c2

Own(type) == [type |-> type, name |-> s1, context |-> NoContext, ok |-> TRUE]

(* A service that was defined, bound and called. *)
MCOld == <<Own("define_service"), Own("bind_service"),
           [Own("call_service") EXCEPT !.context = c1]>>
=============================================================================
