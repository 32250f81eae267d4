--------------------------- MODULE MCTaskDispatch ---------------------------
(* Instances of TaskDispatch for TLC: which handler runs where, for what. *)
EXTENDS TaskDispatch, TLC

CONSTANTS p1, p2, h1, h2, nft

(* One task, one handler on each of two instances. *)
HostApart == (h1 :> p1) @@ (h2 :> p2)

(* Both handlers on one instance: cron fires again while a run is under    *)
(* way.  The other instance only scans.                                    *)
HostShared == (h1 :> p1) @@ (h2 :> p1)

JobNft == (h1 :> nft) @@ (h2 :> nft)
=============================================================================
