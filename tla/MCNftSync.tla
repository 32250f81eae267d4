----------------------------- MODULE MCNftSync -----------------------------
(* A small instance of NftSync: two NFTs, four messages, batches of one.   *)
(* The NFTs differ in name only, so the first message is about n1.         *)
EXTENDS NftSync

CONSTANTS n1, n2

MCNext == Next /\ (msgs' # msgs => msgs'[1].nft = n1)
MCSpec == Init /\ [][MCNext]_vars /\ Fairness
=============================================================================
