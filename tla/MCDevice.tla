------------------------------ MODULE MCDevice ------------------------------
(***************************************************************************)
(* What the app keeps on a device that fails, restarts and has its clock   *)
(* moved, one part at a time: the vault two copies share, the lock of the  *)
(* app and its delays, the news of a wallet, the notices that tell it.     *)
(***************************************************************************)
EXTENDS Vault, AppLock, Notices

CONSTANTS a, b, payer

VARIABLES part, newsMem, newsDisk, newsClock, listed, said

newsVars == <<newsMem, newsDisk, newsClock, listed, said>>

\* A payment and its fee bump, seen by the payer's wallet, while blocks are
\* taken back and the clock is set back.
Txs == {a, b}
Feed ==
  INSTANCE NewsFeed
    WITH Wallets <- {payer},
         Net <- (payer :> ((a :> -50300) @@ (b :> -45300))),
         Spends <- [t \in Txs |-> {"coin"}], Fee <- (a :> 1) @@ (b :> 2),
         UNCLAIMED_MAX <- 2, ANNOUNCED_MAX <- 8, UNCLAIMED_FOR <- 1,
         DROPPED_AFTER <- 0, VANISHING_FOR <- 1, MaxNow <- 1, MaxRecord <- 4,
         Maxima <- {9}, ClockBack <- TRUE, Reorgs <- TRUE, Returns <- FALSE,
         mem <- newsMem, disk <- newsDisk, now <- newsClock

\* Nobody is told a transaction is pending after being told it confirmed,
\* whichever blocks are taken back and whatever the clock says (news::told).
NoArrivalAfterConfirmation == Feed!NoArrivalAfterConfirmation

\* Both payments come to one wallet, whose notices have one line each.
OneWallet == [p \in Payments |-> payer]

\* Whoever acts is one of two, the same two in every part: the permutations
\* of one part are those of all.
Interchangeable == Permutations(Copies) \cup Permutations(Secrets)

\* Each part starts from its own initial states, the others from one.
MCInit ==
  /\ part \in {"vault", "lock", "news", "notices"}
  /\ Init /\ LockInit /\ Feed!Init /\ NoticesInit
  /\ part # "vault" => lockable /\ vault = Absent
  /\ part # "lock" => appLock = NoLock

Still(p) == part = p /\ UNCHANGED part
MCNext ==
  \/ Still("vault") /\ Next /\ UNCHANGED <<lockVars, newsVars, noticeVars>>
  \/ Still("lock") /\ LockNext /\ UNCHANGED <<vars, newsVars, noticeVars>>
  \/ Still("news") /\ Feed!Next /\ UNCHANGED <<vars, lockVars, noticeVars>>
  \/ Still("notices") /\ NoticesNext /\ UNCHANGED <<vars, lockVars, newsVars>>

MCSpec ==
  MCInit /\ [][MCNext]_<<part, vars, lockVars, newsVars, noticeVars>>
=============================================================================
