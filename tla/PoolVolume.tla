------------------------------ MODULE PoolVolume ------------------------------
(* The rolling volume of a pool: swaps heard live and swaps found by a scan of  *)
(* the chain, told apart by their ids, with a cursor at the last block seen and *)
(* a copy on disk. A swap is its id and its block; a moment passes every        *)
(* 86400 / _BLOCKS_PER_DAY seconds, in which the code takes one block to be     *)
(* mined, whatever the chain does.                                              *)
EXTENDS Integers, Sequences

CONSTANTS
  Swaps,    \* ids, in the order of the chain
  Window,   \* moments of 24 hours
  Slack,    \* blocks a first scan starts before the window
  MaxHead,  \* bound: blocks of a behaviour
  MaxClock, \* bound: moments of a behaviour
  Rpcs      \* endpoints a scan may try

(* An id is made of the transaction and the place of the log in it: no two      *)
(* swaps share one.                                                            *)
ASSUME PoolAssumption ==
  /\ Swaps \in Seq({Swaps[i] : i \in DOMAIN Swaps})
  /\ \A i, j \in DOMAIN Swaps : Swaps[i] = Swaps[j] => i = j
  /\ Window \in Nat /\ Slack \in Nat /\ Rpcs \in Nat

VARIABLES
  clock,    \* the time, the host's and the chain's
  head,     \* latest block
  stamp,    \* timestamp of each block
  chain,    \* swaps mined, in order
  store,    \* swaps, seeded, cursor: _PoolVolumeState
  disk,     \* what the last save wrote
  conn,     \* the listener's socket
  inbox,    \* its events not handled yet
  scan,     \* how the running scan was called
  missed,   \* ghost: swaps a cursor passed over or a scan took for older ones
  beyond    \* ghost: swaps the last scan's endpoint had yet to hear of

network  == <<clock, head, stamp, chain>>
excused  == <<missed, beyond>>
poolVars == <<network, store, disk, conn, inbox, scan, excused>>

None    == -1
Empty   == [swaps |-> <<>>, seeded |-> FALSE, cursor |-> None]
NoScan  == [from |-> None, since |-> 0, tries |-> 0]

PoolInit ==
  /\ clock = 0 /\ head = 0 /\ stamp = [b \in {0} |-> 0] /\ chain = <<>>
  /\ store = Empty /\ disk = Empty
  /\ conn = "boot" /\ inbox = <<>> /\ scan = NoScan /\ missed = {} /\ beyond = {}

-----------------------------------------------------------------------------
(* The store.                                                                  *)

Ids(swaps) == {swaps[i].id : i \in DOMAIN swaps}

(* Only from the left: an older swap behind a younger one stays.               *)
Evict(s) ==
  LET young == {i \in DOMAIN s.swaps : s.swaps[i].at >= clock - Window}
      first == CHOOSE i \in young : \A j \in young : i <= j
  IN [s EXCEPT !.swaps = IF young = {} THEN <<>> ELSE SubSeq(@, first, Len(@))]

Moved(cursor, block) == IF block > cursor THEN block ELSE cursor

RecordBlind(s, swap, at, block) ==
  Evict([s EXCEPT !.swaps = Append(@, [id |-> swap.id, at |-> at]),
                  !.cursor = Moved(@, block)])

(* record: a swap known already leaves even the cursor alone.                  *)
Record(s, swap, at, block) ==
  IF swap.id \in Ids(s.swaps) THEN s
  ELSE Evict([s EXCEPT !.swaps = Append(@, [id |-> swap.id, at |-> at]),
                       !.cursor = Moved(@, block)])

-----------------------------------------------------------------------------
(* The chain.                                                                  *)

Moment ==
  /\ clock < MaxClock /\ clock' = clock + 1
  /\ UNCHANGED <<head, stamp, chain, store, disk, conn, inbox, scan, excused>>

(* Several blocks in a moment, or none.                                        *)
Block ==
  /\ head < MaxHead /\ head' = head + 1
  /\ stamp' = [b \in 0..head + 1 |-> IF b <= head THEN stamp[b] ELSE clock]
  /\ UNCHANGED <<clock, chain, store, disk, conn, inbox, scan, excused>>

Swap ==
  /\ Len(chain) < Len(Swaps)
  /\ LET swap == [id |-> Swaps[Len(chain) + 1], block |-> head] IN
       /\ chain' = Append(chain, swap)
       /\ inbox' = IF conn \in {"subscribing", "subscribed", "sync", "live"}
                     THEN Append(inbox, swap) ELSE inbox
  /\ UNCHANGED <<clock, head, stamp, store, disk, conn, scan, excused>>

-----------------------------------------------------------------------------
(* The scan, at start-up and after every subscription.                         *)

ResumeNext == IF store.seeded THEN store.cursor + 1 ELSE None

Resume == IF store.seeded THEN store.cursor ELSE None

(* When a block was mined, as a scan that ends at block latest reckons it.     *)
Dated(latest, block) == stamp[latest] - (latest - block)

(* From the window's floor, reckoned likewise, or from the block asked for.    *)
Covered(latest) ==
  LET floor == latest - (stamp[latest] - (clock - Window))
      start == IF scan.from = None THEN floor - Slack
               ELSE IF scan.from > floor THEN scan.from ELSE floor
  IN {i \in DOMAIN chain : chain[i].block >= start /\ chain[i].block <= latest}

(* What was found is recorded swap by swap, in the order of the chain.         *)
Filled(s, found, latest) ==
  LET upTo[n \in 0..Len(chain)] ==
        IF n = 0 THEN s
        ELSE IF n \in found
          THEN Record(upTo[n - 1], chain[n], Dated(latest, chain[n].block), None)
        ELSE upTo[n - 1]
  IN upTo[Len(chain)]

StartScan ==
  /\ conn \in {"boot", "subscribed"}
  /\ scan' = [from |-> Resume, since |-> head, tries |-> Rpcs]
  /\ conn' = IF conn = "boot" THEN "seeding" ELSE "sync"
  /\ UNCHANGED <<network, store, disk, inbox, excused>>

AfterScan == IF conn = "seeding" THEN "down" ELSE "live"

(* What a scan takes for older than it is: dates it puts before their time,    *)
(* when blocks come faster than the constant has them.                         *)
Antedated(latest) ==
  {chain[i].id : i \in {j \in DOMAIN chain :
     /\ scan.from <= chain[j].block /\ chain[j].block <= latest
     /\ Dated(latest, chain[j].block) < stamp[chain[j].block]}}

(* A gap fill adds to the store, anything else fills a new one; the cursor      *)
(* moves at the end. An endpoint may be any number of blocks behind, even       *)
(* behind those that were there when it was asked.                              *)
ScanOk ==
  /\ conn \in {"seeding", "sync"}
  /\ \E latest \in 0..head :
       LET base == IF scan.from = None THEN [Empty EXCEPT !.seeded = TRUE] ELSE store
       IN /\ store' = [Filled(base, Covered(latest), latest) EXCEPT !.cursor = Moved(@, latest)]
          /\ missed' = (IF scan.from = None THEN {} ELSE missed) \cup Antedated(latest)
          /\ beyond' = IF conn = "seeding" THEN {}
                       ELSE {chain[i].id : i \in {j \in DOMAIN chain :
                               latest < chain[j].block /\ chain[j].block <= scan.since}}
                            \ (Ids(store'.swaps) \cup Ids(inbox))
  /\ disk' = store'
  /\ conn' = AfterScan /\ scan' = NoScan
  /\ UNCHANGED <<network, inbox>>

(* The last endpoint's failure empties the store.                              *)
ScanFail ==
  /\ conn \in {"seeding", "sync"}
  /\ IF scan.tries > 1
       THEN /\ scan' = [scan EXCEPT !.tries = @ - 1]
            /\ UNCHANGED <<store, disk, conn, excused>>
       ELSE /\ store' = Empty /\ disk' = Empty /\ missed' = {} /\ beyond' = {}
            /\ conn' = AfterScan /\ scan' = NoScan
  /\ UNCHANGED <<network, inbox>>

-----------------------------------------------------------------------------
(* The socket: events that come while the subscriptions are confirmed are      *)
(* handled at once, those that come during the scan wait.                      *)

Subscribe ==
  /\ conn = "down" /\ conn' = "subscribing"
  /\ UNCHANGED <<network, store, disk, inbox, scan, excused>>

Subscribed ==
  /\ conn = "subscribing" /\ conn' = "subscribed"
  /\ UNCHANGED <<network, store, disk, inbox, scan, excused>>

(* What a cursor moved to a block leaves behind uncounted.                     *)
Skipped(block) ==
  {chain[i].id : i \in {j \in DOMAIN chain :
     store.cursor <= chain[j].block /\ chain[j].block < block}} \ Ids(store.swaps)

(* A save is due every 30 seconds.                                             *)
Live ==
  /\ conn \in {"subscribing", "live"} /\ inbox # <<>>
  /\ inbox' = Tail(inbox)
  /\ LET swap == Head(inbox) IN
       /\ store' = IF store.seeded THEN Record(store, swap, clock, swap.block) ELSE store
       /\ missed' = IF store'.cursor = store.cursor THEN missed
                    ELSE missed \cup (IF conn = "live" THEN Skipped(swap.block) \cap beyond
                                     ELSE Skipped(swap.block))
  /\ disk' \in {disk, store'}
  /\ UNCHANGED <<network, conn, scan, beyond>>

(* get_24h_volume_usd: who asks for the volume evicts what is too old.          *)
Ask ==
  /\ store.seeded /\ store' = Evict(store)
  /\ UNCHANGED <<network, disk, conn, inbox, scan, excused>>

Close ==
  /\ conn \in {"subscribing", "subscribed", "sync", "live"}
  /\ conn' = "down" /\ inbox' = <<>> /\ scan' = NoScan /\ beyond' = {}
  /\ UNCHANGED <<network, store, disk, missed>>

(* The file is read at the first use.                                          *)
PoolRestart ==
  /\ store' = Evict(disk)
  /\ conn' = "boot" /\ inbox' = <<>> /\ scan' = NoScan /\ beyond' = {}
  /\ UNCHANGED <<network, disk, missed>>

PoolNext ==
  \/ Moment \/ Block \/ Swap \/ StartScan \/ ScanOk \/ ScanFail
  \/ Subscribe \/ Subscribed \/ Live \/ Ask \/ Close \/ PoolRestart

PoolSpec == PoolInit /\ [][PoolNext]_poolVars

-----------------------------------------------------------------------------
(* No swap is counted twice, whether heard, scanned, scanned again after a     *)
(* reconnect or a restart, or read back from the file.                         *)
NoDoubleCount ==
  \A i, j \in DOMAIN store.swaps : store.swaps[i].id = store.swaps[j].id => i = j

(* Once a scan has succeeded and its socket is live, every swap of the last     *)
(* 24 hours whose event has been handled is counted, those of the gaps before   *)
(* too, but for three kinds. Those an event moved the cursor past, before the   *)
(* gap fill or after one that ended too early, are never looked for again.      *)
(* Those before the subscription that the gap fill's endpoint had yet to hear   *)
(* of wait for the next one. Those the scan took for older than they are, since *)
(* blocks come faster than the code believes, are left out or forgotten early.  *)
GapFilled ==
  conn = "live" /\ store.seeded =>
    \A i \in DOMAIN chain :
      \/ stamp[chain[i].block] < clock - Window
      \/ chain[i].id \in Ids(store.swaps) \cup Ids(inbox) \cup missed \cup beyond

=============================================================================
