---------------------- MODULE ArbExecution_legs_proofs ----------------------
(***************************************************************************)
(* The legs of a trade against its row.  Each opportunity is bought once   *)
(* and sold once, and one that was given up holds nothing, as long as the  *)
(* process and its store live and the venues name the trades they accept;  *)
(* a completed row is bought and sold, through crashes and lost responses  *)
(* too; and what is left unsold halts trading and can be recovered.  Each  *)
(* theorem assumes away the faults it names and no other: any interleaving *)
(* of ticks and commands is allowed by all of them.                        *)
(***************************************************************************)
EXTENDS ArbExecution_proofs

(* The environment of the theorems below.                                  *)
NothingLost == Faults \cap {"store", "crash", "lost_response", "untracked"} = {}

Buys(o)  == LiveLegs(o, "buy")
Sells(o) == LiveLegs(o, "sell")

AtMostOne(S) == \A g, h \in S : g = h

BeforeBuy  == {"insert", "spawned", "mark", "buy", "buyfail", "fail"}
BeforeSell == BeforeBuy \cup {"filled", "sell", "r_retry", "r_reverse", "r_failed"}
Nothing    == Active \cup {"abandoned", "expired"}

(* The legs of an opportunity against its task and its row: a task that    *)
(* may still place a leg finds none of that kind, and between two tasks    *)
(* the row tells which legs there can be.                                  *)
Book(o) ==
  /\ AtMostOne(Buys(o)) /\ AtMostOne(Sells(o))
  /\ task[o].pc \in BeforeBuy => Buys(o) = {}
  /\ task[o].pc \in BeforeSell => Sells(o) = {}
  /\ task[o].pc = "half" => Sells(o) \subseteq {task[o].sellRef}
  /\ task[o].pc = "r_gate" => Sells(o) \subseteq {db[o].sellTx}
  /\ task[o].pc = "insert" => db[o].status = "none"
  /\ task[o].pc \in RecoverSteps => db[o].status \in Unsold
  /\ task[o].pc = "idle" /\ db[o].status \in Nothing => Buys(o) = {} /\ Sells(o) = {}
  /\ task[o].pc = "idle" /\ db[o].status \in Unsold => Sells(o) \subseteq {db[o].sellTx}

BookInv == \A o \in Opps : Book(o)

IInv == TypeOK /\ OneAtATime /\ BookInv

-----------------------------------------------------------------------------
(* Legs.                                                                   *)

(* With nothing lost, a leg reported failed never took effect, and one     *)
(* reported pending is named.                                              *)
LEMMA OutcomesKnown ==
  ASSUME NothingLost, NEW venue, NEW mayPend, NEW out \in Outcomes(venue, mayPend)
  PROVE  /\ out.status \in {"raised", "failed", "ok", "pending"}
         /\ out.fate \in {"none", "landed", "reverted", "inflight"}
         /\ out.status \in {"raised", "failed"} => out.fate \in {"none", "reverted"}
         /\ out.status = "pending" => out.ref
  <1>1. out \in {Outcome("raised", FALSE, "none"), Outcome("failed", FALSE, "none"),
                 Outcome("ok", FALSE, "landed"), Outcome("ok", TRUE, "landed"),
                 Outcome("ok", FALSE, "inflight"), Outcome("failed", TRUE, "reverted"),
                 Outcome("pending", TRUE, "inflight")}
    <2>1. /\ "store" \notin Faults /\ "lost_response" \notin Faults
          /\ "untracked" \notin Faults
      BY DEF NothingLost
    <2> QED  BY <2>1 DEF Outcomes
  <1> QED  BY <1>1 DEF Outcome

(* Placing a leg adds it to the live legs of its kind, or adds nothing.    *)
LEMMA PlaceLegs ==
  ASSUME TypeOK, NEW o \in Opps, NEW leg \in {"buy", "sell"}, NEW out,
         NEW h \in FreshHash \cup {NoHash},
         out.fate \in {"none", "landed", "reverted", "inflight"}, Place(o, leg, out, h),
         NEW p \in Opps, NEW l \in {"buy", "sell"}
  PROVE  /\ p # o \/ l # leg \/ out.fate \in {"none", "reverted"}
              => LiveLegs(p, l)' = LiveLegs(p, l)
         /\ p = o /\ l = leg => LiveLegs(p, l)' \subseteq LiveLegs(p, l) \cup {h}
  <1>1. CASE out.fate = "none"
    BY <1>1 DEF Place, LiveLegs, Live
  <1>2. CASE out.fate # "none"
    <2>1. /\ h \in Hash /\ tx[h].state = "unused"
          /\ tx' = [tx EXCEPT ![h] = [opp |-> o, leg |-> leg, state |-> out.fate]]
      BY <1>2 DEF Place, FreshHash
    <2>2. tx'[h] = [opp |-> o, leg |-> leg, state |-> out.fate]
      BY <2>1 DEF TypeOK
    <2>3. \A g \in Hash \ {h} : tx'[g] = tx[g]
      BY <2>1 DEF TypeOK
    <2>4. h \notin LiveLegs(p, l)
      BY <2>1 DEF LiveLegs, Live
    <2>5. h \in LiveLegs(p, l)' => p = o /\ l = leg /\ out.fate \notin {"none", "reverted"}
      BY <1>2, <2>2 DEF LiveLegs, Live
    <2>6. \A g \in Hash \ {h} : g \in LiveLegs(p, l)' <=> g \in LiveLegs(p, l)
      BY <2>3 DEF LiveLegs, Live
    <2>7. LiveLegs(p, l) \subseteq Hash /\ LiveLegs(p, l)' \subseteq Hash
      BY DEF LiveLegs
    <2> QED  BY <2>4, <2>5, <2>6, <2>7
  <1> QED  BY <1>1, <1>2

LEMMA SameLegs ==
  ASSUME UNCHANGED tx, NEW p \in Opps, NEW l
  PROVE  LiveLegs(p, l)' = LiveLegs(p, l)
  BY DEF LiveLegs, Live

(* What an opportunity nobody works on keeps: its legs can only end and    *)
(* its row can only expire.                                                *)
LEMMA FrameBook ==
  ASSUME NEW p \in Opps, Book(p), task'[p] = task[p],
         \/ db'[p] = db[p]
         \/ db[p].status \in Active /\ db'[p].status = "expired",
         Buys(p)' \subseteq Buys(p), Sells(p)' \subseteq Sells(p)
  PROVE  Book(p)'
  <1>1. CASE db'[p] = db[p]
    BY <1>1 DEF Book, AtMostOne
  <1>2. CASE db[p].status \in Active /\ db'[p].status = "expired"
    <2>1. db[p].status \notin Unsold /\ db[p].status # "none" /\ db[p].status \in Nothing
      BY <1>2 DEF Active, Unsold, Nothing
    <2>2. db'[p].status \notin Unsold
      BY <1>2 DEF Unsold
    <2>3. task[p].pc # "r_gate"
      BY <2>1 DEF Book, RecoverSteps
    <2> QED  BY <2>1, <2>2, <2>3 DEF Book, AtMostOne
  <1> QED  BY <1>1, <1>2

LEMMA OthersBook ==
  ASSUME BookInv, NEW o \in Opps, Book(o)',
         \A p \in Opps \ {o} : /\ task'[p] = task[p] /\ db'[p] = db[p]
                               /\ Buys(p)' \subseteq Buys(p) /\ Sells(p)' \subseteq Sells(p)
  PROVE  BookInv'
  BY FrameBook DEF BookInv

-----------------------------------------------------------------------------
(* Ticks.                                                                  *)

(* An opportunity that nobody has touched has no legs.                     *)
LEMMA FreshLegs ==
  ASSUME NEW o \in Opps, Fresh(o)
  PROVE  Buys(o) = {} /\ Sells(o) = {}
  BY DEF Fresh, Buys, Sells, LiveLegs

(* A trade is spawned with no legs to its name.                            *)
LEMMA SpawnBook ==
  ASSUME TypeOK, BookInv, NEW o \in Opps, NEW d, Spawn(o, d), UNCHANGED tx,
         Buys(o) = {}, Sells(o) = {}, db' \in [Opps -> Row],
         \A p \in Opps \ {o} : \/ db'[p] = db[p]
                               \/ db[p].status \in Active /\ db'[p].status = "expired"
  PROVE  BookInv'
  <1>1. \A p \in Opps : Buys(p)' = Buys(p) /\ Sells(p)' = Sells(p)
    BY SameLegs DEF Buys, Sells
  <1>2. task'[o].pc = "spawned" /\ \A p \in Opps \ {o} : task'[p] = task[p]
    BY DEF Spawn, TypeOK, NoTask
  <1>3. Book(o)'
    BY <1>1, <1>2 DEF Book, AtMostOne, RecoverSteps
  <1>4. \A p \in Opps \ {o} : Book(p)'
    BY <1>1, <1>2, FrameBook DEF BookInv
  <1> QED  BY <1>3, <1>4 DEF BookInv

LEMMA TickBook ==
  ASSUME IInv, NEW d \in Directions, CexTick(d) \/ DexTick(d) \/ DexTickUnrecorded(d)
  PROVE  BookInv'
  <1>0. TypeOK /\ OneAtATime /\ BookInv  BY DEF IInv
  <1>1. CASE CexTick(d) \/ DexTickUnrecorded(d)
    <2>1. PICK o \in Opps : Fresh(o) /\ Spawn(o, d)
      BY <1>1 DEF CexTick, DexTickUnrecorded
    <2>2. UNCHANGED <<db, tx>>  BY <1>1 DEF CexTick, DexTickUnrecorded
    <2> QED  BY <1>0, <2>1, <2>2, FreshLegs, SpawnBook DEF TypeOK
  <1>2. CASE DexTick(d)
    <2>1. UNCHANGED tx  BY <1>2 DEF DexTick
    <2>2. \A p \in Opps : \/ db'[p] = db[p]
                          \/ db[p].status \in Active /\ db'[p].status = "expired"
      <3>1. PICK old \in SUBSET {o \in Opps : db[o].status \in Active
                                             /\ pipeline(db[o].dir) = "dex_dex"} :
              db' = [o \in Opps |-> IF o \in old THEN [db[o] EXCEPT !.status = "expired"]
                                                ELSE db[o]]
        BY <1>2 DEF DexTick
      <3>2. \A p \in Opps : db[p] \in Row  BY <1>0 DEF TypeOK
      <3> QED  BY <3>1, <3>2 DEF Row
    <2>3. db' \in [Opps -> Row]
      BY <1>0, <1>2, TickType DEF TypeOK
    <2>4. \A p \in Opps : Buys(p)' = Buys(p) /\ Sells(p)' = Sells(p)
      BY <2>1, SameLegs DEF Buys, Sells
    <2>5. CASE UNCHANGED task
      BY <1>0, <2>2, <2>4, <2>5, FrameBook DEF BookInv
    <2>6. ASSUME NEW o \in DexRows(db', d), Spawn(o, d)
          PROVE  BookInv'
      <3>1. o \in Opps /\ db'[o].status \in Active  BY <2>6 DEF DexRows
      <3>2. db[o].status \in Nothing  BY <2>2, <3>1 DEF Nothing, Active
      <3>3. ~Trading(o)  BY <1>0, <2>6, <3>1 DEF Spawn, CanSpawn, OneAtATime
      <3>4. task[o].pc \in {"idle", "insert"}
        BY <1>0, <3>1, <3>3 DEF TypeOK, Task, Trading
      <3>5. task[o].pc = "idle"
        BY <1>0, <3>1, <3>2, <3>4 DEF BookInv, Book, Nothing, Active
      <3>6. Buys(o) = {} /\ Sells(o) = {}
        BY <1>0, <3>1, <3>2, <3>5 DEF BookInv, Book
      <3> QED  BY <1>0, <2>1, <2>2, <2>3, <2>6, <3>1, <3>6, SpawnBook
    <2>7. ASSUME NEW o \in Opps, Fresh(o),
                 task' = [task EXCEPT ![o] = [NoTask EXCEPT !.pc = "insert", !.dir = d]]
          PROVE  BookInv'
      <3>1. task'[o].pc = "insert" /\ \A p \in Opps \ {o} : task'[p] = task[p]
        BY <1>0, <2>7 DEF TypeOK, NoTask
      <3>2. db'[o].status = "none"
        BY <2>2, <2>7 DEF Fresh, NoRow, Active
      <3>3. Book(o)'
        BY <2>4, <2>7, <3>1, <3>2, FreshLegs DEF Book, AtMostOne, RecoverSteps
      <3>4. \A p \in Opps \ {o} : Book(p)'
        BY <1>0, <2>2, <2>4, <3>1, FrameBook DEF BookInv
      <3> QED  BY <3>3, <3>4 DEF BookInv
    <2> QED  BY <1>2, <2>5, <2>6, <2>7 DEF DexTick, NoSpawn
  <1> QED  BY <1>1, <1>2

LEMMA InsertBook ==
  ASSUME NothingLost, IInv, NEW o \in Opps, DexInsert(o)
  PROVE  BookInv'
  <1>0. TypeOK /\ BookInv /\ UNCHANGED tx /\ task[o].pc = "insert"
    BY DEF IInv, DexInsert
  <1>1. Buys(o) = {} /\ Sells(o) = {}
    BY <1>0 DEF BookInv, Book, BeforeBuy, BeforeSell
  <1>2. /\ db' = [db EXCEPT ![o] = [NoRow EXCEPT !.status = "detected", !.dir = task[o].dir]]
        /\ \/ Spawn(o, task[o].dir)
           \/ task' = [task EXCEPT ![o] = NoTask]
    BY DEF DexInsert, StoreFails, NothingLost
  <1>3. db' \in [Opps -> Row]
    BY <1>0, InsertType DEF TypeOK
  <1>4. CASE Spawn(o, task[o].dir)
    BY <1>0, <1>1, <1>2, <1>3, <1>4, SpawnBook DEF TypeOK
  <1>5. CASE task' = [task EXCEPT ![o] = NoTask]
    <2>1. \A p \in Opps : Buys(p)' = Buys(p) /\ Sells(p)' = Sells(p)
      BY <1>0, SameLegs DEF Buys, Sells
    <2>2. task'[o].pc = "idle" /\ db'[o].status = "detected"
      BY <1>0, <1>2, <1>5 DEF TypeOK, NoTask, NoRow
    <2>3. Book(o)'
      BY <1>1, <2>1, <2>2
      DEF Book, AtMostOne, RecoverSteps, BeforeBuy, BeforeSell, Nothing, Unsold, Active
    <2> QED  BY <1>0, <1>2, <1>5, <2>1, <2>3, OthersBook DEF TypeOK
  <1> QED  BY <1>2, <1>4, <1>5

-----------------------------------------------------------------------------
(* Executions.                                                             *)

LEMMA UpdateRow ==
  ASSUME TypeOK, NEW o \in Opps, NEW row, Update(o, row)
  PROVE  /\ db[o].status = "none" => db'[o] = db[o]
         /\ db[o].status # "none" => db'[o] = row
         /\ \A p \in Opps \ {o} : db'[p] = db[p]
  BY DEF Update, TypeOK

(* An execution that has placed no leg has nothing to account for.         *)
LEMMA EmptyBook ==
  ASSUME NEW o \in Opps, Buys(o)' = {}, Sells(o)' = {},
         task'[o].pc \notin RecoverSteps \cup {"insert"}
  PROVE  Book(o)'
  BY DEF Book, AtMostOne, RecoverSteps

(* A step of o's task that places no leg.                                  *)
LEMMA QuietStep ==
  ASSUME TypeOK, BookInv, NEW o \in Opps, UNCHANGED tx,
         \A p \in Opps \ {o} : task'[p] = task[p] /\ db'[p] = db[p],
         Buys(o)' = Buys(o) /\ Sells(o)' = Sells(o) => Book(o)'
  PROVE  BookInv'
  <1>1. \A p \in Opps : Buys(p)' = Buys(p) /\ Sells(p)' = Sells(p)
    BY SameLegs DEF Buys, Sells
  <1> QED  BY <1>1, OthersBook

(* A step of o's task that places a leg.                                   *)
LEMMA LegStep ==
  ASSUME TypeOK, BookInv, NEW o \in Opps, NEW leg \in {"buy", "sell"}, NEW out,
         NEW h \in FreshHash \cup {NoHash},
         out.fate \in {"none", "landed", "reverted", "inflight"}, Place(o, leg, out, h),
         \A p \in Opps \ {o} : task'[p] = task[p] /\ db'[p] = db[p],
         Book(o)'
  PROVE  BookInv'
  <1>1. \A p \in Opps \ {o} : Buys(p)' = Buys(p) /\ Sells(p)' = Sells(p)
    BY PlaceLegs DEF Buys, Sells
  <1> QED  BY <1>1, OthersBook

LEMMA BuyBook ==
  ASSUME NothingLost, IInv, NEW o \in Opps, Buy(o)
  PROVE  BookInv'
  <1>0. TypeOK /\ BookInv  BY DEF IInv
  <1>1. Buys(o) = {} /\ Sells(o) = {}
    BY <1>0 DEF Buy, BookInv, Book, BeforeBuy, BeforeSell
  <1>2. PICK out \in Outcomes(ROUTES[task[o].dir].buy, "pending_buy" \in Faults),
             h \in FreshHash \cup {NoHash} :
          /\ Place(o, "buy", out, h)
          /\ task' = [task EXCEPT
                        ![o].pc = AfterBuy(task[o].dir, out.status),
                        ![o].buy = IF out.status \in {"ok", "pending"} THEN out.status
                                                                      ELSE "none",
                        ![o].buyRef = IF out.status \in {"ok", "pending"} THEN Ref(out, h)
                                                                         ELSE NoHash]
    BY DEF Buy
  <1>3. /\ out.status \in {"raised", "failed", "ok", "pending"}
        /\ out.fate \in {"none", "landed", "reverted", "inflight"}
        /\ out.status \in {"raised", "failed"} => out.fate \in {"none", "reverted"}
    BY OutcomesKnown
  <1>4. /\ task'[o].pc = AfterBuy(task[o].dir, out.status)
        /\ \A p \in Opps \ {o} : task'[p] = task[p] /\ db'[p] = db[p]
    BY <1>0, <1>2 DEF TypeOK, Task, Buy
  <1>5. Sells(o)' = {}
    BY <1>0, <1>1, <1>2, <1>3, PlaceLegs DEF Sells
  <1>6. Book(o)'
    <2>1. CASE out.status \in {"raised", "failed"}
      <3>1. Buys(o)' = {}
        BY <1>0, <1>1, <1>2, <1>3, <2>1, PlaceLegs DEF Buys
      <3>2. task'[o].pc \in {"fail", "buyfail"}  BY <1>4, <2>1 DEF AfterBuy
      <3> QED  BY <1>5, <3>1, <3>2, EmptyBook DEF RecoverSteps
    <2>2. CASE out.status \in {"ok", "pending"}
      <3>1. AtMostOne(Buys(o)')
        <4>1. Buys(o)' \subseteq Buys(o) \cup {h}
          BY <1>0, <1>2, <1>3, PlaceLegs DEF Buys
        <4> QED  BY <1>1, <4>1 DEF AtMostOne
      <3>2. task'[o].pc \in {"filled", "half", "sell"}  BY <1>4, <2>2 DEF AfterBuy
      <3> QED  BY <1>5, <3>1, <3>2 DEF Book, AtMostOne, RecoverSteps, BeforeBuy
    <2> QED  BY <1>3, <2>1, <2>2
  <1> QED  BY <1>0, <1>2, <1>3, <1>4, <1>6, LegStep

LEMMA SellBook ==
  ASSUME NothingLost, IInv, NEW o \in Opps, Sell(o)
  PROVE  BookInv'
  <1>0. TypeOK /\ BookInv  BY DEF IInv
  <1>1. AtMostOne(Buys(o)) /\ Sells(o) = {}
    BY <1>0 DEF Sell, BookInv, Book, BeforeSell
  <1>2. PICK out \in Outcomes(ROUTES[task[o].dir].sell, TRUE),
             h \in FreshHash \cup {NoHash} :
          /\ Place(o, "sell", out, h)
          /\ task' = [task EXCEPT ![o].pc = IF out.status = "ok" THEN "done" ELSE "half",
                                  ![o].sellRef = Ref(out, h)]
    BY DEF Sell
  <1>3. /\ out.status \in {"raised", "failed", "ok", "pending"}
        /\ out.fate \in {"none", "landed", "reverted", "inflight"}
        /\ out.status \in {"raised", "failed"} => out.fate \in {"none", "reverted"}
        /\ out.status = "pending" => out.ref
    BY OutcomesKnown
  <1>4. /\ task'[o].pc = IF out.status = "ok" THEN "done" ELSE "half"
        /\ task'[o].sellRef = Ref(out, h)
        /\ \A p \in Opps \ {o} : task'[p] = task[p] /\ db'[p] = db[p]
    BY <1>0, <1>2 DEF TypeOK, Task, Sell
  <1>5. Buys(o)' = Buys(o)
    BY <1>0, <1>2, <1>3, PlaceLegs DEF Buys
  <1>6. Sells(o)' \subseteq {h}
    BY <1>0, <1>1, <1>2, <1>3, PlaceLegs DEF Sells
  <1>7. out.status # "ok" => Sells(o)' \subseteq {Ref(out, h)}
    <2>1. CASE out.status \in {"raised", "failed"}
      BY <1>0, <1>1, <1>2, <1>3, <2>1, PlaceLegs DEF Sells
    <2>2. CASE out.status = "pending"
      BY <1>3, <1>6, <2>2 DEF Ref
    <2> QED  BY <1>3, <2>1, <2>2
  <1>8. Book(o)'
    BY <1>1, <1>4, <1>5, <1>6, <1>7
    DEF Book, AtMostOne, RecoverSteps, BeforeBuy, BeforeSell
  <1> QED  BY <1>0, <1>2, <1>3, <1>4, <1>8, LegStep

LEMMA HalfOpenBook ==
  ASSUME NothingLost, IInv, NEW o \in Opps, HalfOpen(o)
  PROVE  BookInv'
  <1> DEFINE row == [db[o] EXCEPT !.status = "half_open",
                                  !.buyAmt = @ \/ pipeline(task[o].dir) = "cex_dex",
                                  !.buyTx = Keep(task[o].buyRef, @),
                                  !.sellTx = Keep(task[o].sellRef, @)]
  <1>0. TypeOK /\ BookInv /\ UNCHANGED tx /\ task[o].pc = "half"
    BY DEF IInv, HalfOpen
  <1>1. Update(o, row)
    BY DEF HalfOpen, StoreFails, NothingLost
  <1>2. row.status = "half_open" /\ row.sellTx = Keep(task[o].sellRef, db[o].sellTx)
    BY <1>0 DEF TypeOK, Row
  <1> HIDE DEF row
  <1>3. task'[o].pc = "idle" /\ \A p \in Opps \ {o} : task'[p] = task[p]
    BY <1>0 DEF HalfOpen, Release, NoTask, TypeOK
  <1>4. AtMostOne(Buys(o)) /\ AtMostOne(Sells(o)) /\ Sells(o) \subseteq {task[o].sellRef}
    BY <1>0 DEF BookInv, Book
  <1>5. Sells(o) \subseteq {row.sellTx}
    <2>1. NoHash \notin Sells(o)
      BY ConstantsAssumption DEF Sells, LiveLegs
    <2> QED  BY <1>2, <1>4, <2>1 DEF Keep
  <1>6. db'[o].status = "none" \/ db'[o] = row
    BY <1>0, <1>1, UpdateRow
  <1>7. Buys(o)' = Buys(o) /\ Sells(o)' = Sells(o) => Book(o)'
    BY <1>2, <1>3, <1>4, <1>5, <1>6
    DEF Book, AtMostOne, RecoverSteps, BeforeBuy, BeforeSell, Nothing, Active, Unsold
  <1> QED  BY <1>0, <1>1, <1>3, <1>7, UpdateRow, QuietStep

(* Completing a trade closes its row, if it has one.                       *)
LEMMA CompletedBook ==
  ASSUME IInv, NEW o \in Opps, Completed(o), Release(o), UNCHANGED tx
  PROVE  BookInv'
  <1> DEFINE row == IF pipeline(task[o].dir) = "cex_dex"
                      THEN [db[o] EXCEPT !.status = "completed"]
                      ELSE [db[o] EXCEPT !.status = "completed",
                                         !.buyTx = Keep(task[o].buyRef, @),
                                         !.sellTx = Keep(task[o].sellRef, @)]
  <1>0. TypeOK /\ BookInv  BY DEF IInv
  <1>1. Update(o, row)  BY DEF Completed
  <1>2. row.status = "completed"  BY <1>0 DEF TypeOK, Row
  <1> HIDE DEF row
  <1>3. task'[o].pc = "idle" /\ \A p \in Opps \ {o} : task'[p] = task[p]
    BY <1>0 DEF Release, NoTask, TypeOK
  <1>4. db'[o].status \in {"none", "completed"}
    BY <1>0, <1>1, <1>2, UpdateRow
  <1>5. Buys(o)' = Buys(o) /\ Sells(o)' = Sells(o) => Book(o)'
    BY <1>0, <1>3, <1>4
    DEF BookInv, Book, AtMostOne, RecoverSteps, BeforeBuy, BeforeSell, Nothing, Active, Unsold
  <1> QED  BY <1>0, <1>1, <1>3, <1>5, UpdateRow, QuietStep

LEMMA ExecBook ==
  ASSUME NothingLost, IInv, NEW o \in Opps, ExecStep(o)
  PROVE  BookInv'
  <1>0. TypeOK /\ BookInv  BY DEF IInv
  <1>s. ASSUME NEW st \in Statuses, SetStatus(o, st)
        PROVE  \A p \in Opps \ {o} : db'[p] = db[p]
    BY <1>0, <1>s, UpdateRow DEF SetStatus
  <1>r. ASSUME Release(o)
        PROVE  task'[o].pc = "idle" /\ \A p \in Opps \ {o} : task'[p] = task[p]
    BY <1>0, <1>r DEF Release, NoTask, TypeOK
  <1>g. ASSUME NEW step, Goto(o, step)
        PROVE  task'[o].pc = step /\ \A p \in Opps \ {o} : task'[p] = task[p]
    BY <1>0, <1>g DEF Goto, TypeOK, Task
  <1>e. ASSUME Buys(o) = {}, Sells(o) = {}, UNCHANGED tx,
               task'[o].pc \notin RecoverSteps \cup {"insert"},
               \A p \in Opps \ {o} : task'[p] = task[p] /\ db'[p] = db[p]
        PROVE  BookInv'
    BY <1>0, <1>e, EmptyBook, QuietStep
  <1>1. CASE Preflight(o)
    <2>1. Buys(o) = {} /\ Sells(o) = {}
      BY <1>0, <1>1 DEF Preflight, BookInv, Book, BeforeBuy, BeforeSell
    <2>2. /\ task'[o].pc \in {"mark", "fail", "idle"}
          /\ \A p \in Opps \ {o} : task'[p] = task[p] /\ db'[p] = db[p]
      BY <1>1, <1>s, <1>r, <1>g DEF Preflight, Statuses
    <2> QED  BY <1>1, <1>e, <2>1, <2>2 DEF Preflight, RecoverSteps
  <1>2. CASE Mark(o)
    <2>1. Buys(o) = {} /\ Sells(o) = {}
      BY <1>0, <1>2 DEF Mark, BookInv, Book, BeforeBuy, BeforeSell
    <2>2. task'[o].pc \in {"buy", "fail"} /\ \A p \in Opps \ {o} : task'[p] = task[p]
      BY <1>2, <1>g DEF Mark
    <2>3. \A p \in Opps \ {o} : db'[p] = db[p]
      BY <1>0, <1>2, <1>s DEF Mark, StoreFails, Statuses, TypeOK
    <2> QED  BY <1>2, <1>e, <2>1, <2>2, <2>3 DEF Mark, RecoverSteps
  <1>3. CASE BuyFailed(o)
    <2>1. Buys(o) = {} /\ Sells(o) = {}
      BY <1>0, <1>3 DEF BuyFailed, BookInv, Book, BeforeBuy, BeforeSell
    <2>2. /\ task'[o].pc \in {"fail", "idle"}
          /\ \A p \in Opps \ {o} : task'[p] = task[p] /\ db'[p] = db[p]
      BY <1>3, <1>s, <1>r, <1>g DEF BuyFailed, StoreFails, Statuses
    <2> QED  BY <1>3, <1>e, <2>1, <2>2 DEF BuyFailed, RecoverSteps
  <1>4. CASE BuyFilled(o)
    <2>1. AtMostOne(Buys(o)) /\ Sells(o) = {}
      BY <1>0, <1>4 DEF BuyFilled, BookInv, Book, BeforeSell
    <2>2. task'[o].pc \in {"half", "sell"} /\ \A p \in Opps \ {o} : task'[p] = task[p]
      BY <1>4, <1>g DEF BuyFilled
    <2>3. \A p \in Opps \ {o} : db'[p] = db[p]
      BY <1>0, <1>4, UpdateRow DEF BuyFilled, StoreFails
    <2>4. Buys(o)' = Buys(o) /\ Sells(o)' = Sells(o) => Book(o)'
      BY <2>1, <2>2 DEF Book, AtMostOne, RecoverSteps, BeforeBuy
    <2> QED  BY <1>0, <1>4, <2>2, <2>3, <2>4, QuietStep DEF BuyFilled
  <1>5. CASE Complete(o)
    BY <1>5, CompletedBook DEF Complete, StoreFails, NothingLost
  <1>6. CASE Fail(o)
    <2>1. Buys(o) = {} /\ Sells(o) = {}
      BY <1>0, <1>6 DEF Fail, BookInv, Book, BeforeBuy, BeforeSell
    <2>2. /\ task'[o].pc = "idle"
          /\ \A p \in Opps \ {o} : task'[p] = task[p] /\ db'[p] = db[p]
      BY <1>6, <1>s, <1>r DEF Fail, StoreFails, Statuses
    <2> QED  BY <1>6, <1>e, <2>1, <2>2 DEF Fail, RecoverSteps
  <1> QED  BY <1>1, <1>2, <1>3, <1>4, <1>5, <1>6, BuyBook, SellBook, HalfOpenBook DEF ExecStep

-----------------------------------------------------------------------------
(* Recoveries.                                                             *)

LEMMA RecoverStartBook ==
  ASSUME IInv, NEW o \in Opps, Recover(o)
  PROVE  BookInv'
  <1>0. TypeOK /\ BookInv /\ OneAtATime /\ UNCHANGED <<db, tx>>  BY DEF IInv, Recover
  <1>1. db[o].status \in Unsold
    BY DEF Recover, Recoverable, Unsold
  <1>2. task[o].pc = "idle"
    <2>1. ~Trading(o)  BY <1>0 DEF Recover, OneAtATime
    <2>2. task[o].pc # "insert"  BY <1>0, <1>1 DEF BookInv, Book, Unsold
    <2> QED  BY <1>0, <2>1, <2>2 DEF TypeOK, Task, Trading
  <1>3. AtMostOne(Buys(o)) /\ AtMostOne(Sells(o)) /\ Sells(o) \subseteq {db[o].sellTx}
    BY <1>0, <1>1, <1>2 DEF BookInv, Book
  <1>4. db[o].sellTx = NoHash => Sells(o) = {}
    <2>1. NoHash \notin Sells(o)  BY ConstantsAssumption DEF Sells, LiveLegs
    <2> QED  BY <1>3, <2>1
  <1>5. /\ task'[o].pc = IF db[o].sellTx = NoHash THEN AfterGate(db[o].dir) ELSE "r_gate"
        /\ \A p \in Opps \ {o} : task'[p] = task[p]
    BY <1>0 DEF Recover, TypeOK, NoTask
  <1>6. Buys(o)' = Buys(o) /\ Sells(o)' = Sells(o) => Book(o)'
    BY <1>0, <1>1, <1>3, <1>4, <1>5
    DEF Book, AtMostOne, AfterGate, RecoverSteps, BeforeBuy, BeforeSell
  <1> QED  BY <1>0, <1>5, <1>6, QuietStep

LEMMA RecoveryLegBook ==
  ASSUME NothingLost, IInv, NEW o \in Opps, task[o].pc \in {"r_retry", "r_reverse"},
         NEW venue, NEW onFailure \in {"r_reverse", "r_failed"},
         RecoveryLeg(o, venue, onFailure), UNCHANGED db
  PROVE  BookInv'
  <1>0. TypeOK /\ BookInv  BY DEF IInv
  <1>1. AtMostOne(Buys(o)) /\ Sells(o) = {} /\ db[o].status \in Unsold
    BY <1>0 DEF BookInv, Book, BeforeSell, RecoverSteps
  <1>2. PICK out \in Outcomes(venue, "pending_recovery" \in Faults),
             h \in FreshHash \cup {NoHash} :
          /\ Place(o, "sell", out, h)
          /\ IF out.status = "raised"
               THEN Release(o)
               ELSE /\ task' = [task EXCEPT
                                  ![o].pc = IF out.status = "failed" THEN onFailure ELSE "r_done",
                                  ![o].sellRef = Ref(out, h)]
                    /\ UNCHANGED executing
    BY DEF RecoveryLeg
  <1>3. /\ out.status \in {"raised", "failed", "ok", "pending"}
        /\ out.fate \in {"none", "landed", "reverted", "inflight"}
        /\ out.status \in {"raised", "failed"} => out.fate \in {"none", "reverted"}
    BY OutcomesKnown
  <1>4. /\ task'[o].pc = CASE out.status = "raised" -> "idle"
                          [] out.status = "failed" -> onFailure
                          [] OTHER                 -> "r_done"
        /\ \A p \in Opps \ {o} : task'[p] = task[p]
    BY <1>0, <1>2, <1>3 DEF Release, NoTask, TypeOK, Task
  <1>5. Buys(o)' = Buys(o)
    BY <1>0, <1>2, <1>3, PlaceLegs DEF Buys
  <1>6. Book(o)'
    <2>1. CASE out.status \in {"raised", "failed"}
      <3>1. Sells(o)' = {}
        BY <1>0, <1>1, <1>2, <1>3, <2>1, PlaceLegs DEF Sells
      <3> QED  BY <1>1, <1>4, <1>5, <2>1, <3>1
            DEF Book, AtMostOne, RecoverSteps, BeforeBuy, Nothing, Active, Unsold
    <2>2. CASE out.status \in {"ok", "pending"}
      <3>1. Sells(o)' \subseteq {h}
        BY <1>0, <1>1, <1>2, <1>3, PlaceLegs DEF Sells
      <3> QED  BY <1>1, <1>4, <1>5, <2>2, <3>1
            DEF Book, AtMostOne, RecoverSteps, BeforeBuy, BeforeSell
    <2> QED  BY <1>3, <2>1, <2>2
  <1> QED  BY <1>0, <1>2, <1>3, <1>4, <1>6, LegStep

LEMMA RecoverBook ==
  ASSUME NothingLost, IInv, NEW o \in Opps, RecoverStep(o)
  PROVE  BookInv'
  <1>0. TypeOK /\ BookInv  BY DEF IInv
  <1>r. ASSUME Release(o)
        PROVE  task'[o].pc = "idle" /\ \A p \in Opps \ {o} : task'[p] = task[p]
    BY <1>0, <1>r DEF Release, NoTask, TypeOK
  <1>g. ASSUME NEW step, Goto(o, step)
        PROVE  task'[o].pc = step /\ \A p \in Opps \ {o} : task'[p] = task[p]
    BY <1>0, <1>g DEF Goto, TypeOK, Task
  <1>1. CASE ResolveRecordedSell(o)
    <2>1. /\ AtMostOne(Buys(o)) /\ AtMostOne(Sells(o))
          /\ Sells(o) \subseteq {db[o].sellTx} /\ db[o].status \in Unsold
      BY <1>0, <1>1 DEF ResolveRecordedSell, BookInv, Book, RecoverSteps
    <2>2. \/ task'[o].pc \in {"idle", "r_done"}
          \/ task'[o].pc = AfterGate(task[o].dir) /\ tx[db[o].sellTx].state = "reverted"
      BY <1>0, <1>1, <1>r, <1>g DEF ResolveRecordedSell, TypeOK, Task
    <2>3. \A p \in Opps \ {o} : task'[p] = task[p]
      BY <1>0, <1>1, <1>r, <1>g DEF ResolveRecordedSell, TypeOK
    <2>4. tx[db[o].sellTx].state = "reverted" => Sells(o) = {}
      BY <2>1 DEF Sells, LiveLegs, Live
    <2>5. UNCHANGED <<db, tx>>  BY <1>1 DEF ResolveRecordedSell
    <2>6. Buys(o)' = Buys(o) /\ Sells(o)' = Sells(o) => Book(o)'
      BY <2>1, <2>2, <2>4, <2>5
      DEF Book, AtMostOne, AfterGate, RecoverSteps, BeforeBuy, BeforeSell, Nothing, Active, Unsold
    <2> QED  BY <1>0, <2>3, <2>5, <2>6, QuietStep
  <1>2. CASE RetrySell(o)
    <2>1. CASE Goto(o, "r_reverse") /\ UNCHANGED tx
      <3>1. AtMostOne(Buys(o)) /\ Sells(o) = {} /\ db[o].status \in Unsold
        BY <1>0, <1>2 DEF RetrySell, BookInv, Book, BeforeSell, RecoverSteps
      <3>2. Buys(o)' = Buys(o) /\ Sells(o)' = Sells(o) => Book(o)'
        BY <1>2, <1>g, <2>1, <3>1 DEF RetrySell, Book, AtMostOne, BeforeBuy, RecoverSteps
      <3> QED  BY <1>0, <1>2, <1>g, <2>1, <3>2, QuietStep DEF RetrySell
    <2> QED  BY <1>2, <2>1, RecoveryLegBook DEF RetrySell
  <1>3. CASE ReverseBuy(o)
    BY <1>3, RecoveryLegBook DEF ReverseBuy
  <1>4. CASE RecoveryComplete(o)
    BY <1>4, CompletedBook DEF RecoveryComplete, StoreFails, NothingLost
  <1>5. CASE RecoveryFailed(o)
    <2>1. AtMostOne(Buys(o)) /\ Sells(o) = {} /\ db[o].status \in Unsold
      BY <1>0, <1>5 DEF RecoveryFailed, BookInv, Book, BeforeSell, RecoverSteps
    <2>2. SetStatus(o, "half_open")
      BY <1>5 DEF RecoveryFailed, StoreFails, NothingLost
    <2>3. db'[o].status = "half_open" /\ \A p \in Opps \ {o} : db'[p] = db[p]
      BY <1>0, <2>1, <2>2, UpdateRow DEF SetStatus, Unsold, TypeOK, Row
    <2>4. Buys(o)' = Buys(o) /\ Sells(o)' = Sells(o) => Book(o)'
      BY <1>5, <1>r, <2>1, <2>3
      DEF RecoveryFailed, Book, AtMostOne, RecoverSteps, BeforeBuy, BeforeSell, Nothing, Active,
          Unsold
    <2> QED  BY <1>0, <1>5, <1>r, <2>3, <2>4, QuietStep DEF RecoveryFailed
  <1> QED  BY <1>1, <1>2, <1>3, <1>4, <1>5 DEF RecoverStep

-----------------------------------------------------------------------------
(* The environment, and the theorems.                                      *)

LEMMA EnvironmentBook ==
  ASSUME NothingLost, IInv,
         \/ \E ps \in SUBSET Pipelines : SetArmed(ps)
         \/ ResetBreaker \/ Rollover \/ Crash
         \/ \E h \in Hash : Resolve(h)
  PROVE  BookInv'
  <1>0. TypeOK /\ BookInv  BY DEF IInv
  <1>1. ~Crash  BY DEF Crash, NothingLost
  <1>2. UNCHANGED <<db, task>>
    BY <1>1 DEF SetArmed, ResetBreaker, Rollover, Resolve
  <1>3. \A p \in Opps : Buys(p)' \subseteq Buys(p) /\ Sells(p)' \subseteq Sells(p)
    <2>1. CASE UNCHANGED tx  BY <2>1, SameLegs DEF Buys, Sells
    <2>2. CASE \E h \in Hash : Resolve(h)
      <3>1. PICK h \in Hash, end \in Ends :
              tx[h].state = "inflight" /\ tx' = [tx EXCEPT ![h].state = end]
        BY <2>2 DEF Resolve
      <3>2. /\ tx'[h].opp = tx[h].opp /\ tx'[h].leg = tx[h].leg
            /\ \A g \in Hash \ {h} : tx'[g] = tx[g]
        BY <1>0, <3>1 DEF TypeOK, Leg
      <3> QED  BY <3>1, <3>2 DEF Buys, Sells, LiveLegs, Live
    <2> QED  BY <1>1, <2>1, <2>2 DEF SetArmed, ResetBreaker, Rollover
  <1> QED  BY <1>0, <1>2, <1>3, FrameBook DEF BookInv

LEMMA NextBook ==
  ASSUME NothingLost
  PROVE  IInv /\ [Next]_vars => IInv'
  <1> SUFFICES ASSUME IInv, [Next]_vars PROVE IInv'  OBVIOUS
  <1>0. TypeOK' /\ OneAtATime'  BY NextType, NextSerial DEF IInv
  <1>1. CASE UNCHANGED vars
    <2>1. UNCHANGED <<db, tx, task>>  BY <1>1 DEF vars
    <2>2. \A p \in Opps : Buys(p)' = Buys(p) /\ Sells(p)' = Sells(p)
      BY <2>1, SameLegs DEF Buys, Sells
    <2>3. BookInv'  BY <2>1, <2>2, FrameBook DEF IInv, BookInv
    <2> QED  BY <1>0, <2>3 DEF IInv
  <1>2. CASE \E d \in Directions : CexTick(d) \/ DexTick(d) \/ DexTickUnrecorded(d)
    BY <1>0, <1>2, TickBook DEF IInv
  <1>3. CASE \E o \in Opps : DexInsert(o) \/ ExecStep(o) \/ Recover(o) \/ RecoverStep(o)
    BY <1>0, <1>3, InsertBook, ExecBook, RecoverStartBook, RecoverBook DEF IInv
  <1>4. CASE \/ \E ps \in SUBSET Pipelines : SetArmed(ps)
             \/ ResetBreaker \/ Rollover \/ Crash
             \/ \E h \in Hash : Resolve(h)
    BY <1>0, <1>4, EnvironmentBook DEF IInv
  <1> QED  BY <1>1, <1>2, <1>3, <1>4 DEF Next

LEMMA InitBook == Init => IInv
  <1> SUFFICES ASSUME Init PROVE IInv  OBVIOUS
  <1>1. TypeOK  BY InitType
  <1>2. OneAtATime
    BY DEF Init, OneAtATime, Trading, NoTask, ExecSteps, RecoverSteps
  <1>3. \A o \in Opps : Buys(o) = {} /\ Sells(o) = {}
    BY DEF Init, Buys, Sells, LiveLegs, Live, NoLeg
  <1>4. \A o \in Opps : task[o].pc = "idle"
    BY DEF Init, NoTask
  <1>5. BookInv
    BY <1>3, <1>4 DEF BookInv, Book, AtMostOne, RecoverSteps
  <1> QED  BY <1>1, <1>2, <1>5 DEF IInv

LEMMA BookHolds ==
  ASSUME NothingLost
  PROVE  Spec => []IInv
  <1>1. NothingLost  OBVIOUS
  <1> QED  BY <1>1, InitBook, NextBook, PTL DEF Spec

(* recovery.py's gate and the order of the legs: of the sell, the retried  *)
(* sell and the reversal of one opportunity at most one can take effect.   *)
THEOREM NeverSoldTwice ==
  ASSUME NothingLost
  PROVE  Spec => []SoldOnce
  <1>1. IInv => SoldOnce  BY DEF IInv, BookInv, Book, AtMostOne, Sells, SoldOnce
  <1> QED  BY <1>1, BookHolds, PTL

(* engine.py's reuse of active rows never buys for an opportunity again.   *)
THEOREM NeverBoughtTwice ==
  ASSUME NothingLost
  PROVE  Spec => []BoughtOnce
  <1>1. IInv => BoughtOnce  BY DEF IInv, BookInv, Book, AtMostOne, Buys, BoughtOnce
  <1> QED  BY <1>1, BookHolds, PTL

(* A row that execute_route or a tick's sweep gave up holds no position.   *)
THEOREM GivenUpIsEmpty ==
  ASSUME NothingLost
  PROVE  Spec => []AbandonedIsEmpty
  <1>1. IInv => AbandonedIsEmpty
    <2> SUFFICES ASSUME IInv, NEW o \in Opps, db[o].status \in {"abandoned", "expired"},
                        ~Trading(o)
                 PROVE  Buys(o) = {} /\ Sells(o) = {}
      BY DEF AbandonedIsEmpty, Buys, Sells
    <2>1. task[o].pc \in {"idle", "insert"}  BY DEF IInv, TypeOK, Task, Trading
    <2> QED  BY <2>1 DEF IInv, BookInv, Book, Nothing, BeforeBuy, BeforeSell
  <1> QED  BY <1>1, BookHolds, PTL

-----------------------------------------------------------------------------
(* A completed row is bought and sold.                                     *)

(* The environment of the theorem below: when its call returns a leg is    *)
(* known, and filled if it says so, except that the sell of an execution   *)
(* may pend.  Writes may fail, the process may die, responses may get lost *)
(* and midnight may pass.                                                  *)
LegsSettle == Faults \cap {"pending_recovery", "untracked", "unfilled"} = {}
BuysSettle == "pending_buy" \notin Faults

SellLeg(o, h) == /\ h \in Hash
                 /\ tx[h].opp = o /\ tx[h].leg = "sell" /\ tx[h].state # "unused"

Landed(o, l) == \E h \in Hash : tx[h] = [opp |-> o, leg |-> l, state |-> "landed"]

Sold    == {"done", "r_done"}
Holding == {"filled", "sell", "done", "half"}
Bought  == Unsold \cup {"completed"}

(* How the row and the task of an opportunity can change: a sell recorded  *)
(* is one that was placed, and a task claims a sale, or a buy, only when   *)
(* the leg has landed.                                                     *)
Moves(p) ==
  /\ db'[p].sellTx \in {NoHash, db[p].sellTx, task[p].sellRef}
  /\ \/ task'[p].sellRef \in {NoHash, db[p].sellTx, task[p].sellRef}
     \/ \E h \in Hash : task'[p].sellRef = h /\ SellLeg(p, h)'
  /\ task'[p].pc \in Sold => \/ task[p].pc \in Sold
                             \/ tx[db[p].sellTx].state = "landed" /\ task[p].pc = "r_gate"
                             \/ Landed(p, "sell")'
  /\ db'[p].status = "completed" => db[p].status = "completed" \/ task[p].pc \in Sold
  /\ task'[p].pc \in Holding => task[p].pc \in Holding \/ (BuysSettle => Landed(p, "buy")')
  /\ db'[p].status \in Bought => \/ db[p].status \in Bought
                                \/ task[p].pc \in Holding \cup RecoverSteps

(* A leg reported filled has landed, and one that is named was placed.     *)
LEMMA OutcomesSettle ==
  ASSUME LegsSettle, NEW venue, NEW mayPend, NEW out \in Outcomes(venue, mayPend)
  PROVE  /\ out.status = "ok" => out.fate = "landed"
         /\ out.ref => out.fate # "none"
         /\ out.status \in {"raised", "failed", "ok", "pending"}
         /\ out.fate \in {"none", "landed", "reverted", "inflight"}
  <1>1. out \in {Outcome("raised", FALSE, "none"), Outcome("failed", FALSE, "none"),
                 Outcome("ok", FALSE, "landed"), Outcome("ok", TRUE, "landed"),
                 Outcome("failed", TRUE, "reverted"), Outcome("pending", TRUE, "inflight"),
                 Outcome("pending", FALSE, "inflight"), Outcome("failed", FALSE, "inflight"),
                 Outcome("raised", FALSE, "inflight")}
    BY DEF Outcomes, LegsSettle
  <1> QED  BY <1>1 DEF Outcome

(* No leg is left pending by an environment that does not do so.           *)
LEMMA NonePending ==
  ASSUME LegsSettle, NEW venue, NEW fault, fault \notin Faults,
         NEW out \in Outcomes(venue, fault \in Faults)
  PROVE  out.status # "pending"
  <1>1. out \in {Outcome("raised", FALSE, "none"), Outcome("failed", FALSE, "none"),
                 Outcome("ok", FALSE, "landed"), Outcome("ok", TRUE, "landed"),
                 Outcome("failed", TRUE, "reverted"), Outcome("failed", FALSE, "inflight"),
                 Outcome("raised", FALSE, "inflight")}
    <2>1. "untracked" \notin Faults /\ "unfilled" \notin Faults  BY DEF LegsSettle
    <2> QED  BY <2>1 DEF Outcomes
  <1> QED  BY <1>1 DEF Outcome

LEMMA Placed ==
  ASSUME TypeOK, NEW o \in Opps, NEW leg \in {"buy", "sell"}, NEW out,
         NEW h \in FreshHash \cup {NoHash}, Place(o, leg, out, h),
         out.fate \in {"none", "landed", "reverted", "inflight"}, out.ref => out.fate # "none"
  PROVE  /\ out.fate = "landed" => Landed(o, leg)'
         /\ leg = "sell" => \/ Ref(out, h) = NoHash
                           \/ \E g \in Hash : Ref(out, h) = g /\ SellLeg(o, g)'
  <1>1. CASE out.fate = "none"  BY <1>1 DEF Ref
  <1>2. CASE out.fate # "none"
    <2>1. h \in Hash /\ tx'[h] = [opp |-> o, leg |-> leg, state |-> out.fate]
      BY <1>2 DEF Place, FreshHash, TypeOK
    <2>2. out.fate = "landed" => Landed(o, leg)'  BY <2>1 DEF Landed
    <2>3. leg = "sell" => \/ Ref(out, h) = NoHash
                          \/ \E g \in Hash : Ref(out, h) = g /\ SellLeg(o, g)'
      BY <1>2, <2>1 DEF SellLeg, Ref
    <2> QED  BY <2>2, <2>3
  <1> QED  BY <1>1, <1>2

LEMMA ExecMoves ==
  ASSUME LegsSettle, TypeOK, NEW p \in Opps, ExecStep(p)
  PROVE  Moves(p)
  <1>0. /\ db[p] \in Row /\ task[p] \in Task /\ p \in DOMAIN db /\ p \in DOMAIN task
    BY DEF TypeOK
  <1>s. ASSUME NEW st \in Statuses \ Bought, SetStatus(p, st)
        PROVE  /\ db'[p].sellTx = db[p].sellTx
               /\ db'[p].status \in {db[p].status, st}
    BY <1>0, <1>s DEF SetStatus, Update, Row
  <1>r. ASSUME Release(p)
        PROVE  task'[p].pc = "idle" /\ task'[p].sellRef = NoHash
    BY <1>0, <1>r DEF Release, NoTask
  <1>g. ASSUME NEW step, Goto(p, step)
        PROVE  task'[p].pc = step /\ task'[p].sellRef = task[p].sellRef
    BY <1>0, <1>g DEF Goto, Task
  <1>q. ASSUME db'[p].sellTx = db[p].sellTx,
               db'[p].status = db[p].status \/ db'[p].status \notin Bought,
               task'[p].sellRef \in {NoHash, task[p].sellRef},
               task'[p].pc \notin Sold \cup Holding
        PROVE  Moves(p)
    BY <1>q DEF Moves, Bought
  <1>1. CASE Preflight(p)
    <2>1. task'[p].pc \in {"mark", "fail", "idle"} /\ task'[p].sellRef \in {NoHash, task[p].sellRef}
      BY <1>1, <1>r, <1>g DEF Preflight
    <2>2. db' = db \/ SetStatus(p, "abandoned")  BY <1>1 DEF Preflight
    <2>3. /\ db'[p].sellTx = db[p].sellTx
          /\ db'[p].status = db[p].status \/ db'[p].status \notin Bought
      BY <1>s, <2>2 DEF Statuses, Bought, Unsold
    <2> QED  BY <1>q, <2>1, <2>3 DEF Sold, Holding
  <1>2. CASE Mark(p)
    <2>1. task'[p].pc \in {"buy", "fail"} /\ task'[p].sellRef = task[p].sellRef
      BY <1>2, <1>g DEF Mark
    <2>2. CASE db' = db
      BY <1>q, <2>1, <2>2 DEF Sold, Holding
    <2>3. CASE SetStatus(p, "executing")
      BY <1>q, <1>s, <2>1, <2>3 DEF Sold, Holding, Statuses, Bought, Unsold
    <2>4. CASE db'[p].status = "executing" /\ db'[p].sellTx = NoHash
      BY <2>1, <2>4 DEF Moves, Sold, Holding, Bought, Unsold
    <2> QED  BY <1>0, <1>2, <2>2, <2>3, <2>4 DEF Mark, StoreFails, NoRow
  <1>3. CASE Buy(p)
    <2>1. PICK out \in Outcomes(ROUTES[task[p].dir].buy, "pending_buy" \in Faults),
               h \in FreshHash \cup {NoHash} :
            /\ Place(p, "buy", out, h)
            /\ task' = [task EXCEPT
                          ![p].pc = AfterBuy(task[p].dir, out.status),
                          ![p].buy = IF out.status \in {"ok", "pending"} THEN out.status
                                                                        ELSE "none",
                          ![p].buyRef = IF out.status \in {"ok", "pending"} THEN Ref(out, h)
                                                                           ELSE NoHash]
      BY <1>3 DEF Buy
    <2>2. /\ task'[p].pc = AfterBuy(task[p].dir, out.status)
          /\ task'[p].sellRef = task[p].sellRef
          /\ db' = db
      <3>1. db' = db  BY <1>3 DEF Buy
      <3> QED  BY <1>0, <2>1, <3>1 DEF Task
    <2>3. /\ out.status \in {"raised", "failed", "ok", "pending"}
          /\ out.status = "ok" => Landed(p, "buy")'
          /\ out.status = "pending" => "pending_buy" \in Faults
      <3>1. /\ out.status \in {"raised", "failed", "ok", "pending"}
            /\ out.status = "ok" => out.fate = "landed"
            /\ out.ref => out.fate # "none"
            /\ out.fate \in {"none", "landed", "reverted", "inflight"}
        BY OutcomesSettle
      <3>2. "pending_buy" \notin Faults => out.status # "pending"
        BY NonePending
      <3> QED  BY <2>1, <3>1, <3>2, Placed
    <2>4. task'[p].pc \in {"fail", "buyfail", "filled", "half", "sell"}
      BY <2>2, <2>3 DEF AfterBuy
    <2>5. task'[p].pc \in Holding => out.status \in {"ok", "pending"}
      BY <2>2, <2>3 DEF AfterBuy, Holding
    <2> QED  BY <2>2, <2>3, <2>4, <2>5 DEF Moves, BuysSettle, Sold
  <1>4. CASE BuyFailed(p)
    BY <1>4, <1>s, <1>r, <1>g, <1>q
    DEF BuyFailed, StoreFails, Statuses, Bought, Unsold, Sold, Holding
  <1>5. CASE BuyFilled(p)
    <2> DEFINE row == [db[p] EXCEPT !.status = "buy_filled", !.buyAmt = TRUE,
                                    !.buyTx = Keep(task[p].buyRef, @)]
    <2>1. row.sellTx = db[p].sellTx  BY <1>0 DEF Row
    <2>2. Update(p, row) \/ db' = db  BY <1>5 DEF BuyFilled, StoreFails
    <2> HIDE DEF row
    <2>3. db'[p] = db[p] \/ db'[p] = row  BY <2>2, UpdateOwn
    <2>4. db'[p].sellTx = db[p].sellTx /\ (db'[p].status = "completed" => db[p].status = "completed")
      <3>1. row.status = "buy_filled"  BY <1>0 DEF row, Row
      <3> QED  BY <2>1, <2>3, <3>1
    <2>5. /\ task'[p].pc \in {"half", "sell"} /\ task'[p].sellRef = task[p].sellRef
          /\ task[p].pc = "filled"
      BY <1>5, <1>g DEF BuyFilled
    <2> QED  BY <2>4, <2>5 DEF Moves, Sold, Holding
  <1>6. CASE Sell(p)
    <2>1. PICK out \in Outcomes(ROUTES[task[p].dir].sell, TRUE), h \in FreshHash \cup {NoHash} :
            /\ Place(p, "sell", out, h)
            /\ task' = [task EXCEPT ![p].pc = IF out.status = "ok" THEN "done" ELSE "half",
                                    ![p].sellRef = Ref(out, h)]
      BY <1>6 DEF Sell
    <2>2. /\ task'[p].pc = IF out.status = "ok" THEN "done" ELSE "half"
          /\ task'[p].sellRef = Ref(out, h)
      BY <1>0, <2>1 DEF Task
    <2>3. /\ out.status = "ok" => Landed(p, "sell")'
          /\ \/ Ref(out, h) = NoHash
             \/ \E g \in Hash : Ref(out, h) = g /\ SellLeg(p, g)'
      BY <2>1, OutcomesSettle, Placed
    <2>4. db' = db /\ task[p].pc = "sell"  BY <1>6 DEF Sell
    <2> QED  BY <2>2, <2>3, <2>4 DEF Moves, Sold, Holding
  <1>7. CASE Complete(p)
    <2>1. task[p].pc = "done"  BY <1>7 DEF Complete
    <2>2. CASE Completed(p) /\ Release(p)
      <3>1. db'[p].sellTx \in {NoHash, db[p].sellTx, task[p].sellRef}
        BY <1>0, <2>2 DEF Completed, Update, Keep, Row
      <3> QED  BY <1>r, <2>1, <2>2, <3>1 DEF Moves, Sold, Holding
    <2>3. CASE db' = db /\ task' = [task EXCEPT ![p].pc = "half", ![p].sellRef = NoHash]
      <3>1. task'[p].pc = "half" /\ task'[p].sellRef = NoHash  BY <1>0, <2>3 DEF Task
      <3> QED  BY <2>1, <2>3, <3>1 DEF Moves, Sold, Holding
    <2> QED  BY <1>7, <2>2, <2>3 DEF Complete, StoreFails
  <1>8. CASE HalfOpen(p)
    <2>1. /\ db'[p].sellTx \in {NoHash, db[p].sellTx, task[p].sellRef}
          /\ db'[p].status \in {db[p].status, "half_open"}
      <3> DEFINE row == [db[p] EXCEPT !.status = "half_open",
                                      !.buyAmt = @ \/ pipeline(task[p].dir) = "cex_dex",
                                      !.buyTx = Keep(task[p].buyRef, @),
                                      !.sellTx = Keep(task[p].sellRef, @)]
      <3>1. row.status = "half_open" /\ row.sellTx \in {db[p].sellTx, task[p].sellRef}
        BY <1>0 DEF Row, Keep
      <3>2. Update(p, row) \/ db' = db  BY <1>8 DEF HalfOpen, StoreFails
      <3> HIDE DEF row
      <3> QED  BY <3>1, <3>2, UpdateOwn
    <2>2. task[p].pc = "half"  BY <1>8 DEF HalfOpen
    <2> QED  BY <1>8, <1>r, <2>1, <2>2 DEF HalfOpen, Moves, Sold, Holding
  <1>9. CASE Fail(p)
    BY <1>9, <1>s, <1>r, <1>q DEF Fail, StoreFails, Statuses, Bought, Unsold, Sold, Holding
  <1> QED  BY <1>1, <1>2, <1>3, <1>4, <1>5, <1>6, <1>7, <1>8, <1>9 DEF ExecStep

LEMMA RecoverMoves ==
  ASSUME LegsSettle, TypeOK, NEW p \in Opps, RecoverStep(p)
  PROVE  Moves(p)
  <1>0. /\ db[p] \in Row /\ task[p] \in Task /\ p \in DOMAIN db /\ p \in DOMAIN task
    BY DEF TypeOK
  <1>t. task[p].pc \in RecoverSteps
    BY DEF RecoverStep, RecoverSteps, ResolveRecordedSell, RetrySell, ReverseBuy,
           RecoveryComplete, RecoveryFailed
  <1>r. ASSUME Release(p)
        PROVE  task'[p].pc = "idle" /\ task'[p].sellRef = NoHash
    BY <1>0, <1>r DEF Release, NoTask
  <1>g. ASSUME NEW step, Goto(p, step)
        PROVE  task'[p].pc = step /\ task'[p].sellRef = task[p].sellRef
    BY <1>0, <1>g DEF Goto, Task
  <1>q. ASSUME db' = db, task'[p].sellRef \in {NoHash, task[p].sellRef},
               task'[p].pc \notin Sold \cup Holding
        PROVE  Moves(p)
    BY <1>q DEF Moves
  <1>k. ASSUME NEW venue, NEW onFailure \in {"r_reverse", "r_failed"},
               RecoveryLeg(p, venue, onFailure), db' = db
        PROVE  Moves(p)
    <2>1. PICK out \in Outcomes(venue, "pending_recovery" \in Faults),
               h \in FreshHash \cup {NoHash} :
            /\ Place(p, "sell", out, h)
            /\ \/ Release(p)
               \/ /\ out.status # "raised"
                  /\ task' = [task EXCEPT
                        ![p].pc = IF out.status = "failed" THEN onFailure ELSE "r_done",
                        ![p].sellRef = Ref(out, h)]
      BY <1>k DEF RecoveryLeg
    <2>2. CASE Release(p)  BY <1>k, <1>r, <1>q, <2>2 DEF Sold, Holding
    <2>3. CASE ~Release(p)
      <3>1. /\ task'[p].pc = IF out.status = "failed" THEN onFailure ELSE "r_done"
            /\ task'[p].sellRef = Ref(out, h)
        <4>1. task' = [task EXCEPT ![p].pc = IF out.status = "failed" THEN onFailure ELSE "r_done",
                                   ![p].sellRef = Ref(out, h)]
          BY <2>1, <2>3
        <4> QED  BY <1>0, <4>1 DEF Task
      <3>2. /\ out.status = "failed" \/ Landed(p, "sell")'
            /\ \/ Ref(out, h) = NoHash
               \/ \E g \in Hash : Ref(out, h) = g /\ SellLeg(p, g)'
        <4>1. /\ out.status \in {"raised", "failed", "ok", "pending"}
              /\ out.status = "ok" => out.fate = "landed"
              /\ out.ref => out.fate # "none"
              /\ out.fate \in {"none", "landed", "reverted", "inflight"}
          BY OutcomesSettle
        <4>2. out.status # "pending"
          <5>1. "pending_recovery" \notin Faults  BY DEF LegsSettle
          <5> QED  BY <5>1, NonePending
        <4>3. out.status # "raised"  BY <2>1, <2>3
        <4> QED  BY <2>1, <4>1, <4>2, <4>3, Placed
      <3> QED  BY <1>k, <3>1, <3>2 DEF Moves, Sold, Holding
    <2> QED  BY <2>2, <2>3
  <1>1. CASE ResolveRecordedSell(p)
    <2>1. db' = db  BY <1>1 DEF ResolveRecordedSell
    <2>2. CASE Release(p)  BY <1>r, <1>q, <2>1, <2>2 DEF Sold, Holding
    <2>3. CASE /\ tx[db[p].sellTx].state = "landed"
               /\ task' = [task EXCEPT ![p].pc = "r_done", ![p].sellRef = db[p].sellTx]
      <3>1. task'[p].pc = "r_done" /\ task'[p].sellRef = db[p].sellTx /\ task[p].pc = "r_gate"
        BY <1>0, <1>1, <2>3 DEF Task, ResolveRecordedSell
      <3> QED  BY <2>1, <2>3, <3>1 DEF Moves, Holding
    <2>4. CASE Goto(p, AfterGate(task[p].dir))
      BY <1>g, <1>q, <2>1, <2>4 DEF AfterGate, Sold, Holding
    <2> QED  BY <1>1, <2>2, <2>3, <2>4 DEF ResolveRecordedSell
  <1>2. CASE RetrySell(p)
    <2>1. db' = db  BY <1>2 DEF RetrySell
    <2>2. CASE Goto(p, "r_reverse")  BY <1>g, <1>q, <2>1, <2>2 DEF Sold, Holding
    <2> QED  BY <1>2, <1>k, <2>1, <2>2 DEF RetrySell
  <1>3. CASE ReverseBuy(p)
    BY <1>3, <1>k DEF ReverseBuy
  <1>4. CASE RecoveryComplete(p)
    <2>1. db'[p].sellTx \in {NoHash, db[p].sellTx, task[p].sellRef}
      BY <1>0, <1>4 DEF RecoveryComplete, StoreFails, Completed, Update, Keep, Row
    <2>2. task[p].pc = "r_done"  BY <1>4 DEF RecoveryComplete
    <2> QED  BY <1>4, <1>r, <1>t, <2>1, <2>2 DEF RecoveryComplete, Moves, Sold, Holding
  <1>5. CASE RecoveryFailed(p)
    <2>1. db'[p].sellTx = db[p].sellTx /\ db'[p].status \in {db[p].status, "half_open"}
      BY <1>0, <1>5 DEF RecoveryFailed, StoreFails, SetStatus, Update, Row
    <2> QED  BY <1>5, <1>r, <1>t, <2>1 DEF RecoveryFailed, Moves, Sold, Holding
  <1> QED  BY <1>1, <1>2, <1>3, <1>4, <1>5 DEF RecoverStep

LEMMA NextMoves ==
  ASSUME LegsSettle, TypeOK, [Next]_vars, NEW p \in Opps
  PROVE  Moves(p)
  <1>0. db[p] \in Row /\ task[p] \in Task /\ p \in DOMAIN db /\ p \in DOMAIN task
    BY DEF TypeOK
  <1>1. CASE Ticked(p)
    BY <1>1 DEF Ticked, Moves, Sold, Holding
  <1>2. CASE DexInsert(p)
    <2>1. db'[p] = db[p] \/ (db'[p].status = "detected" /\ db'[p].sellTx = NoHash)
      BY <1>0, <1>2 DEF DexInsert, StoreFails, NoRow
    <2>2. task'[p].pc \in {"idle", "spawned"} /\ task'[p].sellRef = NoHash
      <3>1. CASE Spawn(p, task[p].dir)
        BY <1>0, <3>1 DEF Spawn, NoTask
      <3>2. CASE task' = [task EXCEPT ![p] = NoTask]
        BY <1>0, <3>2 DEF NoTask
      <3> QED  BY <1>2, <3>1, <3>2 DEF DexInsert
    <2> QED  BY <2>1, <2>2 DEF Moves, Sold, Holding, Bought, Unsold
  <1>3. CASE Recover(p)
    <2>1. db' = db  BY <1>3 DEF Recover
    <2>2. /\ task'[p].pc = IF db[p].sellTx = NoHash THEN AfterGate(db[p].dir) ELSE "r_gate"
          /\ task'[p].sellRef = NoHash
      BY <1>0, <1>3 DEF Recover, NoTask
    <2> QED  BY <2>1, <2>2 DEF Moves, AfterGate, Sold, Holding
  <1>4. CASE Untouched(p)
    <2>1. db'[p] = db[p] \/ (db'[p].status = "expired" /\ db'[p].sellTx = db[p].sellTx)
      BY <1>0, <1>4 DEF Untouched, Row
    <2> QED  BY <1>4, <2>1 DEF Untouched, Moves, Bought, Unsold
  <1>5. CASE task'[p] = NoTask /\ db'[p] = db[p]
    BY <1>5 DEF NoTask, Moves, Sold, Holding
  <1> QED  BY <1>1, <1>2, <1>3, <1>4, <1>5, OwnSteps, ExecMoves, RecoverMoves DEF Touched

(* What is claimed of an opportunity has landed.                           *)
Settled(p) ==
  /\ db[p].sellTx = NoHash \/ \E h \in Hash : db[p].sellTx = h /\ SellLeg(p, h)
  /\ task[p].sellRef = NoHash \/ \E h \in Hash : task[p].sellRef = h /\ SellLeg(p, h)
  /\ task[p].pc \in Sold => Landed(p, "sell")
  /\ db[p].status = "completed" => Landed(p, "sell")
  /\ BuysSettle =>
       /\ task[p].pc \in Holding => Landed(p, "buy")
       /\ db[p].status \in Bought => Landed(p, "buy")

LEMMA NextSettled ==
  ASSUME LegsSettle, TypeOK, [Next]_vars, NEW p \in Opps, RowFits(p), Settled(p)
  PROVE  Settled(p)'
  <1>1. Moves(p)  BY NextMoves
  <1>2. ASSUME NEW l, Landed(p, l)
        PROVE  Landed(p, l)'
    <2>1. PICK h \in Hash : tx[h] = [opp |-> p, leg |-> l, state |-> "landed"]
      BY <1>2 DEF Landed
    <2>2. tx'[h] = tx[h]  BY <2>1, LegsAreKept
    <2> QED  BY <2>1, <2>2 DEF Landed
  <1>3. ASSUME NEW h \in Hash, SellLeg(p, h)
        PROVE  SellLeg(p, h)'
    BY <1>3, LegsAreKept DEF SellLeg
  <1>4. /\ db'[p].sellTx = NoHash \/ \E h \in Hash : db'[p].sellTx = h /\ SellLeg(p, h)'
        /\ task'[p].sellRef = NoHash \/ \E h \in Hash : task'[p].sellRef = h /\ SellLeg(p, h)'
    BY <1>1, <1>3 DEF Moves, Settled
  <1>5. tx[db[p].sellTx].state = "landed" /\ db[p].sellTx # NoHash => Landed(p, "sell")
    <2> SUFFICES ASSUME tx[db[p].sellTx].state = "landed", db[p].sellTx # NoHash
                 PROVE  Landed(p, "sell")
      OBVIOUS
    <2>1. PICK h \in Hash : db[p].sellTx = h /\ SellLeg(p, h)  BY DEF Settled
    <2>2. tx[h] \in Leg  BY DEF TypeOK
    <2> QED  BY <2>1, <2>2 DEF Landed, SellLeg, Leg
  <1>6. task'[p].pc \in Sold => Landed(p, "sell")'
    BY <1>1, <1>2, <1>5 DEF Moves, Settled, RowFits
  <1>7. db'[p].status = "completed" => Landed(p, "sell")'
    BY <1>1, <1>2 DEF Moves, Settled
  <1>8. BuysSettle /\ task'[p].pc \in Holding => Landed(p, "buy")'
    BY <1>1, <1>2 DEF Moves, Settled
  <1>9. BuysSettle /\ db'[p].status \in Bought => Landed(p, "buy")'
    BY <1>1, <1>2 DEF Moves, Settled, RowFits, Bought
  <1> QED  BY <1>4, <1>6, <1>7, <1>8, <1>9 DEF Settled, BuysSettle

AllSettled == \A p \in Opps : Settled(p)

LEMMA SettledHolds ==
  ASSUME LegsSettle
  PROVE  Spec => []AllSettled
  <1>1. Init => AllSettled
    BY DEF Init, AllSettled, Settled, NoRow, NoTask, Sold, Holding, Bought, Unsold
  <1>2. TypeOK /\ RowsFit /\ AllSettled /\ [Next]_vars => AllSettled'
    BY NextSettled DEF RowsFit, AllSettled
  <1> QED  BY <1>1, <1>2, TypeCorrect, RowsFitHolds, PTL DEF Spec

(* A row that execute_route or recovery.py closes as completed stands for  *)
(* a landed buy and a landed sell, through store errors, crashes, lost     *)
(* responses and legs that drop.                                           *)
THEOREM CompletedMeansFlat ==
  ASSUME LegsSettle, BuysSettle
  PROVE  Spec => []CompletedIsFlat
  <1>1. AllSettled => CompletedIsFlat
    <2> SUFFICES ASSUME AllSettled, NEW o \in Opps, db[o].status = "completed"
                 PROVE  \E g, h \in Hash : /\ g \in LiveLegs(o, "buy") /\ tx[g].state = "landed"
                                          /\ h \in LiveLegs(o, "sell") /\ tx[h].state = "landed"
      BY DEF CompletedIsFlat
    <2>1. Landed(o, "buy") /\ Landed(o, "sell")  BY DEF AllSettled, Settled, Bought
    <2>2. PICK g \in Hash : tx[g] = [opp |-> o, leg |-> "buy", state |-> "landed"]
      BY <2>1 DEF Landed
    <2>3. PICK h \in Hash : tx[h] = [opp |-> o, leg |-> "sell", state |-> "landed"]
      BY <2>1 DEF Landed
    <2> QED  BY <2>2, <2>3 DEF LiveLegs, Live
  <1>2. LegsSettle  OBVIOUS
  <1> QED  BY <1>1, <1>2, SettledHolds, PTL

-----------------------------------------------------------------------------
(* What is bought and not sold is guarded and recorded.                    *)

(* A leg becomes one only where it is placed, a buy only by its own trade. *)
LEMMA BuysShrink ==
  ASSUME TypeOK, [Next]_vars, NEW p \in Opps, task[p].pc # "buy"
  PROVE  Buys(p)' \subseteq Buys(p)
  <1> SUFFICES ASSUME NEW h \in Hash, h \in Buys(p)'
               PROVE  h \in Buys(p)
    BY DEF Buys, LiveLegs
  <1>0. tx'[h].opp = p /\ tx'[h].leg = "buy" /\ tx'[h].state \in {"inflight", "landed"}
    BY DEF Buys, LiveLegs, Live
  <1>1. CASE tx[h].state # "unused"
    BY <1>0, <1>1, LegsAreKept DEF Buys, LiveLegs, Live
  <1>2. CASE tx[h].state = "unused"
    <2>1. ASSUME NEW o, NEW leg, NEW out, NEW g, Place(o, leg, out, g)
          PROVE  tx'[h] = tx[h] \/ (tx'[h].opp = o /\ tx'[h].leg = leg)
      BY <2>1 DEF Place, FreshHash, TypeOK
    <2>2. ASSUME UNCHANGED tx  PROVE FALSE
      BY <1>0, <1>2, <2>2
    <2>3. ASSUME NEW o, NEW out, NEW g, Place(o, "sell", out, g)
          PROVE  FALSE
      BY <1>0, <1>2, <2>1, <2>3
    <2>4. ASSUME NEW g \in Hash, Resolve(g)  PROVE FALSE
      BY <1>0, <1>2, <2>4 DEF Resolve, TypeOK
    <2>5. ASSUME NEW o \in Opps, DexInsert(o) \/ ExecStep(o) \/ Recover(o) \/ RecoverStep(o)
          PROVE  FALSE
      <3>1. CASE Buy(o)
        <4>1. p # o  BY <3>1 DEF Buy
        <4> QED  BY <1>0, <1>2, <2>1, <3>1, <4>1 DEF Buy
      <3>2. CASE Sell(o)  BY <2>3, <3>2 DEF Sell
      <3>3. CASE RetrySell(o)  BY <2>2, <2>3, <3>3 DEF RetrySell, RecoveryLeg
      <3>4. CASE ReverseBuy(o)  BY <2>3, <3>4 DEF ReverseBuy, RecoveryLeg
      <3> QED  BY <2>2, <2>5, <3>1, <3>2, <3>3, <3>4
               DEF DexInsert, ExecStep, Preflight, Mark, BuyFailed, BuyFilled, Complete, HalfOpen,
                   Fail, Recover, RecoverStep, ResolveRecordedSell, RecoveryComplete,
                   RecoveryFailed
    <2> QED  BY <2>2, <2>4, <2>5
             DEF Next, vars, CexTick, DexTick, DexTickUnrecorded, SetArmed, ResetBreaker,
                 Rollover, Crash
  <1> QED  BY <1>1, <1>2

LEMMA LandedStays ==
  ASSUME TypeOK, [Next]_vars, NEW p, NEW l, Landed(p, l)
  PROVE  Landed(p, l)'
  <1>1. PICK h \in Hash : tx[h] = [opp |-> p, leg |-> l, state |-> "landed"]
    BY DEF Landed
  <1>2. tx'[h] = tx[h]  BY <1>1, LegsAreKept
  <1> QED  BY <1>1, <1>2 DEF Landed

(* Only an operator, midnight or a restart takes the breaker down.         *)
LEMMA BreakerStands ==
  ASSUME TypeOK, [Next]_vars, ~ResetBreaker, ~Rollover, ~Crash
  PROVE  (breaker => breaker') /\ ack' = ack
  <1>1. ASSUME RecordFailure \/ RecordComplete \/ TripAndRecord \/ UNCHANGED risk
        PROVE  breaker => breaker'
    BY <1>1 DEF TypeOK, RecordFailure, RecordComplete, TripAndRecord, risk
  <1>2. ASSUME NEW o \in Opps, DexInsert(o) \/ ExecStep(o) \/ Recover(o) \/ RecoverStep(o)
        PROVE  (breaker => breaker') /\ ack' = ack
    <2>1. CASE Preflight(o)  BY <2>1 DEF Preflight, TypeOK
    <2> QED  BY <1>1, <1>2, <2>1
             DEF DexInsert, ExecStep, Mark, Buy, BuyFailed, BuyFilled, Sell, Complete, HalfOpen,
                 Fail, Recover, RecoverStep, ResolveRecordedSell, RetrySell, ReverseBuy,
                 RecoveryComplete, RecoveryFailed
  <1> QED  BY <1>1, <1>2
           DEF Next, vars, risk, CexTick, DexTick, DexTickUnrecorded, SetArmed, Resolve

(* An execution that ends has bought nothing, has sold, or has filed its   *)
(* row as half-open and tripped the breaker.                               *)
LEMMA ExecEnds ==
  ASSUME NothingLost, IInv, NEW p \in Opps, Settled(p), ExecStep(p), task'[p].pc \notin ExecSteps
  PROVE  \/ Buys(p)' = {}
         \/ Landed(p, "sell") /\ task[p].pc = "done"
         \/ HalfOpen(p) /\ breaker'
  <1>0. TypeOK /\ BookInv  BY DEF IInv
  <1>g. ASSUME NEW step \in ExecSteps, Goto(p, step)
        PROVE  FALSE
    BY <1>0, <1>g DEF Goto, TypeOK, Task
  <1>e. ASSUME task[p].pc \in BeforeBuy, UNCHANGED tx
        PROVE  Buys(p)' = {}
    BY <1>0, <1>e, SameLegs DEF BookInv, Book, Buys
  <1>1. CASE Preflight(p)  BY <1>1, <1>e DEF Preflight, BeforeBuy
  <1>2. CASE Mark(p)  BY <1>2, <1>e DEF Mark, BeforeBuy
  <1>3. CASE Buy(p)
    <2>1. PICK out \in Outcomes(ROUTES[task[p].dir].buy, "pending_buy" \in Faults) :
            task'[p].pc = AfterBuy(task[p].dir, out.status)
      BY <1>0, <1>3 DEF Buy, TypeOK, Task
    <2> QED  BY <2>1, OutcomesType DEF AfterBuy, ExecSteps
  <1>4. CASE BuyFailed(p)  BY <1>4, <1>e DEF BuyFailed, BeforeBuy
  <1>5. CASE BuyFilled(p)  BY <1>5, <1>g DEF BuyFilled, ExecSteps
  <1>6. CASE Sell(p)
    <2>1. PICK out, h :
            task' = [task EXCEPT ![p].pc = IF out.status = "ok" THEN "done" ELSE "half",
                                 ![p].sellRef = Ref(out, h)]
      BY <1>6 DEF Sell
    <2>2. task'[p].pc \in {"done", "half"}  BY <1>0, <2>1 DEF TypeOK, Task
    <2> QED  BY <2>2 DEF ExecSteps
  <1>7. CASE Complete(p)  BY <1>7 DEF Complete, Settled, Sold
  <1>8. CASE HalfOpen(p)
    BY <1>8 DEF HalfOpen, StoreFails, NothingLost, TripAndRecord
  <1>9. CASE Fail(p)  BY <1>9, <1>e DEF Fail, BeforeBuy
  <1> QED  BY <1>1, <1>2, <1>3, <1>4, <1>5, <1>6, <1>7, <1>8, <1>9 DEF ExecStep

(* Midnight does not take the breaker down.                                *)
NoRollover == "rollover" \notin Faults

(* Legs bought by no running execution are sold, or halt all trading, or   *)
(* are known to the operator who lifted the halt.                          *)
Watched(p) ==
  task[p].pc \notin ExecSteps /\ Buys(p) # {} => Landed(p, "sell") \/ breaker \/ p \in ack

LEMMA NextWatched ==
  ASSUME NothingLost, NoRollover, IInv, [Next]_vars,
         NEW p \in Opps, Settled(p), Watched(p)
  PROVE  Watched(p)'
  <1> SUFFICES ASSUME task'[p].pc \notin ExecSteps, Buys(p)' # {}, ~Landed(p, "sell")'
               PROVE  breaker' \/ p \in ack'
    BY DEF Watched
  <1>0. TypeOK /\ BookInv  BY DEF IInv
  <1>1. ~Crash /\ ~Rollover  BY DEF Crash, Rollover, NothingLost, NoRollover
  <1>2. ~Landed(p, "sell")  BY <1>0, LandedStays
  <1>3. CASE ResetBreaker
    <2>1. task' = task /\ db' = db /\ tx' = tx  BY <1>3 DEF ResetBreaker
    <2>2. Buys(p) # {}  BY <2>1, SameLegs DEF Buys
    <2>3. db[p].status # "completed"  BY <1>2 DEF Settled
    <2>4. Open(p) /\ task[p].pc \notin ExecSteps  BY <2>1, <2>2, <2>3 DEF Open, Buys
    <2> QED  BY <1>3, <2>4 DEF ResetBreaker
  <1>4. CASE ~ResetBreaker
    <2>1. (breaker => breaker') /\ ack' = ack  BY <1>0, <1>1, <1>4, BreakerStands
    <2>2. CASE task[p].pc \notin ExecSteps
      <3>1. Buys(p) # {}
        BY <1>0, <2>2, BuysShrink DEF ExecSteps
      <3> QED  BY <1>2, <2>1, <2>2, <3>1 DEF Watched
    <2>3. CASE task[p].pc \in ExecSteps
      <3>1. CASE ExecStep(p)  BY <1>2, <3>1, ExecEnds
      <3>2. CASE Ticked(p)
        <4>1. task'[p].pc = "insert" /\ Fresh(p)  BY <3>2 DEF Ticked, ExecSteps
        <4> QED  BY <2>3, <4>1 DEF Fresh, NoTask, ExecSteps
      <3>3. CASE Untouched(p)  BY <2>3, <3>3 DEF Untouched
      <3>4. CASE DexInsert(p)  BY <2>3, <3>4 DEF DexInsert, ExecSteps
      <3>5. CASE RecoverStep(p)
        BY <2>3, <3>5 DEF RecoverStep, ResolveRecordedSell, RetrySell, ReverseBuy,
           RecoveryComplete, RecoveryFailed, ExecSteps
      <3>6. CASE Recover(p)
        BY <2>3, <3>6 DEF Recover, IInv, OneAtATime, Trading
      <3> QED  BY <1>0, <1>1, <3>1, <3>2, <3>3, <3>4, <3>5, <3>6, OwnSteps DEF Touched
    <2> QED  BY <2>2, <2>3
  <1> QED  BY <1>3, <1>4

(* A live leg that has landed makes its opportunity sold.                  *)
LEMMA LandedIsSold ==
  ASSUME NEW p \in Opps, Exposed(p)
  PROVE  Buys(p) # {} /\ ~Landed(p, "sell")
  BY DEF Exposed, Buys, Landed, LiveLegs, Live

(* trip_circuit_breaker where a buy is left over: no tick trades past an   *)
(* unsold position unless an operator has reset the breaker knowing of it. *)
THEOREM ExposureHaltsTrading ==
  ASSUME NothingLost, LegsSettle, NoRollover
  PROVE  Spec => []ExposureHalts
  <1> DEFINE AllWatched == \A p \in Opps : Watched(p)
  <1>0. NothingLost /\ LegsSettle  OBVIOUS
  <1>1. Init => AllWatched
    <2> SUFFICES ASSUME Init, NEW p \in Opps  PROVE Watched(p)  OBVIOUS
    <2>1. Buys(p) = {}  BY DEF Init, Buys, LiveLegs, Live, NoLeg
    <2> QED  BY <2>1 DEF Watched
  <1>2. IInv /\ AllSettled /\ AllWatched /\ [Next]_vars => AllWatched'
    BY NextWatched DEF AllSettled
  <1>3. AllWatched => ExposureHalts
    BY LandedIsSold DEF Watched, ExposureHalts, Trading
  <1> HIDE DEF AllWatched
  <1> QED  BY <1>0, <1>1, <1>2, <1>3, BookHolds, SettledHolds, PTL DEF Spec

(* Every trade has its row.                                                *)
AllRecorded == "unrecorded" \notin Faults

(* A row that /recover takes and that holds the amount it sells.           *)
Listed(p) ==
  /\ db[p].status # "none" /\ db[p].status \in Recoverable(db[p].dir)
  /\ db[p].buyAmt

IsDex(p) == pipeline(task[p].dir) = "dex_dex"

(* Legs bought by no running execution are sold or listed, and the row an  *)
(* execution will list them in is there, with the amount once it is known. *)
Recorded(p) ==
  /\ task[p].pc \notin ExecSteps \cup RecoverSteps /\ Buys(p) # {}
       => Landed(p, "sell") \/ Listed(p)
  /\ task[p].pc \in RecoverSteps => Listed(p)
  /\ task[p].pc \in ExecSteps \ {"spawned", "mark", "fail"} => db[p].status # "none"
  /\ task[p].pc \in {"spawned", "mark"} /\ IsDex(p) => db[p].status # "none"
  /\ task[p].pc \in {"sell", "half"} /\ IsDex(p) => db[p].buyAmt

LEMMA ExecRecorded ==
  ASSUME NothingLost, IInv, NEW p \in Opps, Settled(p), Recorded(p), [Next]_vars, ExecStep(p)
  PROVE  Recorded(p)'
  <1>0. /\ db[p] \in Row /\ task[p] \in Task /\ p \in DOMAIN db /\ p \in DOMAIN task
        /\ TypeOK /\ BookInv /\ ~StoreFails
    BY DEF IInv, TypeOK, StoreFails, NothingLost
  <1>r. ASSUME Release(p)
        PROVE  task'[p].pc = "idle"
    BY <1>0, <1>r DEF Release, NoTask
  <1>g. ASSUME NEW step, Goto(p, step)
        PROVE  task'[p].pc = step /\ task'[p].dir = task[p].dir
    BY <1>0, <1>g DEF Goto, Task
  <1>e. ASSUME task[p].pc \in BeforeBuy, UNCHANGED tx, task'[p].pc = "idle"
        PROVE  Recorded(p)'
    <2>1. Buys(p)' = {}  BY <1>0, <1>e, SameLegs DEF BookInv, Book, Buys
    <2> QED  BY <1>e, <2>1 DEF Recorded, ExecSteps, RecoverSteps
  <1>f. ASSUME task'[p].pc = "fail"
        PROVE  Recorded(p)'
    BY <1>f DEF Recorded, ExecSteps, RecoverSteps
  <1>n. ASSUME task'[p].pc \in ExecSteps, db'[p].status # "none",
               task'[p].pc \in {"sell", "half"} /\ IsDex(p)' => db'[p].buyAmt
        PROVE  Recorded(p)'
    BY <1>n DEF Recorded, ExecSteps, RecoverSteps
  <1>1. CASE Preflight(p)
    <2>1. CASE Goto(p, "mark") /\ db' = db
      <3>1. IsDex(p)' => IsDex(p)  BY <1>g, <2>1 DEF IsDex
      <3>2. IsDex(p) => db[p].status # "none"  BY <1>1 DEF Preflight, Recorded
      <3> QED  BY <1>g, <2>1, <3>1, <3>2 DEF Recorded, ExecSteps, RecoverSteps
    <2>2. CASE Goto(p, "fail")  BY <1>f, <1>g, <2>2
    <2>3. CASE Release(p)  BY <1>1, <1>e, <1>r, <2>3 DEF Preflight, BeforeBuy
    <2> QED  BY <1>1, <2>1, <2>2, <2>3 DEF Preflight
  <1>2. CASE Mark(p)
    <2>1. Goto(p, "buy")  BY <1>0, <1>2 DEF Mark
    <2>2. db'[p].status # "none"
      <3>1. CASE pipeline(task[p].dir) = "cex_dex"
        BY <1>0, <1>2, <3>1 DEF Mark, NoRow
      <3>2. CASE pipeline(task[p].dir) # "cex_dex"
        <4>1. db[p].status # "none"
          BY <1>2, <3>2 DEF Mark, Recorded, IsDex, pipeline
        <4>2. SetStatus(p, "executing")  BY <1>0, <1>2, <3>2 DEF Mark
        <4> QED  BY <1>0, <4>1, <4>2 DEF SetStatus, Update, Row
      <3> QED  BY <3>1, <3>2
    <2> QED  BY <1>g, <1>n, <2>1, <2>2 DEF ExecSteps
  <1>3. CASE Buy(p)
    <2>1. db' = db /\ db[p].status # "none"  BY <1>3 DEF Buy, Recorded, ExecSteps
    <2>2. PICK out \in Outcomes(ROUTES[task[p].dir].buy, "pending_buy" \in Faults),
               h \in FreshHash \cup {NoHash} :
            task' = [task EXCEPT
                          ![p].pc = AfterBuy(task[p].dir, out.status),
                          ![p].buy = IF out.status \in {"ok", "pending"} THEN out.status
                                                                        ELSE "none",
                          ![p].buyRef = IF out.status \in {"ok", "pending"} THEN Ref(out, h)
                                                                           ELSE NoHash]
      BY <1>3 DEF Buy
    <2>3. task'[p].pc = AfterBuy(task[p].dir, out.status) /\ task'[p].dir = task[p].dir
      BY <1>0, <2>2 DEF Task
    <2>4. task'[p].pc \in {"fail", "buyfail", "filled", "half", "sell"}
      BY <2>3, OutcomesType DEF AfterBuy
    <2>5. task'[p].pc \in {"half", "sell"} => ~IsDex(p)'
      <3>1. out.status \in {"raised", "failed", "ok", "pending"}  BY OutcomesType
      <3>2. IsDex(p)' => IsDex(p)  BY <2>3 DEF IsDex
      <3>3. IsDex(p) => task'[p].pc \in {"fail", "buyfail", "filled"}
        <4>1. CASE out.status = "raised"  BY <2>3, <4>1 DEF AfterBuy
        <4>2. CASE out.status = "failed"  BY <2>3, <4>2 DEF AfterBuy
        <4>3. CASE out.status \in {"ok", "pending"}
          <5> SUFFICES ASSUME pipeline(task[p].dir) = "dex_dex"
                       PROVE  task'[p].pc = "filled"
            BY DEF IsDex
          <5> QED  BY <2>3, <4>3 DEF AfterBuy
        <4> QED  BY <3>1, <4>1, <4>2, <4>3
      <3> QED  BY <3>2, <3>3
    <2> QED  BY <1>n, <2>1, <2>4, <2>5 DEF ExecSteps
  <1>4. CASE BuyFailed(p)
    BY <1>0, <1>4, <1>e, <1>r DEF BuyFailed, BeforeBuy
  <1>5. CASE BuyFilled(p)
    <2> DEFINE row == [db[p] EXCEPT !.status = "buy_filled", !.buyAmt = TRUE,
                                    !.buyTx = Keep(task[p].buyRef, @)]
    <2>1. row.status = "buy_filled" /\ row.buyAmt  BY <1>0 DEF Row
    <2>2. Update(p, row)  BY <1>0, <1>5 DEF BuyFilled
    <2> HIDE DEF row
    <2>3. db[p].status # "none"  BY <1>5 DEF BuyFilled, Recorded, ExecSteps
    <2>4. db'[p] = row  BY <1>0, <2>2, <2>3, UpdateOwn
    <2>5. task'[p].pc \in {"half", "sell"}  BY <1>5, <1>g DEF BuyFilled
    <2> QED  BY <1>n, <2>1, <2>4, <2>5 DEF ExecSteps
  <1>6. CASE Sell(p)
    <2>1. PICK out, h :
            task' = [task EXCEPT ![p].pc = IF out.status = "ok" THEN "done" ELSE "half",
                                 ![p].sellRef = Ref(out, h)]
      BY <1>6 DEF Sell
    <2>2. task'[p].pc \in {"done", "half"} /\ task'[p].dir = task[p].dir
      BY <1>0, <2>1 DEF Task
    <2>3. db' = db /\ db[p].status # "none" /\ (IsDex(p) => db[p].buyAmt)
      BY <1>6 DEF Sell, Recorded, ExecSteps
    <2> QED  BY <1>n, <2>2, <2>3 DEF IsDex, ExecSteps
  <1>7. CASE Complete(p)
    <2>1. Landed(p, "sell")'
      BY <1>0, <1>7, LandedStays DEF Complete, Settled, Sold
    <2> QED  BY <1>0, <1>7, <1>r, <2>1 DEF Complete, Recorded, ExecSteps, RecoverSteps
  <1>8. CASE HalfOpen(p)
    <2> DEFINE row == [db[p] EXCEPT !.status = "half_open",
                                    !.buyAmt = @ \/ pipeline(task[p].dir) = "cex_dex",
                                    !.buyTx = Keep(task[p].buyRef, @),
                                    !.sellTx = Keep(task[p].sellRef, @)]
    <2>1. Update(p, row)  BY <1>0, <1>8 DEF HalfOpen
    <2>2. db[p].status # "none" /\ (IsDex(p) => db[p].buyAmt)
      BY <1>8 DEF HalfOpen, Recorded, ExecSteps
    <2>3. row.status = "half_open" /\ (row.buyAmt <=> (db[p].buyAmt \/ pipeline(task[p].dir) = "cex_dex"))
      BY <1>0 DEF Row
    <2>4. pipeline(task[p].dir) = "cex_dex" \/ IsDex(p)  BY DEF IsDex, pipeline
    <2> HIDE DEF row
    <2>5. db'[p].status = "half_open" /\ db'[p].buyAmt
      BY <1>0, <2>1, <2>2, <2>3, <2>4, UpdateOwn
    <2>6. Listed(p)'  BY <2>5 DEF Listed, Recoverable
    <2> QED  BY <1>8, <1>r, <2>6 DEF HalfOpen, Recorded, ExecSteps, RecoverSteps
  <1>9. CASE Fail(p)
    BY <1>9, <1>e, <1>r DEF Fail, BeforeBuy
  <1> QED  BY <1>1, <1>2, <1>3, <1>4, <1>5, <1>6, <1>7, <1>8, <1>9 DEF ExecStep

LEMMA RecoverRecorded ==
  ASSUME NothingLost, IInv, NEW p \in Opps, Settled(p), Recorded(p), [Next]_vars, RecoverStep(p)
  PROVE  Recorded(p)'
  <1>0. /\ db[p] \in Row /\ task[p] \in Task /\ p \in DOMAIN db /\ p \in DOMAIN task
        /\ TypeOK /\ ~StoreFails
    BY DEF IInv, TypeOK, StoreFails, NothingLost
  <1>1. task[p].pc \in RecoverSteps
    BY DEF RecoverStep, RecoverSteps, ResolveRecordedSell, RetrySell, ReverseBuy,
           RecoveryComplete, RecoveryFailed
  <1>2. Listed(p)  BY <1>1 DEF Recorded
  <1>3. task'[p].pc \in RecoverSteps \cup {"idle"}
    <2>r. ASSUME Release(p)
          PROVE  task'[p].pc = "idle"
      BY <1>0, <2>r DEF Release, NoTask
    <2>g. ASSUME NEW step, Goto(p, step)
          PROVE  task'[p].pc = step
      BY <1>0, <2>g DEF Goto, Task
    <2>k. ASSUME NEW venue, NEW onFailure \in RecoverSteps, RecoveryLeg(p, venue, onFailure)
          PROVE  task'[p].pc \in RecoverSteps \cup {"idle"}
      <3>1. PICK out, h :
              \/ Release(p)
              \/ task' = [task EXCEPT
                            ![p].pc = IF out.status = "failed" THEN onFailure ELSE "r_done",
                            ![p].sellRef = Ref(out, h)]
        BY <2>k DEF RecoveryLeg
      <3>2. CASE task' = [task EXCEPT
                            ![p].pc = IF out.status = "failed" THEN onFailure ELSE "r_done",
                            ![p].sellRef = Ref(out, h)]
        <4>1. task'[p].pc \in {onFailure, "r_done"}  BY <1>0, <3>2 DEF Task
        <4> QED  BY <4>1 DEF RecoverSteps
      <3> QED  BY <2>r, <3>1, <3>2
    <2>1. CASE ResolveRecordedSell(p)
      <3>1. ASSUME task' = [task EXCEPT ![p].pc = "r_done", ![p].sellRef = db[p].sellTx]
            PROVE  task'[p].pc = "r_done"
        BY <1>0, <3>1 DEF Task
      <3> QED  BY <2>1, <2>r, <2>g, <3>1 DEF ResolveRecordedSell, AfterGate, RecoverSteps
    <2>2. CASE RetrySell(p)  BY <2>2, <2>g, <2>k DEF RetrySell, RecoverSteps
    <2>3. CASE ReverseBuy(p)  BY <2>3, <2>k DEF ReverseBuy, RecoverSteps
    <2>4. CASE RecoveryComplete(p) \/ RecoveryFailed(p)
      BY <2>4, <2>r DEF RecoveryComplete, RecoveryFailed
    <2> QED  BY <2>1, <2>2, <2>3, <2>4 DEF RecoverStep
  <1>4. CASE Listed(p)'
    BY <1>3, <1>4 DEF Recorded, ExecSteps, RecoverSteps
  <1>5. CASE RecoveryComplete(p)
    <2>1. Landed(p, "sell")'
      BY <1>0, <1>5, LandedStays DEF RecoveryComplete, Settled, Sold
    <2>2. task'[p].pc = "idle"
      BY <1>0, <1>5 DEF RecoveryComplete, Release, NoTask
    <2> QED  BY <2>1, <2>2 DEF Recorded, ExecSteps, RecoverSteps
  <1>6. CASE RecoveryFailed(p)
    <2>1. db'[p].status = "half_open" /\ db'[p].buyAmt = db[p].buyAmt
      BY <1>0, <1>2, <1>6 DEF RecoveryFailed, SetStatus, Update, Row, Listed
    <2> QED  BY <1>2, <1>4, <2>1 DEF Listed, Recoverable
  <1>7. CASE db' = db
    BY <1>2, <1>4, <1>7 DEF Listed
  <1> QED  BY <1>5, <1>6, <1>7 DEF RecoverStep, ResolveRecordedSell, RetrySell, ReverseBuy

LEMMA NextRecorded ==
  ASSUME NothingLost, AllRecorded, IInv, [Next]_vars, NEW p \in Opps, Settled(p), Recorded(p)
  PROVE  Recorded(p)'
  <1>0. /\ db[p] \in Row /\ task[p] \in Task /\ p \in DOMAIN db /\ p \in DOMAIN task
        /\ TypeOK /\ BookInv /\ ~StoreFails /\ ~Crash
    BY DEF IInv, TypeOK, StoreFails, NothingLost, Crash
  <1>1. CASE Ticked(p)
    <2>1. CASE task'[p].pc = "insert"
      <3>1. Fresh(p)  BY <1>1, <2>1 DEF Ticked
      <3>2. Buys(p)' = {}  BY <1>1, <3>1, FreshLegs, SameLegs DEF Ticked, Buys
      <3> QED  BY <2>1, <3>2 DEF Recorded, ExecSteps, RecoverSteps
    <2>2. CASE task'[p].pc = "spawned"
      <3>1. pipeline(task'[p].dir) = "cex_dex" \/ db'[p].status # "none"
        BY <1>1, <2>2 DEF Ticked, AllRecorded, Active
      <3>2. IsDex(p)' => db'[p].status # "none"  BY <3>1 DEF IsDex
      <3> QED  BY <2>2, <3>2 DEF Recorded, ExecSteps, RecoverSteps
    <2> QED  BY <1>1, <2>1, <2>2 DEF Ticked
  <1>2. CASE DexInsert(p)
    <2>1. db'[p].status = "detected"
      BY <1>0, <1>2 DEF DexInsert, NoRow
    <2>2. Buys(p)' = {}
      BY <1>0, <1>2, SameLegs DEF DexInsert, BookInv, Book, BeforeBuy, Buys
    <2>3. task'[p].pc \in {"idle", "spawned"}
      <3>1. CASE Spawn(p, task[p].dir)
        BY <1>0, <3>1 DEF Spawn, NoTask
      <3>2. CASE task' = [task EXCEPT ![p] = NoTask]
        BY <1>0, <3>2 DEF NoTask
      <3> QED  BY <1>2, <3>1, <3>2 DEF DexInsert
    <2> QED  BY <2>1, <2>2, <2>3 DEF Recorded, ExecSteps, RecoverSteps
  <1>3. CASE Recover(p)
    <2>1. Listed(p)'  BY <1>3 DEF Recover, Listed
    <2>2. task'[p].pc = IF db[p].sellTx = NoHash THEN AfterGate(db[p].dir) ELSE "r_gate"
      BY <1>0, <1>3 DEF Recover, NoTask
    <2> QED  BY <2>1, <2>2 DEF Recorded, AfterGate, ExecSteps, RecoverSteps
  <1>4. CASE Untouched(p)
    <2>1. task'[p] = task[p]  BY <1>4 DEF Untouched
    <2>2. CASE task[p].pc \notin ExecSteps \cup RecoverSteps
      <3>1. Landed(p, "sell") => Landed(p, "sell")'  BY <1>0, LandedStays
      <3>2. Listed(p) => Listed(p)'
        BY <1>4 DEF Untouched, Listed, Recoverable, Active
      <3>3. Buys(p)' \subseteq Buys(p)  BY <1>0, <2>2, BuysShrink DEF ExecSteps
      <3> QED  BY <2>1, <2>2, <3>1, <3>2, <3>3 DEF Recorded, ExecSteps, RecoverSteps
    <2>3. CASE task[p].pc \in RecoverSteps
      <3>1. Listed(p)'
        BY <1>4, <2>3 DEF Untouched, Recorded, Listed, Recoverable, Active
      <3> QED  BY <2>1, <2>3, <3>1 DEF Recorded, ExecSteps, RecoverSteps
    <2>4. CASE task[p].pc \in ExecSteps
      <3>1. /\ db[p].status # "none" => db'[p].status # "none"
            /\ db'[p].buyAmt = db[p].buyAmt
        BY <1>0, <1>4 DEF Untouched, Row
      <3>2. IsDex(p)' => IsDex(p)  BY <2>1 DEF IsDex
      <3> QED  BY <2>1, <2>4, <3>1, <3>2 DEF Recorded, ExecSteps, RecoverSteps
    <2> QED  BY <2>2, <2>3, <2>4
  <1> QED  BY <1>0, <1>1, <1>2, <1>3, <1>4, OwnSteps, ExecRecorded, RecoverRecorded DEF Touched

(* The half-open row execute_route writes is one /recover takes and holds  *)
(* the amount it sells, for every position that is left unsold.            *)
THEOREM ExposureIsRecoverable ==
  ASSUME NothingLost, LegsSettle, AllRecorded
  PROVE  Spec => []ExposureRecorded
  <1> DEFINE Rows == \A p \in Opps : Recorded(p)
  <1>0. NothingLost /\ LegsSettle  OBVIOUS
  <1>1. Init => Rows
    <2> SUFFICES ASSUME Init, NEW p \in Opps  PROVE Recorded(p)  OBVIOUS
    <2>1. Buys(p) = {}  BY DEF Init, Buys, LiveLegs, Live, NoLeg
    <2>2. task[p].pc = "idle"  BY DEF Init, NoTask
    <2> QED  BY <2>1, <2>2 DEF Recorded, ExecSteps, RecoverSteps
  <1>2. IInv /\ AllSettled /\ Rows /\ [Next]_vars => Rows'
    BY NextRecorded DEF AllSettled
  <1>3. Rows => ExposureRecorded
    BY LandedIsSold DEF Recorded, ExposureRecorded, Trading, Listed
  <1> HIDE DEF Rows
  <1> QED  BY <1>0, <1>1, <1>2, <1>3, BookHolds, SettledHolds, PTL DEF Spec

=============================================================================
