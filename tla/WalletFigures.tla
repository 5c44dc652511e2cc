---------------------------- MODULE WalletFigures -----------------------------
(* What the engine believes its trade wallets hold. Three readers write the     *)
(* same figures: the seed, which replaces them, the refresh after a transfer,   *)
(* and the depth tick, which writes what the last check of all accounts left in *)
(* a cache. Each reads the chain at one time and writes at another.             *)
EXTENDS Integers, FiniteSets

CONSTANTS
  Venues,     \* DEX venues with a trade wallet
  Amounts,    \* what a wallet may hold of a token
  MinStable,  \* min_account_stablecoin_usd
  MaxMoves,   \* bound: transfers of a behaviour
  MaxFaults   \* bound: failed reads and refused preflights

Tokens == {"stable", "cngn"}

VARIABLES
  wallet,     \* what the chain says
  figure,     \* per_account_stable and per_account_cngn
  flagged,    \* low_inventory_venues
  cached,     \* last_balances, by role
  reading,    \* a seed or a refresh that has read and not written
  seeded,     \* _inventory_seeded
  approved,   \* _trade_approvals_seeded
  moves, faults

walletVars == <<wallet, figure, flagged, cached, reading, seeded, approved, moves, faults>>

Absent   == -2     \* no entry in a dictionary, no answer
FailedAt == -1     \* what a check of the accounts writes for a token it cannot read

Figures == [Venues -> [Tokens -> Amounts \cup {Absent, FailedAt}]]
Nothing == [v \in Venues |-> [t \in Tokens |-> Absent]]
Readers == {"seed", "refresh"}

WalletInit ==
  /\ wallet \in [Venues -> [Tokens -> {0, 1}]]
  /\ figure = Nothing /\ flagged = {} /\ cached = Nothing
  /\ reading = [r \in Readers |-> Nothing]
  /\ seeded = FALSE /\ approved = FALSE
  /\ moves = 0 /\ faults = 0

-----------------------------------------------------------------------------
(* reconcile_stables and reconcile_cngn: only the venues there is an answer    *)
(* for, and the flag follows the figure.                                       *)

Merged(answers) ==
  [v \in Venues |-> [t \in Tokens |->
     IF answers[v][t] = Absent THEN figure[v][t] ELSE answers[v][t]]]

Flags(answers) ==
  LET answered == {v \in Venues : answers[v].stable # Absent} IN
    (flagged \ answered) \cup {v \in answered : answers[v].stable < MinStable}

Reconcile(answers) == figure' = Merged(answers) /\ flagged' = Flags(answers)

(* The answers of a read in which some calls fail.                             *)
Read(failed) == [v \in Venues |-> [t \in Tokens |->
                   IF <<v, t>> \in failed THEN Absent ELSE wallet[v][t]]]

Failing == {f \in SUBSET (Venues \X Tokens) : Cardinality(f) <= MaxFaults - faults}

-----------------------------------------------------------------------------
Move(v, t, amount) ==
  /\ moves < MaxMoves /\ moves' = moves + 1
  /\ amount # wallet[v][t]
  /\ wallet' = [wallet EXCEPT ![v][t] = amount]
  /\ UNCHANGED <<figure, flagged, cached, reading, seeded, approved, faults>>

(* A wallet event, or the first update of the pools: on_wallet_activity seeds  *)
(* what was never seeded, on_dex_dex_update also as long as approvals fail.    *)
SeedRead ==
  /\ ~seeded \/ ~approved
  /\ reading["seed"] = Nothing
  /\ \E failed \in Failing :
       /\ reading' = [reading EXCEPT !["seed"] = Read(failed)]
       /\ faults' = faults + Cardinality(failed)
  /\ UNCHANGED <<wallet, figure, flagged, cached, seeded, approved, moves>>

(* initialize_account_stable and _cngn: the whole dictionary, where anything   *)
(* was read at all; no flag is looked at.                                      *)
Seeded(answers) ==
  LET any(t) == \E v \in Venues : answers[v][t] # Absent
  IN [v \in Venues |-> [t \in Tokens |-> IF any(t) THEN answers[v][t] ELSE figure[v][t]]]

SeedWrite ==
  /\ reading["seed"] # Nothing
  /\ figure' = Seeded(reading["seed"])
  /\ reading' = [reading EXCEPT !["seed"] = Nothing]
  /\ seeded' = TRUE /\ approved' \in {approved, TRUE}
  /\ UNCHANGED <<wallet, flagged, cached, moves, faults>>

(* The refresh of a venue reads both tokens or gives up on the venue.          *)
RefreshRead(venues) ==
  /\ seeded /\ reading["refresh"] = Nothing
  /\ \E lost \in SUBSET venues :
       /\ faults + Cardinality(lost) <= MaxFaults
       /\ faults' = faults + Cardinality(lost)
       /\ reading' = [reading EXCEPT !["refresh"] =
            Read({x \in Venues \X Tokens : x[1] \notin venues \ lost})]
  /\ UNCHANGED <<wallet, figure, flagged, cached, seeded, approved, moves>>

RefreshWrite ==
  /\ reading["refresh"] # Nothing
  /\ Reconcile(reading["refresh"])
  /\ reading' = [reading EXCEPT !["refresh"] = Nothing]
  /\ UNCHANGED <<wallet, cached, seeded, approved, moves, faults>>

-----------------------------------------------------------------------------
(* check_all_balances never pauses: a role that cannot be read is missing, a   *)
(* token that cannot be read is -1.                                            *)
Checked(roles, tokens) ==
  [v \in Venues |-> [t \in Tokens |->
     CASE v \in roles -> Absent
       [] v \notin roles /\ <<v, t>> \in tokens -> FailedAt
       [] OTHER -> wallet[v][t]]]

(* The periodic check, and the one after every wallet event.                   *)
CheckUncached ==
  /\ UNCHANGED <<wallet, figure, flagged, cached, reading, seeded, approved, moves, faults>>

Check ==
  /\ \E roles \in SUBSET Venues, tokens \in Failing :
       /\ faults + Cardinality(roles) + Cardinality(tokens) <= MaxFaults
       /\ faults' = faults + Cardinality(roles) + Cardinality(tokens)
       /\ cached' = Checked(roles, tokens)
  /\ UNCHANGED <<wallet, figure, flagged, reading, seeded, approved, moves>>

(* The tick checks the accounts itself only while nothing is cached.           *)
DepthTick ==
  LET known == IF cached = Nothing THEN Checked({}, {}) ELSE cached IN
    /\ cached' = known
    /\ Reconcile(known)
    /\ UNCHANGED <<wallet, reading, seeded, approved, moves, faults>>

(* A trade refused for want of balance zeroes the figure it was sized with.    *)
Refused(v, t) ==
  /\ faults < MaxFaults /\ faults' = faults + 1
  /\ LET zero == [Nothing EXCEPT ![v][t] = 0] IN Reconcile(zero)
  /\ UNCHANGED <<wallet, cached, reading, seeded, approved, moves>>

WalletNext ==
  \/ \E v \in Venues, t \in Tokens, a \in Amounts : Move(v, t, a)
  \/ SeedRead \/ SeedWrite
  \/ \E venues \in SUBSET Venues \ {{}} : RefreshRead(venues)
  \/ RefreshWrite \/ Check \/ DepthTick
  \/ \E v \in Venues, t \in Tokens : Refused(v, t)

(* The jobs run as long as the process does, and a call comes back; nothing is *)
(* promised of wallet events.                                                  *)
WalletSpec ==
  /\ WalletInit /\ [][WalletNext]_walletVars
  /\ WF_walletVars(Check) /\ WF_walletVars(DepthTick)
  /\ WF_walletVars(SeedWrite) /\ WF_walletVars(RefreshWrite)

-----------------------------------------------------------------------------
True == /\ \A v \in Venues, t \in Tokens : figure[v][t] = wallet[v][t]
        /\ flagged = {v \in Venues : wallet[v].stable < MinStable}

(* Once the wallets rest and reads succeed, the figures trades are sized with  *)
(* and the flags that stop them come to be what the wallets hold and stay so,  *)
(* whatever older reading is still on its way, even if no wallet event is ever *)
(* heard.                                                                      *)
FiguresCatchUp == <>[]True

=============================================================================
