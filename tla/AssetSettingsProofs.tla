------------------------- MODULE AssetSettingsProofs -------------------------
(***************************************************************************)
(* The safety of AssetSettings and of the price table beneath it, for any  *)
(* tokens, symbols, requests and faults: what users have chosen of an      *)
(* asset holds as long as no two requests for it run at a time, the loop   *)
(* and the list read the settings alike, writing defaults changes nothing, *)
(* and a symbol that has been written stays.                               *)
(***************************************************************************)
EXTENDS AssetSettings, DataTheorems

(* What goes before it completes a change: Over is associative. *)
LEMMA CompletedTwice ==
  ASSUME NEW f, NEW g, NEW h
  PROVE  Over(f, Over(g, h)) = Over(Over(f, g), h)
BY DEF Over

Fields == {"pc", "key", "change", "read"}
Active == {"has", "read", "write"}

(* At most one request is changing a clean asset, and when it is about to  *)
(* write, the row is still as it has read it.                              *)
Alone(k) ==
  /\ \A p, q \in Upserting(k) : p = q
  /\ \A q \in Upserting(k) : reqs[q].pc = "write" => reqs[q].read = OrDefault(k)

ChoiceInv ==
  /\ DOMAIN reqs = Requests /\ \A q \in Requests : DOMAIN reqs[q] = Fields
  /\ DOMAIN chosen = Keys /\ clean \subseteq Keys
  /\ \A k \in clean : Alone(k)
  /\ ChoiceHolds

(* A request that goes on to somewhere else than an upsert. *)
LEMMA GoesTo ==
  ASSUME ChoiceInv, NEW q \in Requests, NEW pc, pc \notin Active, Goto(q, pc)
  PROVE  /\ DOMAIN reqs' = Requests
         /\ \A p \in Requests : p # q => reqs'[p] = reqs[p]
         /\ DOMAIN reqs'[q] = Fields /\ reqs'[q].pc = pc
         /\ \A k : Upserting(k)' = Upserting(k) \ {q}
<1>1. /\ DOMAIN reqs' = Requests
      /\ \A p \in Requests : p # q => reqs'[p] = reqs[p]
      /\ reqs'[q] = At(pc)
  BY DEF Goto, ChoiceInv
<1>2. DOMAIN At(pc) = Fields /\ At(pc).pc = pc
  BY DEF At, Fields
<1>3. \A k : Upserting(k)' = Upserting(k) \ {q}
  BY <1>1, <1>2 DEF Upserting, Active
<1> QED
  BY <1>1, <1>2, <1>3

(* A step that starts no upsert and leaves the rows' meaning alone. *)
LEMMA Harmless ==
  ASSUME ChoiceInv, UNCHANGED <<chosen, clean>>,
         \A k : OrDefault(k)' = OrDefault(k),
         DOMAIN reqs' = Requests, \A p \in Requests : DOMAIN reqs'[p] = Fields,
         \A p \in Requests : reqs'[p] = reqs[p] \/ reqs'[p].pc \notin Active
  PROVE  ChoiceInv'
<1>1. \A k : Upserting(k)' \subseteq Upserting(k)
      /\ \A q \in Upserting(k)' : reqs'[q] = reqs[q]
  BY DEF Upserting, Active
<1>2. \A k \in clean : Alone(k)'
  BY <1>1 DEF ChoiceInv, Alone
<1>3. ChoiceHolds'
  BY DEF ChoiceInv, ChoiceHolds
<1> QED
  BY <1>2, <1>3 DEF ChoiceInv

LEMMA LeavesRows ==
  ASSUME ChoiceInv, NEW q \in Requests, NEW pc, pc \notin Active, Goto(q, pc),
         UNCHANGED <<chosen, clean>>, \A k : OrDefault(k)' = OrDefault(k)
  PROVE  ChoiceInv'
<1>1. /\ DOMAIN reqs' = Requests
      /\ \A p \in Requests : p # q => reqs'[p] = reqs[p]
      /\ DOMAIN reqs'[q] = Fields /\ reqs'[q].pc \notin Active
  BY GoesTo
<1>2. \A p \in Requests : DOMAIN reqs'[p] = Fields
  BY <1>1 DEF ChoiceInv
<1> QED
  BY <1>1, <1>2, Harmless

LEMMA Written ==
  ASSUME ChoiceInv, NEW q \in Requests, Write(q), NEW pc, pc \notin Active, Goto(q, pc),
         UNCHANGED clean
  PROVE  ChoiceInv'
<1> SUFFICES ASSUME NEW k, NEW change, NEW v,
                    k = reqs[q].key, change = reqs[q].change, v = Completed(q)
             PROVE  ChoiceInv'
  OBVIOUS
<1>1. /\ reqs[q].pc = "write" /\ q \in Upserting(k)
      /\ settings' = Put(k, v, settings)
      /\ chosen' = [chosen EXCEPT ![k] = Over(change, @)]
  BY DEF Write, Upserting
<1>2. /\ OrDefault(k)' = v
      /\ \A j : j # k => OrDefault(j)' = OrDefault(j)
  <2>1. /\ DOMAIN settings' = DOMAIN settings \union {k}
        /\ settings'[k] = v
        /\ \A j \in DOMAIN settings : j # k => settings'[j] = settings[j]
    BY <1>1 DEF Put, Over
  <2> QED
    BY <2>1 DEF OrDefault
<1>3. /\ DOMAIN reqs' = Requests
      /\ \A p \in Requests : p # q => reqs'[p] = reqs[p]
      /\ DOMAIN reqs'[q] = Fields
      /\ \A j : Upserting(j)' = Upserting(j) \ {q}
  BY GoesTo
<1>4. \A p \in Requests : DOMAIN reqs'[p] = Fields
  BY <1>3 DEF ChoiceInv
<1>5. /\ DOMAIN chosen' = Keys
      /\ \A j \in Keys : j # k => chosen'[j] = chosen[j]
      /\ k \in Keys => chosen'[k] = Over(change, chosen[k])
  BY <1>1 DEF ChoiceInv
<1>6. ASSUME NEW j \in clean
      PROVE  Alone(j)' /\ OrDefault(j)' = Over(chosen'[j], Default)
  <2>0. j \in Keys /\ Alone(j) /\ OrDefault(j) = Over(chosen[j], Default)
    BY <1>6 DEF ChoiceInv, ChoiceHolds
  <2>1. CASE j = k
    <3>1. Upserting(k)' = {}
      <4>1. \A p \in Upserting(k) : p = q
        BY <1>1, <2>0, <2>1 DEF Alone
      <4>2. Upserting(k)' = Upserting(k) \ {q}
        BY <1>3
      <4> QED
        BY <4>1, <4>2
    <3>2. v = Over(change, Over(chosen[k], Default))
      BY <1>1, <2>0, <2>1 DEF Alone, Completed
    <3>3. v = Over(Over(change, chosen[k]), Default)
      BY <3>2, CompletedTwice
    <3>4. Alone(j)'
      BY <2>1, <3>1 DEF Alone
    <3>5. chosen'[j] = Over(change, chosen[k])
      BY <1>5, <2>0, <2>1
    <3> QED
      BY <1>2, <2>1, <3>3, <3>4, <3>5
  <2>2. CASE j # k
    <3>1. Alone(j)'
      BY <1>2, <1>3, <2>0, <2>2 DEF Alone, Upserting
    <3> QED
      BY <1>2, <1>5, <2>0, <2>2, <3>1
  <2> QED
    BY <2>1, <2>2
<1> QED
  BY <1>3, <1>4, <1>5, <1>6 DEF ChoiceInv, ChoiceHolds

-----------------------------------------------------------------------------
(* The steps of an upsert before it writes: it stays the only one of a     *)
(* clean asset.                                                            *)
LEMMA UpsertSteps ==
  ASSUME ChoiceInv, NEW q \in Requests,
         BeginUpsert(q) \/ Has(q) \/ ReadSettings(q)
  PROVE  ChoiceInv'
<1>1. CASE BeginUpsert(q)
  <2>1. PICK k \in AskedKeys, change \in Changes :
          /\ reqs' = [reqs EXCEPT ![q] = [At("has") EXCEPT !.key = k, !.change = change]]
          /\ clean' = IF Upserting(k) = {} THEN clean ELSE clean \ {k}
    BY <1>1 DEF BeginUpsert
  <2>2. UNCHANGED <<settings, chosen>>
    BY <1>1 DEF BeginUpsert, tables
  <2>3. reqs[q].pc = "none"
    BY <1>1 DEF BeginUpsert, Comes
  <2>4. /\ DOMAIN reqs' = Requests
        /\ \A p \in Requests : p # q => reqs'[p] = reqs[p]
        /\ DOMAIN reqs'[q] = Fields /\ reqs'[q].pc = "has" /\ reqs'[q].key = k
    BY <2>1 DEF ChoiceInv, At, Fields
  <2>5. \A p \in Requests : DOMAIN reqs'[p] = Fields
    BY <2>4 DEF ChoiceInv
  <2>6. \A j : OrDefault(j)' = OrDefault(j)
    BY <2>2 DEF OrDefault
  <2>7. ASSUME NEW j \in clean'
        PROVE  Alone(j)'
    <3>1. Alone(j)
      BY <2>1, <2>7 DEF ChoiceInv
    <3>2. CASE j = k
      <4>1. Upserting(j) = {}
        BY <2>1, <2>7, <3>2
      <4>2. Upserting(j)' \subseteq {q}
        BY <2>4, <4>1 DEF Upserting
      <4> QED
        BY <2>4, <4>2 DEF Alone
    <3>3. CASE j # k
      <4>1. Upserting(j)' = Upserting(j) /\ q \notin Upserting(j)
        BY <2>3, <2>4, <3>3 DEF Upserting
      <4>2. \A p \in Upserting(j) : reqs'[p] = reqs[p]
        BY <2>4, <4>1 DEF Upserting
      <4> QED
        BY <2>6, <3>1, <4>1, <4>2 DEF Alone
    <3> QED
      BY <3>2, <3>3
  <2>8. clean' \subseteq clean
    BY <2>1
  <2>9. ChoiceHolds'
    BY <2>2, <2>6, <2>8 DEF ChoiceInv, ChoiceHolds
  <2> QED
    BY <2>2, <2>4, <2>5, <2>7, <2>8, <2>9 DEF ChoiceInv
<1>2. ASSUME NEW pc \in {"read", "write"}, NEW read,
             reqs[q].pc \in Active,
             reqs' = [reqs EXCEPT ![q].pc = pc, ![q].read = read],
             pc = "write" => read = OrDefault(reqs[q].key),
             UNCHANGED <<settings, chosen, clean>>
      PROVE  ChoiceInv'
  <2>1. /\ DOMAIN reqs' = Requests
        /\ \A p \in Requests : p # q => reqs'[p] = reqs[p]
        /\ DOMAIN reqs'[q] = Fields /\ reqs'[q].pc = pc
        /\ reqs'[q].key = reqs[q].key /\ reqs'[q].read = read
    BY <1>2 DEF ChoiceInv, Fields
  <2>2. \A j : OrDefault(j)' = OrDefault(j)
    BY <1>2 DEF OrDefault
  <2>3. \A j : Upserting(j)' = Upserting(j)
    BY <1>2, <2>1 DEF Upserting, Active
  <2>4. ASSUME NEW j \in clean
        PROVE  Alone(j)'
    <3>1. Alone(j)
      BY DEF ChoiceInv
    <3>2. ASSUME NEW p \in Upserting(j), reqs'[p].pc = "write"
          PROVE  reqs'[p].read = OrDefault(j)
      BY <1>2, <2>1, <3>1, <3>2 DEF Alone, Upserting
    <3> QED
      BY <2>2, <2>3, <3>1, <3>2 DEF Alone
  <2>5. \A p \in Requests : DOMAIN reqs'[p] = Fields
    BY <2>1 DEF ChoiceInv
  <2>6. ChoiceHolds'
    BY <1>2, <2>2 DEF ChoiceInv, ChoiceHolds
  <2> QED
    BY <1>2, <2>1, <2>4, <2>5, <2>6 DEF ChoiceInv
<1>3. CASE Has(q)
  <2>1. UNCHANGED <<settings, chosen, clean>> /\ reqs[q].pc = "has"
    BY <1>3 DEF Has, tables
  <2>2. CASE reqs' = [reqs EXCEPT ![q].pc = "read"]
    <3>1. PICK read : read = reqs[q].read
      OBVIOUS
    <3>2. reqs' = [reqs EXCEPT ![q].pc = "read", ![q].read = read]
      BY <2>2, <3>1 DEF ChoiceInv, Fields
    <3>3. reqs[q].pc \in Active
      BY <2>1 DEF Active
    <3> QED
      BY <1>2, <2>1, <3>2, <3>3
  <2>3. CASE Goto(q, "done")
    <3>1. \A j : OrDefault(j)' = OrDefault(j)
      BY <2>1 DEF OrDefault
    <3>2. "done" \notin Active
      BY DEF Active
    <3> QED
      BY <2>1, <2>3, <3>1, <3>2, LeavesRows
  <2> QED
    BY <1>3, <2>2, <2>3 DEF Has
<1>4. CASE ReadSettings(q)
  <2>1. /\ reqs[q].pc \in Active
        /\ reqs' = [reqs EXCEPT ![q].pc = "write", ![q].read = OrDefault(reqs[q].key)]
        /\ UNCHANGED <<settings, chosen, clean>>
    BY <1>4 DEF ReadSettings, OrDefault, tables, Active
  <2> QED
    BY <1>2, <2>1
<1> QED
  BY <1>1, <1>3, <1>4

LEMMA RequestSteps ==
  ASSUME ChoiceInv, NEW q \in Requests, Request(q)
  PROVE  ChoiceInv'
<1>1. CASE BeginUpsert(q) \/ Has(q) \/ ReadSettings(q)
  BY <1>1, UpsertSteps
<1>2. CASE WriteSettings(q)
  BY <1>2, Written DEF WriteSettings, Active
<1>3. CASE EnsureSettings(q)
  <2>1. \A k : OrDefault(k)' = OrDefault(k)
    BY <1>3 DEF EnsureSettings, WithDefaults, Over, OrDefault
  <2> QED
    BY <1>3, <2>1, LeavesRows DEF EnsureSettings, Active
<1>4. CASE EnsureNetworks(q)
  BY <1>4, LeavesRows DEF EnsureNetworks, Active, OrDefault
<1>5. CASE SetNetwork(q)
  BY <1>5, LeavesRows DEF SetNetwork, Active, OrDefault
<1>6. CASE Toggle(q)
  <2>1. PICK pc \in {"ensure", "done"} : Goto(q, pc)
    BY <1>6 DEF Toggle
  <2> QED
    BY <1>6, <2>1, LeavesRows DEF Toggle, Active, OrDefault
<1>7. CASE StatementFails(q)
  <2>1. Goto(q, "done")
    BY <1>7 DEF StatementFails
  <2>2. CASE UNCHANGED <<tables, chosen, clean>>
    BY <2>1, <2>2, LeavesRows DEF tables, Active, OrDefault
  <2>3. CASE Write(q) /\ UNCHANGED clean
    BY <2>1, <2>3, Written DEF Active
  <2> QED
    BY <1>7, <2>2, <2>3 DEF StatementFails
<1>8. CASE Sell(q)
  BY <1>8, LeavesRows DEF Sell, Active, OrDefault
<1> QED
  BY <1>1, <1>2, <1>3, <1>4, <1>5, <1>6, <1>7, <1>8 DEF Request

LEMMA ChoiceInvInit == Init => ChoiceInv
<1> SUFFICES ASSUME Init PROVE ChoiceInv
  OBVIOUS
<1>1. DOMAIN settings = {} /\ clean = Keys /\ chosen = [k \in Keys |-> <<>>]
  BY DEF Init
<1>2. reqs = [q \in Requests |-> At("none")]
  BY DEF Init
<1>3. \A q \in Requests : DOMAIN reqs[q] = Fields /\ reqs[q].pc = "none"
  BY <1>2 DEF At, Fields
<1>4. \A k : Upserting(k) = {}
  BY <1>3 DEF Upserting
<1>5. Over(<<>>, Default) = Default
  BY DEF Over, Default
<1>6. ChoiceHolds
  BY <1>1, <1>5 DEF ChoiceHolds, OrDefault
<1> QED
  BY <1>1, <1>2, <1>3, <1>4, <1>6 DEF ChoiceInv, Alone

LEMMA ChoiceInvStep == ChoiceInv /\ [Next]_vars => ChoiceInv'
<1> SUFFICES ASSUME ChoiceInv, [Next]_vars PROVE ChoiceInv'
  OBVIOUS
<1>1. CASE \E q \in Requests : Request(q)
  BY <1>1, RequestSteps
<1>2. CASE UNCHANGED <<settings, reqs, chosen, clean>>
  BY <1>2 DEF ChoiceInv, Alone, Upserting, ChoiceHolds, OrDefault
<1>3. CASE \E r \in Rows : AddHolding(r) \/ RollBackHolding(r)
  BY <1>2, <1>3 DEF AddHolding, RollBackHolding
<1>4. CASE PricesNext /\ UNCHANGED <<tables, reqs, chosen, clean>>
  BY <1>2, <1>4 DEF tables
<1>5. CASE Restart
  <2>1. /\ DOMAIN reqs' = Requests
        /\ \A p \in Requests : DOMAIN reqs'[p] = Fields /\ reqs'[p].pc \notin Active
    BY <1>5 DEF Restart, At, Fields, Active
  <2> QED
    BY <1>5, <2>1, Harmless DEF Restart, tables, OrDefault
<1>6. CASE UNCHANGED vars
  BY <1>2, <1>6 DEF vars, tables
<1> QED
  BY <1>1, <1>3, <1>4, <1>5, <1>6 DEF Next

-----------------------------------------------------------------------------
(* The table of prices.  Its rows stay different and in the order of       *)
(* updated_at, the fresh ones last.                                        *)
FreshLast(s, F) == \A i, j \in DOMAIN s : s[i] \in F /\ i < j => s[j] \in F

LEMMA KeptOnce ==
  ASSUME NEW s \in Seq(Rows), IsInjective(s), NEW r
  PROVE  /\ Keep(s, Rows \ {r}) \in Seq(Rows) /\ IsInjective(Keep(s, Rows \ {r}))
         /\ ToSet(Keep(s, Rows \ {r})) = ToSet(s) \ {r}
<1> DEFINE q == Keep(s, Rows \ {r})
<1>1. /\ q \in Seq(Rows)
      /\ \A i \in DOMAIN q : q[i] \in Rows \ {r} /\ \E k \in DOMAIN s : s[k] = q[i]
      /\ \A k \in DOMAIN s : s[k] \in Rows \ {r} => \E i \in DOMAIN q : q[i] = s[k]
  <2> DEFINE S == Rows \ {r}
  <2> HIDE DEF S
  <2>1. /\ Keep(s, S) \in Seq(Rows)
        /\ \A i \in DOMAIN Keep(s, S) : /\ Keep(s, S)[i] \in S
                                        /\ \E k \in DOMAIN s : s[k] = Keep(s, S)[i]
        /\ \A k \in DOMAIN s : s[k] \in S => \E i \in DOMAIN Keep(s, S) : Keep(s, S)[i] = s[k]
    BY KeepFacts
  <2> QED
    BY <2>1 DEF S
<1>2. \A i, j \in DOMAIN q : i < j => \E k, l \in DOMAIN s : k < l /\ s[k] = q[i] /\ s[l] = q[j]
  BY KeepOrder
<1> HIDE DEF q
<1>3. DOMAIN q \subseteq Nat /\ DOMAIN s \subseteq Nat
  BY <1>1
<1>4. \A i, j \in DOMAIN q : i < j => q[i] # q[j]
  <2> SUFFICES ASSUME NEW i \in DOMAIN q, NEW j \in DOMAIN q, i < j PROVE q[i] # q[j]
    OBVIOUS
  <2>1. PICK k \in DOMAIN s, l \in DOMAIN s : k < l /\ s[k] = q[i] /\ s[l] = q[j]
    BY <1>2
  <2>2. k # l
    BY <1>3, <2>1
  <2> QED
    BY <2>1, <2>2 DEF IsInjective
<1>5. IsInjective(q)
  BY <1>3, <1>4 DEF IsInjective
<1>6. \A k \in DOMAIN s : s[k] \in Rows
  OBVIOUS
<1>7. ToSet(q) = ToSet(s) \ {r}
  BY <1>1, <1>6 DEF ToSet
<1> QED
  BY <1>1, <1>5, <1>7 DEF q

LEMMA KeptFreshLast ==
  ASSUME NEW s \in Seq(Rows), NEW r, NEW F, FreshLast(s, F)
  PROVE  FreshLast(Keep(s, Rows \ {r}), F)
<1> DEFINE q == Keep(s, Rows \ {r})
<1>1. \A i, j \in DOMAIN q : i < j => \E k, l \in DOMAIN s : k < l /\ s[k] = q[i] /\ s[l] = q[j]
  BY KeepOrder
<1> HIDE DEF q
<1>2. \A i, j \in DOMAIN q : q[i] \in F /\ i < j => q[j] \in F
  BY <1>1 DEF FreshLast
<1> QED
  BY <1>2 DEF FreshLast, q

(* What PricesTypeOK says of the table. *)
TableOK ==
  /\ table \in Seq(Rows) /\ IsInjective(table)
  /\ FreshLast(table, fresh) /\ fresh \subseteq ToSet(table)

LEMMA RenewedKeeps ==
  ASSUME TableOK, NEW r \in Rows, table' = Renewed(r), fresh' = FreshWith(r)
  PROVE  TableOK' /\ ToSet(table') = ToSet(table)
<1>1. CASE ~InTable(r)
  BY <1>1 DEF Renewed, FreshWith, TableOK, FreshLast
<1>2. CASE InTable(r)
  <2> DEFINE q == Keep(table, Rows \ {r})
  <2>1. q \in Seq(Rows) /\ IsInjective(q) /\ ToSet(q) = ToSet(table) \ {r}
    BY KeptOnce DEF TableOK
  <2>2. FreshLast(q, fresh)
    BY KeptFreshLast DEF TableOK
  <2>3. table' = Append(q, r) /\ fresh' = fresh \union {r}
    BY <1>2 DEF Renewed, FreshWith
  <2> HIDE DEF q
  <2>4. /\ table' \in Seq(Rows) /\ Len(q) \in Nat
        /\ DOMAIN q = 1..Len(q) /\ DOMAIN table' = 1..(Len(q) + 1)
        /\ table'[Len(q) + 1] = r /\ \A i \in 1..Len(q) : table'[i] = q[i]
    BY <2>1, <2>3
  <2>5. \A i \in 1..Len(q) : q[i] # r
    BY <2>1, <2>4 DEF ToSet
  <2>6. IsInjective(table')
    BY <2>1, <2>4, <2>5 DEF IsInjective
  <2>7. ToSet(table') = ToSet(q) \union {r}
    BY <2>4 DEF ToSet
  <2>8. FreshLast(table', fresh')
    <3> SUFFICES ASSUME NEW i \in 1..(Len(q) + 1), NEW j \in 1..(Len(q) + 1),
                        table'[i] \in fresh', i < j
                 PROVE  table'[j] \in fresh'
      BY <2>4 DEF FreshLast
    <3>1. i \in 1..Len(q)
      BY <2>4
    <3>2. CASE j = Len(q) + 1
      BY <2>3, <2>4, <3>2
    <3>3. CASE j \in 1..Len(q)
      <4>1. q[i] \in fresh
        BY <2>3, <2>4, <2>5, <3>1
      <4> QED
        BY <2>2, <2>3, <2>4, <3>1, <3>3, <4>1 DEF FreshLast
    <3> QED
      BY <2>4, <3>2, <3>3
  <2>9. ToSet(table') = ToSet(table)
    BY <1>2, <2>1, <2>7 DEF InTable
  <2> QED
    BY <2>3, <2>4, <2>6, <2>8, <2>9, <1>2 DEF TableOK, InTable
<1> QED
  BY <1>1, <1>2

TodoRows == Seq([row : Rows, stale : BOOLEAN, symbol : BOOLEAN])
TodoOK == /\ todo \in [Chains -> TodoRows]
          /\ \A c \in Chains : \A i \in DOMAIN todo[c] : ChainOf[todo[c][i].row] = c

LEMMA PricesTypeIs ==
  PricesTypeOK <=> /\ TableOK /\ TodoOK
                   /\ symbols \subseteq ToSet(table) /\ resolving \subseteq ToSet(table)
                   /\ stubs \in 0..MaxStubs /\ faults \in 0..MaxFaults
BY DEF PricesTypeOK, TableOK, TodoOK, TodoRows, FreshLast

LEMMA StubKeeps ==
  ASSUME TableOK, NEW r \in Rows, ~InTable(r), table' = <<r>> \o table, fresh' = fresh
  PROVE  TableOK' /\ ToSet(table') = ToSet(table) \union {r}
<1>1. /\ table' \in Seq(Rows) /\ Len(table) \in Nat
      /\ DOMAIN table = 1..Len(table) /\ DOMAIN table' = 1..(Len(table) + 1)
      /\ table'[1] = r /\ \A i \in 2..(Len(table) + 1) : table'[i] = table[i - 1]
  BY DEF TableOK
<1>2. \A i \in 1..Len(table) : table[i] # r
  BY <1>1 DEF InTable, ToSet
<1>3. \A i \in 1..(Len(table) + 1) : i = 1 \/ (i \in 2..(Len(table) + 1) /\ i - 1 \in 1..Len(table))
  BY <1>1
<1>4. IsInjective(table')
  BY <1>1, <1>2, <1>3 DEF IsInjective, TableOK
<1>5. ToSet(table') = ToSet(table) \union {r}
  <2>1. \A i \in 1..Len(table) : i + 1 \in 2..(Len(table) + 1) /\ table'[i + 1] = table[i]
    BY <1>1
  <2>2. ASSUME NEW x \in ToSet(table')
        PROVE  x = r \/ x \in ToSet(table)
    <3>1. PICK i \in 1..(Len(table) + 1) : table'[i] = x
      BY <1>1 DEF ToSet
    <3> QED
      BY <1>1, <1>3, <3>1 DEF ToSet
  <2>3. ASSUME NEW x \in ToSet(table)
        PROVE  x \in ToSet(table')
    <3>1. PICK i \in 1..Len(table) : table[i] = x
      BY <1>1 DEF ToSet
    <3>2. i + 1 \in DOMAIN table' /\ table'[i + 1] = x
      BY <1>1, <2>1, <3>1
    <3> QED
      BY <3>2 DEF ToSet
  <2>4. r \in ToSet(table')
    <3>1. 1 \in DOMAIN table'
      BY <1>1
    <3> QED
      BY <1>1, <3>1 DEF ToSet
  <2> QED
    BY <2>2, <2>3, <2>4
<1>6. r \notin fresh
  BY DEF TableOK, InTable
<1>7. FreshLast(table', fresh)
  <2> SUFFICES ASSUME NEW i \in 1..(Len(table) + 1), NEW j \in 1..(Len(table) + 1),
                      table'[i] \in fresh, i < j
               PROVE  table'[j] \in fresh
    BY <1>1 DEF FreshLast
  <2>1. i # 1 /\ j # 1
    BY <1>1, <1>6
  <2>2. /\ i - 1 \in 1..Len(table) /\ j - 1 \in 1..Len(table) /\ i - 1 < j - 1
        /\ table'[i] = table[i - 1] /\ table'[j] = table[j - 1]
    BY <1>1, <1>3, <2>1
  <2> QED
    BY <1>1, <2>2 DEF TableOK, FreshLast
<1> QED
  BY <1>1, <1>4, <1>5, <1>7 DEF TableOK

LEMMA RollBackKeeps ==
  ASSUME TableOK, NEW r, table' = Keep(table, Rows \ {r}), fresh' = fresh \ {r}
  PROVE  TableOK' /\ ToSet(table') = ToSet(table) \ {r}
<1>1. /\ table' \in Seq(Rows) /\ IsInjective(table') /\ ToSet(table') = ToSet(table) \ {r}
  BY KeptOnce DEF TableOK
<1>2. FreshLast(table', fresh)
  BY KeptFreshLast DEF TableOK
<1>3. \A i \in DOMAIN table' : table'[i] # r
  BY <1>1 DEF ToSet
<1>4. FreshLast(table', fresh')
  BY <1>2, <1>3 DEF FreshLast
<1> QED
  BY <1>1, <1>4 DEF TableOK

(* The row that is no longer fresh is the first of the fresh ones. *)
LEMMA AgeKeeps ==
  ASSUME TableOK, Age
  PROVE  TableOK'
<1> DEFINE I == {i \in DOMAIN table : table[i] \in fresh}
<1>1. table \in Seq(Rows) /\ IsInjective(table) /\ DOMAIN table \subseteq Nat
  BY DEF TableOK
<1>2. I \subseteq Nat /\ I # {}
  BY <1>1 DEF TableOK, ToSet, Age
<1>3. table' = table /\ fresh' = fresh \ {table[Min(I)]}
  BY DEF Age
<1> HIDE DEF I
<1>4. \E n \in I : \A m \in I : n <= m
  BY <1>2, LeastNumber
<1>5. Min(I) \in I /\ \A m \in I : Min(I) <= m
  BY <1>4 DEF Min
<1>6. FreshLast(table, fresh')
  <2> SUFFICES ASSUME NEW i \in DOMAIN table, NEW j \in DOMAIN table, table[i] \in fresh', i < j
               PROVE  table[j] \in fresh'
    BY DEF FreshLast
  <2>1. table[j] \in fresh /\ i \in I
    BY <1>3 DEF TableOK, FreshLast, I
  <2>2. j # Min(I)
    BY <1>1, <1>2, <1>5, <2>1
  <2>3. table[j] # table[Min(I)]
    BY <1>1, <1>5, <2>2 DEF IsInjective, I
  <2> QED
    BY <1>3, <2>1, <2>3
<1> QED
  BY <1>1, <1>3, <1>6 DEF TableOK

LEMMA TailFacts ==
  ASSUME NEW T, NEW q \in Seq(T), q # <<>>
  PROVE  /\ Tail(q) \in Seq(T) /\ Head(q) = q[1] /\ Head(q) \in T
         /\ \A i \in DOMAIN Tail(q) : i + 1 \in DOMAIN q /\ Tail(q)[i] = q[i + 1]
OBVIOUS

LEMMA HandledKeeps ==
  ASSUME TodoOK, NEW c \in Chains, Handled(c)
  PROVE  TodoOK' /\ Now(c).row \in Rows
<1>1. /\ todo[c] \in TodoRows /\ todo[c] # <<>>
      /\ todo' = [todo EXCEPT ![c] = Tail(todo[c])]
  BY DEF TodoOK, Handled
<1>2. /\ Tail(todo[c]) \in TodoRows /\ Head(todo[c]).row \in Rows
      /\ \A i \in DOMAIN Tail(todo[c]) : /\ i + 1 \in DOMAIN todo[c]
                                         /\ Tail(todo[c])[i] = todo[c][i + 1]
  <2> DEFINE T == [row : Rows, stale : BOOLEAN, symbol : BOOLEAN]
             q == todo[c]
  <2>1. q \in Seq(T) /\ q # <<>> /\ \A x \in T : x.row \in Rows
    BY <1>1 DEF TodoRows
  <2> HIDE DEF T, q
  <2>2. /\ Tail(q) \in Seq(T) /\ Head(q) \in T
        /\ \A i \in DOMAIN Tail(q) : i + 1 \in DOMAIN q /\ Tail(q)[i] = q[i + 1]
    BY <2>1, TailFacts
  <2>3. Head(q).row \in Rows
    BY <2>1, <2>2
  <2> QED
    BY <2>2, <2>3 DEF T, q, TodoRows
<1>3. \A i \in DOMAIN Tail(todo[c]) : ChainOf[Tail(todo[c])[i].row] = c
  BY <1>2 DEF TodoOK
<1>4. todo' \in [Chains -> TodoRows] /\ todo'[c] = Tail(todo[c])
      /\ \A b \in Chains : b # c => todo'[b] = todo[b]
  BY <1>1, <1>2 DEF TodoOK
<1>5. \A b \in Chains : \A i \in DOMAIN todo'[b] : ChainOf[todo'[b][i].row] = b
  BY <1>3, <1>4 DEF TodoOK
<1> QED
  BY <1>2, <1>4, <1>5 DEF TodoOK, Now

LEMMA TickKeeps ==
  ASSUME TodoOK, TableOK, NEW c \in Chains, Tick(c)
  PROVE  TodoOK'
<1> DEFINE S == {r \in Rows : ChainOf[r] = c}
           own == Keep(Oldest, S)
<1>1. Oldest \in Seq(Rows)
  <2> DEFINE m == Min({Limit, Len(table)})
  <2>1. Limit \in Nat /\ Len(table) \in Nat
    BY PricesAssumption DEF TableOK
  <2>2. \E x \in {Limit, Len(table)} : \A y \in {Limit, Len(table)} : x <= y
    BY <2>1
  <2>3. m \in {Limit, Len(table)} /\ m <= Len(table)
    BY <2>2 DEF Min
  <2> HIDE DEF m
  <2>4. SubSeq(table, 1, m) \in Seq(Rows)
    BY <2>1, <2>3 DEF TableOK
  <2> QED
    BY <2>4 DEF Oldest, m
<1>2. own \in Seq(Rows) /\ \A i \in DOMAIN own : own[i] \in S
  <2> HIDE DEF S
  <2> QED
    BY <1>1, KeepFacts
<1>3. todo' = [todo EXCEPT ![c] = [i \in DOMAIN own |-> Read(own[i])]]
  BY DEF Tick
<1> DEFINE read == [i \in DOMAIN own |-> Read(own[i])]
<1>4. read \in TodoRows
  <2>1. \A r \in Rows : Read(r) \in [row : Rows, stale : BOOLEAN, symbol : BOOLEAN]
    <3> SUFFICES ASSUME NEW r \in Rows
                 PROVE  Read(r) \in [row : Rows, stale : BOOLEAN, symbol : BOOLEAN]
      OBVIOUS
    <3>1. PICK b \in BOOLEAN, d \in BOOLEAN : b = (r \notin fresh) /\ d = (r \in symbols)
      <4>1. (r \notin fresh) \in BOOLEAN
        OBVIOUS
      <4>2. (r \in symbols) \in BOOLEAN
        OBVIOUS
      <4> QED
        BY <4>1, <4>2, Zenon
    <3>2. Read(r) = [row |-> r, stale |-> b, symbol |-> d]
      BY <3>1, Zenon DEF Read
    <3> QED
      BY <3>2
  <2>2. own \in Seq(Rows) /\ DOMAIN own = 1..Len(own) /\ Len(own) \in Nat
    BY <1>2
  <2> HIDE DEF own
  <2>3. \A i \in 1..Len(own) : Read(own[i]) \in [row : Rows, stale : BOOLEAN, symbol : BOOLEAN]
    BY <2>1, <2>2
  <2> QED
    BY <2>2, <2>3 DEF TodoRows
<1>5. \A i \in DOMAIN read : ChainOf[read[i].row] = c
  BY <1>2 DEF Read
<1> HIDE DEF read
<1>6. todo' \in [Chains -> TodoRows] /\ todo'[c] = read
      /\ \A b \in Chains : b # c => todo'[b] = todo[b]
  BY <1>3, <1>4 DEF TodoOK, read
<1> QED
  BY <1>5, <1>6 DEF TodoOK

LEMMA FaultsBounded ==
  ASSUME faults \in 0..MaxFaults, Fault \/ UNCHANGED faults
  PROVE  faults' \in 0..MaxFaults
BY PricesAssumption DEF Fault

(* A daemon may keep, renew or lose the symbol of a row that is there. *)
LEMMA DaemonKeeps ==
  ASSUME PricesTypeOK, NEW c \in Chains, Daemon(c)
  PROVE  PricesTypeOK' /\ ToSet(table') = ToSet(table)
<1>1. /\ TableOK /\ TodoOK /\ symbols \subseteq ToSet(table) /\ resolving \subseteq ToSet(table)
      /\ stubs \in 0..MaxStubs /\ faults \in 0..MaxFaults
  BY PricesTypeIs
<1>2. SUFFICES /\ TableOK' /\ TodoOK' /\ symbols' \subseteq ToSet(table')
               /\ resolving' = resolving /\ stubs' = stubs /\ faults' \in 0..MaxFaults
               /\ ToSet(table') = ToSet(table)
  BY <1>1, <1>2 DEF PricesTypeOK, TableOK, TodoOK, TodoRows, FreshLast
<1>3. ASSUME UNCHANGED <<table, fresh>> PROVE TableOK'
  BY <1>1, <1>3 DEF TableOK, FreshLast
<1>4. CASE Tick(c)
  BY <1>1, <1>3, <1>4, TickKeeps DEF Tick
<1>5. CASE RefreshSingleToken(c)
  <2>1. Handled(c)
    BY <1>5 DEF RefreshSingleToken, Skip, Update, Touch, LookupFails
  <2>2. TodoOK' /\ Now(c).row \in Rows
    BY <1>1, <2>1, HandledKeeps
  <2>3. Fault \/ UNCHANGED faults
    BY <1>5 DEF RefreshSingleToken, Skip, Update, Touch, LookupFails, NoLiquidity, NoAnswer
  <2>4. faults' \in 0..MaxFaults /\ stubs' = stubs /\ resolving' = resolving
    BY <1>1, <2>1, <2>3, FaultsBounded DEF Handled
  <2>5. CASE Skip(c) \/ LookupFails(c)
    BY <1>1, <1>3, <2>2, <2>4, <2>5 DEF Skip, LookupFails
  <2>6. CASE Update(c) \/ Touch(c)
    <3>1. TableOK' /\ ToSet(table') = ToSet(table)
      BY <1>1, <2>2, <2>6, RenewedKeeps DEF Update, Touch
    <3>2. symbols' \subseteq ToSet(table)
      BY <1>1, <2>6 DEF Update, Touch, InTable
    <3> QED
      BY <2>2, <2>4, <3>1, <3>2
  <2> QED
    BY <1>5, <2>5, <2>6 DEF RefreshSingleToken
<1> QED
  BY <1>4, <1>5 DEF Daemon

LEMMA PricesStep ==
  ASSUME PricesTypeOK, PricesNext
  PROVE  PricesTypeOK' /\ ToSet(table') = ToSet(table)
<1>1. /\ TableOK /\ TodoOK /\ symbols \subseteq ToSet(table) /\ resolving \subseteq ToSet(table)
      /\ stubs \in 0..MaxStubs /\ faults \in 0..MaxFaults
  BY PricesTypeIs
<1>2. CASE Age
  <2>1. TableOK' /\ UNCHANGED <<table, symbols, resolving, todo, stubs, faults>>
    BY <1>1, <1>2, AgeKeeps DEF Age
  <2> QED
    BY <1>1, <2>1 DEF PricesTypeOK, TableOK, TodoOK, TodoRows, FreshLast
<1>3. CASE \E c \in Chains : Daemon(c)
  BY <1>3, DaemonKeeps
<1>4. ASSUME NEW r \in Rows, Resolved(r)
      PROVE  PricesTypeOK' /\ ToSet(table') = ToSet(table)
  <2>1. TableOK' /\ ToSet(table') = ToSet(table)
    BY <1>1, <1>4, RenewedKeeps DEF Resolved
  <2>2. /\ symbols' \subseteq ToSet(table) /\ resolving' \subseteq ToSet(table)
        /\ UNCHANGED <<todo, stubs, faults>>
    BY <1>1, <1>4 DEF Resolved
  <2> QED
    BY <1>1, <2>1, <2>2 DEF PricesTypeOK, TableOK, TodoOK, TodoRows, FreshLast
<1> QED
  BY <1>2, <1>3, <1>4 DEF PricesNext

(* The steps a portfolio or the process takes in the table of prices. *)
LEMMA StubsStep ==
  ASSUME PricesTypeOK, NEW r \in Rows
  PROVE  /\ NewStub(r) => PricesTypeOK' /\ ToSet(table') = ToSet(table) \union {r}
         /\ RolledBack(r) => PricesTypeOK' /\ ToSet(table') = ToSet(table) \ {r}
<1>1. /\ TableOK /\ TodoOK /\ symbols \subseteq ToSet(table) /\ resolving \subseteq ToSet(table)
      /\ stubs \in 0..MaxStubs /\ faults \in 0..MaxFaults
  BY PricesTypeIs
<1>2. ASSUME NewStub(r)
      PROVE  PricesTypeOK' /\ ToSet(table') = ToSet(table) \union {r}
  <2>1. TableOK' /\ ToSet(table') = ToSet(table) \union {r}
    BY <1>1, <1>2, StubKeeps DEF NewStub
  <2>2. /\ symbols' \subseteq ToSet(table') /\ resolving' \subseteq ToSet(table')
        /\ stubs' \in 0..MaxStubs /\ UNCHANGED <<todo, faults>>
    BY <1>1, <1>2, <2>1, PricesAssumption DEF NewStub
  <2> QED
    BY <1>1, <2>1, <2>2 DEF PricesTypeOK, TableOK, TodoOK, TodoRows, FreshLast
<1>3. ASSUME RolledBack(r)
      PROVE  PricesTypeOK' /\ ToSet(table') = ToSet(table) \ {r}
  <2>1. TableOK' /\ ToSet(table') = ToSet(table) \ {r}
    BY <1>1, <1>3, RollBackKeeps DEF RolledBack
  <2>2. faults' \in 0..MaxFaults
    BY <1>1, <1>3, FaultsBounded DEF RolledBack
  <2>3. /\ symbols' \subseteq ToSet(table') /\ resolving' \subseteq ToSet(table')
        /\ UNCHANGED <<todo, stubs>>
    BY <1>1, <1>3, <2>1 DEF RolledBack
  <2> QED
    BY <1>1, <2>1, <2>2, <2>3 DEF PricesTypeOK, TableOK, TodoOK, TodoRows, FreshLast
<1> QED
  BY <1>2, <1>3

LEMMA FaultStep ==
  ASSUME PricesTypeOK, Fault \/ UNCHANGED faults, UNCHANGED <<table, fresh, symbols, stubs>>,
         \/ UNCHANGED <<todo, resolving>>
         \/ todo' = [c \in Chains |-> <<>>] /\ resolving' = {}
  PROVE  PricesTypeOK' /\ ToSet(table') = ToSet(table)
<1>1. /\ TableOK /\ TodoOK /\ symbols \subseteq ToSet(table) /\ resolving \subseteq ToSet(table)
      /\ stubs \in 0..MaxStubs /\ faults \in 0..MaxFaults
  BY PricesTypeIs
<1>2. faults' \in 0..MaxFaults
  BY <1>1, FaultsBounded
<1>3. TodoOK'
  <2>1. CASE UNCHANGED <<todo, resolving>>
    BY <1>1, <2>1 DEF TodoOK
  <2>2. CASE todo' = [c \in Chains |-> <<>>] /\ resolving' = {}
    <3>1. <<>> \in TodoRows /\ DOMAIN <<>> = {}
      BY DEF TodoRows
    <3>2. \A c \in Chains : DOMAIN todo'[c] = {}
      BY <2>2, <3>1
    <3> QED
      BY <2>2, <3>1, <3>2 DEF TodoOK
  <2> QED
    BY <2>1, <2>2
<1> QED
  BY <1>1, <1>2, <1>3 DEF PricesTypeOK, TableOK, TodoOK, TodoRows, FreshLast

(* A row that is written is a row of settings, and leaves the others.      *)
SettingsOK == DOMAIN settings \subseteq Keys /\ Range(settings) \subseteq SettingsType
NetworksOK == DOMAIN networks \subseteq Rows /\ Range(networks) \subseteq BOOLEAN
RequestsOK ==
  /\ reqs \in [Requests -> RequestType]
  /\ \A q \in Requests :
       reqs[q].pc \in {"has", "read", "write"} => reqs[q].change \in Changes

LEMMA OverIsTyped ==
  ASSUME NEW D, NEW T, NEW new, NEW old,
         DOMAIN new \subseteq D, \A x \in DOMAIN new : new[x] \in T,
         DOMAIN old \subseteq D, Range(old) \subseteq T
  PROVE  DOMAIN Over(new, old) \subseteq D /\ Range(Over(new, old)) \subseteq T
<1>1. DOMAIN Over(new, old) = DOMAIN new \union DOMAIN old
  BY DEF Over
<1>2. \A x \in DOMAIN old : old[x] \in T
  BY DEF Range
<1>3. \A x \in DOMAIN Over(new, old) : Over(new, old)[x] \in T
  BY <1>2 DEF Over
<1> QED
  BY <1>1, <1>3 DEF Range

LEMMA DefaultIsTyped == Default \in SettingsType
BY DEF Default, SettingsType

LEMMA KeysOfRows == \A r \in Rows : KeyOf(r) \in Keys
BY DEF KeyOf, Keys

(* A request goes on, and its key and what it has to write stay typed. *)
LEMMA AtIsTyped ==
  ASSUME NEW pc \in {"none", "has", "read", "write", "ensure", "networks", "done"}
  PROVE  At(pc) \in RequestType /\ At(pc).pc = pc
BY DefaultIsTyped DEF At, RequestType, Keys

LEMMA RequestSet ==
  ASSUME RequestsOK, NEW q \in Requests, NEW req \in RequestType,
         req.pc \in {"has", "read", "write"} => req.change \in Changes,
         reqs' = [reqs EXCEPT ![q] = req]
  PROVE  RequestsOK'
<1>1. reqs' \in [Requests -> RequestType] /\ reqs'[q] = req
      /\ \A p \in Requests : p # q => reqs'[p] = reqs[p]
  BY DEF RequestsOK
<1> QED
  BY <1>1 DEF RequestsOK

LEMMA GoneOn ==
  ASSUME RequestsOK, NEW q \in Requests, NEW pc \in {"ensure", "networks", "done"}, Goto(q, pc)
  PROVE  RequestsOK'
<1>1. At(pc) \in RequestType /\ At(pc).pc = pc
  BY AtIsTyped
<1> QED
  BY <1>1, RequestSet DEF Goto

LEMMA TypeOKIs ==
  TypeOK <=> /\ PricesTypeOK /\ held \subseteq ToSet(table) /\ on \in BOOLEAN
             /\ SettingsOK /\ NetworksOK /\ RequestsOK
BY DEF TypeOK, SettingsOK, NetworksOK, RequestsOK

(* One statement of a request, UPSERT or INSERT, in the tables. *)
LEMMA WriteIsTyped ==
  ASSUME TypeOK, NEW q \in Requests, Write(q)
  PROVE  SettingsOK' /\ UNCHANGED <<held, on, networks>>
<1>1. SettingsOK /\ RequestsOK /\ reqs[q] \in RequestType /\ reqs[q].change \in Changes
  BY TypeOKIs DEF RequestsOK, Write
<1>2. reqs[q].key \in Keys /\ reqs[q].read \in SettingsType
  BY <1>1 DEF RequestType
<1>3. Completed(q) \in SettingsType
  BY <1>1, <1>2, ChangesAssumption DEF Completed
<1> DEFINE new == [x \in {reqs[q].key} |-> Completed(q)]
<1>4. settings' = Over(new, settings)
  BY DEF Write, Put
<1>5. DOMAIN new \subseteq Keys /\ \A x \in DOMAIN new : new[x] \in SettingsType
  BY <1>2, <1>3
<1> HIDE DEF new
<1>6. DOMAIN Over(new, settings) \subseteq Keys /\ Range(Over(new, settings)) \subseteq SettingsType
  BY <1>1, <1>5, OverIsTyped DEF SettingsOK
<1> QED
  BY <1>4, <1>6 DEF SettingsOK, Write

LEMMA DefaultsAreTyped ==
  ASSUME TypeOK
  PROVE  /\ settings' = WithDefaults => SettingsOK'
         /\ networks' = NetworksWithDefaults => NetworksOK'
<1>1. SettingsOK /\ NetworksOK /\ held \subseteq ToSet(table) /\ ToSet(table) \subseteq Rows
  <2>1. table \in Seq(Rows)
    BY TypeOKIs, PricesTypeIs DEF TableOK
  <2>2. ToSet(table) \subseteq Rows
    BY <2>1 DEF ToSet
  <2> QED
    BY <2>2, TypeOKIs
<1> DEFINE rows == [k \in HeldKeys |-> Default]
           nets == [r \in held |-> TRUE]
<1>2. DOMAIN settings \subseteq Keys /\ \A x \in DOMAIN settings : settings[x] \in SettingsType
  BY <1>1 DEF SettingsOK, Range
<1>3. DOMAIN networks \subseteq Rows /\ \A x \in DOMAIN networks : networks[x] \in BOOLEAN
  BY <1>1 DEF NetworksOK, Range
<1>4. DOMAIN rows \subseteq Keys /\ Range(rows) \subseteq SettingsType
  BY <1>1, KeysOfRows, DefaultIsTyped DEF HeldKeys, Range
<1>5. DOMAIN nets \subseteq Rows /\ Range(nets) \subseteq BOOLEAN
  BY <1>1 DEF Range
<1>6. settings' = WithDefaults => settings' = Over(settings, rows)
  BY DEF WithDefaults
<1>7. networks' = NetworksWithDefaults => networks' = Over(networks, nets)
  BY DEF NetworksWithDefaults
<1> HIDE DEF rows, nets
<1>8. DOMAIN Over(settings, rows) \subseteq Keys /\ Range(Over(settings, rows)) \subseteq SettingsType
  BY <1>2, <1>4, OverIsTyped
<1>9. DOMAIN Over(networks, nets) \subseteq Rows /\ Range(Over(networks, nets)) \subseteq BOOLEAN
  BY <1>3, <1>5, OverIsTyped
<1> QED
  BY <1>6, <1>7, <1>8, <1>9 DEF SettingsOK, NetworksOK

LEMMA NetworkIsTyped ==
  ASSUME TypeOK, NEW r \in Rows, NEW b \in BOOLEAN, networks' = Put(r, b, networks)
  PROVE  NetworksOK'
<1> DEFINE new == [x \in {r} |-> b]
<1>1. networks' = Over(new, networks)
  BY DEF Put
<1>2. DOMAIN new \subseteq Rows /\ \A x \in DOMAIN new : new[x] \in BOOLEAN
  OBVIOUS
<1> HIDE DEF new
<1>3. DOMAIN Over(new, networks) \subseteq Rows /\ Range(Over(new, networks)) \subseteq BOOLEAN
  BY <1>2, OverIsTyped, TypeOKIs DEF NetworksOK
<1> QED
  BY <1>1, <1>3 DEF NetworksOK

LEMMA RequestTyped ==
  ASSUME TypeOK, NEW q \in Requests, Request(q)
  PROVE  TypeOK'
<1>1. /\ PricesTypeOK /\ held \subseteq ToSet(table) /\ on \in BOOLEAN
      /\ SettingsOK /\ NetworksOK /\ RequestsOK
      /\ reqs[q] \in RequestType
  BY TypeOKIs DEF RequestsOK
<1>2. ASSUME UNCHANGED prices, held' \subseteq held, on' \in BOOLEAN, SettingsOK',
             NetworksOK', RequestsOK'
      PROVE  TypeOK'
  <2>1. PricesTypeOK' /\ table' = table
    BY <1>1, <1>2 DEF prices, PricesTypeOK
  <2> QED
    BY <1>1, <1>2, <2>1 DEF TypeOK, SettingsOK, NetworksOK, RequestsOK
<1>3. UNCHANGED settings => SettingsOK'
  BY <1>1 DEF SettingsOK
<1>4. UNCHANGED networks => NetworksOK'
  BY <1>1 DEF NetworksOK
<1>5. CASE BeginUpsert(q)
  <2>1. PICK k \in AskedKeys, change \in Changes :
          reqs' = [reqs EXCEPT ![q] = [At("has") EXCEPT !.key = k, !.change = change]]
    BY <1>5 DEF BeginUpsert
  <2> DEFINE req == [At("has") EXCEPT !.key = k, !.change = change]
  <2>2. req \in RequestType /\ req.change \in Changes
    BY SettingsAssumption, AtIsTyped DEF RequestType, Keys, At
  <2> HIDE DEF req
  <2>3. RequestsOK'
    BY <1>1, <2>1, <2>2, RequestSet DEF req
  <2> QED
    BY <1>1, <1>2, <1>3, <1>4, <1>5, <2>3 DEF BeginUpsert, tables
<1>6. CASE Has(q)
  <2>1. CASE reqs[q].key \in HeldKeys
    <3> DEFINE req == [reqs[q] EXCEPT !.pc = "read"]
    <3>1. req \in RequestType /\ req.change = reqs[q].change /\ reqs[q].change \in Changes
      BY <1>1, <1>6 DEF RequestType, Has, RequestsOK
    <3>2. reqs' = [reqs EXCEPT ![q] = req]
      BY <1>1, <1>6, <2>1 DEF Has, RequestsOK
    <3> HIDE DEF req
    <3>3. RequestsOK'
      BY <1>1, <3>1, <3>2, RequestSet
    <3> QED
      BY <1>1, <1>2, <1>3, <1>4, <1>6, <3>3 DEF Has, tables
  <2>2. CASE reqs[q].key \notin HeldKeys
    <3>1. RequestsOK'
      BY <1>1, <1>6, <2>2, GoneOn DEF Has
    <3> QED
      BY <1>1, <1>2, <1>3, <1>4, <1>6, <3>1 DEF Has, tables
  <2> QED
    BY <2>1, <2>2
<1>7. CASE ReadSettings(q)
  <2> DEFINE k == reqs[q].key
             row == IF k \in DOMAIN settings THEN settings[k] ELSE Default
             req == [reqs[q] EXCEPT !.pc = "write", !.read = row]
  <2>1. row \in SettingsType
    BY <1>1, DefaultIsTyped DEF SettingsOK, Range
  <2>2. reqs' = [reqs EXCEPT ![q].pc = "write", ![q].read = row]
    BY <1>7 DEF ReadSettings
  <2> HIDE DEF row, k
  <2>3. req \in RequestType /\ req.change = reqs[q].change /\ reqs[q].change \in Changes
    BY <1>1, <1>7, <2>1 DEF RequestType, ReadSettings, RequestsOK
  <2>4. reqs' = [reqs EXCEPT ![q] = req]
    BY <1>1, <2>2 DEF RequestsOK
  <2> HIDE DEF req
  <2>5. RequestsOK'
    BY <1>1, <2>3, <2>4, RequestSet
  <2> QED
    BY <1>1, <1>2, <1>3, <1>4, <1>7, <2>5 DEF ReadSettings, tables
<1>8. CASE WriteSettings(q)
  BY <1>1, <1>2, <1>4, <1>8, WriteIsTyped, GoneOn DEF WriteSettings
<1>9. CASE EnsureSettings(q)
  BY <1>1, <1>2, <1>4, <1>9, DefaultsAreTyped, GoneOn DEF EnsureSettings
<1>10. CASE EnsureNetworks(q)
  BY <1>1, <1>2, <1>3, <1>10, DefaultsAreTyped, GoneOn DEF EnsureNetworks
<1>11. CASE SetNetwork(q)
  <2>1. PICK r \in AskedRows, b \in BOOLEAN : networks' = Put(r, b, networks)
    BY <1>11 DEF SetNetwork
  <2>2. NetworksOK'
    BY <2>1, SettingsAssumption, NetworkIsTyped
  <2> QED
    BY <1>1, <1>2, <1>3, <1>11, <2>2, GoneOn DEF SetNetwork
<1>12. CASE Toggle(q)
  <2>1. on' \in BOOLEAN /\ (Goto(q, "ensure") \/ Goto(q, "done"))
    BY <1>12 DEF Toggle
  <2> QED
    BY <1>1, <1>2, <1>3, <1>4, <1>12, <2>1, GoneOn DEF Toggle
<1>13. CASE StatementFails(q)
  <2>1. PricesTypeOK' /\ table' = table
    BY <1>1, <1>13, FaultStep DEF StatementFails
  <2>2. RequestsOK'
    BY <1>1, <1>13, GoneOn DEF StatementFails
  <2>3. SettingsOK' /\ NetworksOK' /\ UNCHANGED <<held, on>>
    BY <1>1, <1>3, <1>4, <1>13, WriteIsTyped DEF StatementFails, tables
  <2> QED
    BY <1>1, <2>1, <2>2, <2>3 DEF TypeOK, SettingsOK, NetworksOK, RequestsOK
<1>14. CASE Sell(q)
  BY <1>1, <1>2, <1>3, <1>4, <1>14, GoneOn DEF Sell
<1> QED
  BY <1>5, <1>6, <1>7, <1>8, <1>9, <1>10, <1>11, <1>12, <1>13, <1>14 DEF Request

LEMMA TypeStep ==
  ASSUME TypeOK, [Next]_vars
  PROVE  TypeOK'
<1>1. /\ PricesTypeOK /\ held \subseteq ToSet(table) /\ on \in BOOLEAN
      /\ SettingsOK /\ NetworksOK /\ RequestsOK
  BY TypeOKIs
<1>2. ASSUME PricesTypeOK', held' \subseteq ToSet(table'), UNCHANGED <<on, settings, networks>>,
             RequestsOK'
      PROVE  TypeOK'
  BY <1>1, <1>2 DEF TypeOK, SettingsOK, NetworksOK, RequestsOK
<1>3. UNCHANGED reqs => RequestsOK'
  BY <1>1 DEF RequestsOK
<1>4. CASE \E q \in Requests : Request(q)
  BY <1>4, RequestTyped
<1>5. ASSUME NEW r \in Rows, AddHolding(r) \/ RollBackHolding(r)
      PROVE  TypeOK'
  <2>1. CASE AddHolding(r)
    <3>1. PricesTypeOK' /\ ToSet(table') = ToSet(table) \union {r}
      BY <1>1, <2>1, StubsStep DEF AddHolding
    <3> QED
      BY <1>1, <1>2, <1>3, <2>1, <3>1 DEF AddHolding
  <2>2. CASE RollBackHolding(r)
    <3>1. PricesTypeOK' /\ ToSet(table') = ToSet(table) \ {r}
      BY <1>1, <2>2, StubsStep DEF RollBackHolding
    <3> QED
      BY <1>1, <1>2, <1>3, <2>2, <3>1 DEF RollBackHolding
  <2> QED
    BY <1>5, <2>1, <2>2
<1>6. CASE PricesNext /\ UNCHANGED <<tables, reqs, chosen, clean>>
  <2>1. PricesTypeOK' /\ ToSet(table') = ToSet(table)
    BY <1>1, <1>6, PricesStep
  <2> QED
    BY <1>1, <1>2, <1>3, <1>6, <2>1 DEF tables
<1>7. CASE Restart
  <2>1. PricesTypeOK' /\ ToSet(table') = ToSet(table)
    BY <1>1, <1>7, FaultStep DEF Restart, PricesRestart
  <2> DEFINE pc(q) == IF reqs[q].pc = "none" THEN "none" ELSE "done"
  <2>2. \A q \in Requests : At(pc(q)) \in RequestType /\ At(pc(q)).pc = pc(q)
    BY AtIsTyped
  <2>3. reqs' = [q \in Requests |-> At(pc(q))]
    BY <1>7 DEF Restart
  <2>4. RequestsOK'
    BY <2>2, <2>3 DEF RequestsOK
  <2> QED
    BY <1>1, <1>2, <1>7, <2>1, <2>4 DEF Restart, tables
<1>8. CASE UNCHANGED vars
  <2>1. PricesTypeOK' /\ UNCHANGED <<table, tables, reqs>>
    BY <1>1, <1>8 DEF PricesTypeOK, vars, prices
  <2> QED
    BY <1>1, <1>2, <1>3, <2>1 DEF tables
<1> QED
  BY <1>4, <1>5, <1>6, <1>7, <1>8 DEF Next

LEMMA TypeInit ==
  ASSUME Init
  PROVE  TypeOK
<1>1. TableOK /\ ToSet(table) = ToSet(Stored)
  BY PricesAssumption DEF Init, PricesInit, TableOK, FreshLast
<1>2. TodoOK
  <2>1. <<>> \in TodoRows /\ DOMAIN <<>> = {}
    BY DEF TodoRows
  <2>2. \A c \in Chains : todo[c] = <<>>
    BY DEF Init, PricesInit
  <2> QED
    BY <2>1, <2>2 DEF Init, PricesInit, TodoOK
<1>3. stubs \in 0..MaxStubs /\ faults \in 0..MaxFaults
  BY PricesAssumption DEF Init, PricesInit
<1>4. PricesTypeOK
  BY <1>1, <1>2, <1>3, PricesTypeIs DEF Init, PricesInit
<1>5. SettingsOK /\ NetworksOK
  <2>1. DOMAIN <<>> = {} /\ Range(<<>>) = {}
    BY DEF Range
  <2> QED
    BY <2>1 DEF Init, SettingsOK, NetworksOK
<1>6. RequestsOK
  <2>1. At("none") \in RequestType /\ At("none").pc = "none"
    BY AtIsTyped
  <2> QED
    BY <2>1 DEF Init, RequestsOK
<1> QED
  BY <1>1, <1>4, <1>5, <1>6, TypeOKIs, SettingsAssumption DEF Init

(* The list of assets is read contract by contract, of an asset at a time; *)
(* any contract of it stands for its switches.                             *)
LEMMA ShownAgrees ==
  \A r \in held : /\ Subscribed(r) <=> r \in Shown(KeyOf(r)).tracked
                  /\ Subscribed(r) => (DailyReport(r) <=> Shown(KeyOf(r)).daily)
<1> SUFFICES ASSUME NEW r \in held
             PROVE  /\ Subscribed(r) <=> r \in Shown(KeyOf(r)).tracked
                    /\ Subscribed(r) => (DailyReport(r) <=> Shown(KeyOf(r)).daily)
  OBVIOUS
<1> DEFINE k == KeyOf(r)
           rows == {x \in held : KeyOf(x) = k}
           first == CHOOSE x \in rows : TRUE
<1>1. first \in rows /\ r \in rows
  OBVIOUS
<1>2. KeyOf(first) = k
  BY <1>1
<1> HIDE DEF first
<1>3. /\ Shown(k).tracked = {x \in rows : (on /\ OrDefault(KeyOf(first)).enabled) /\ NetworkOn(x)}
      /\ Shown(k).daily = OrDefault(KeyOf(first)).daily
  BY DEF Shown, first
<1>4. r \in Shown(k).tracked <=> on /\ OrDefault(k).enabled /\ NetworkOn(r)
  BY <1>1, <1>2, <1>3
<1>5. Subscribed(r) <=> on /\ OrDefault(k).enabled /\ NetworkOn(r)
  BY DEF Subscribed
<1>6. DailyReport(r) <=> Subscribed(r) /\ OrDefault(k).daily
  BY DEF DailyReport, OrDefault, Default
<1> QED
  BY <1>2, <1>3, <1>4, <1>5, <1>6

(* Which contracts the alert loop follows, and which reports are written,  *)
(* are those the list of assets shows, whichever rows of settings,         *)
(* networks and symbols are there (DB_LoadPortfolioTokenSubscriptions,     *)
(* HandleGetPortfolioAssets); and all tables hold what their columns may.  *)
THEOREM ReadersAgreeHolds == Spec => []ReadersAgree
<1>1. TypeOK => ReadersAgree
  BY ShownAgrees DEF ReadersAgree
<1>2. Init => TypeOK
  BY TypeInit
<1>3. TypeOK /\ [Next]_vars => TypeOK'
  BY TypeStep
<1> QED
  BY <1>1, <1>2, <1>3, PTL DEF Spec

(* A symbol that is known stays known, in any step of the daemons, the     *)
(* goroutines, the requests and the process, unless its row goes or a      *)
(* daemon has it in hand as it was before (DB_UpdateTokenPrice).           *)
THEOREM SettledSymbolStaysHolds == Spec => SettledSymbolStays
<1> DEFINE Settled(r) == \A c \in Chains : \A i \in DOMAIN todo[c] :
                           todo[c][i].row = r => todo[c][i].symbol
           Stays == \A r \in symbols : Settled(r) => r \in symbols' \/ r \notin ToSet(table')
<1>1. ASSUME TypeOK, Next
      PROVE  Stays
  <2>1. SUFFICES ASSUME NEW r \in symbols, Settled(r), r \notin symbols'
                 PROVE  r \notin ToSet(table')
    OBVIOUS
  <2> HIDE DEF Settled
  <2>2. CASE \E q \in Requests : Request(q)
    <3>1. UNCHANGED symbols
      BY <2>2 DEF Request, BeginUpsert, Has, ReadSettings, WriteSettings, EnsureSettings,
                  EnsureNetworks, SetNetwork, Toggle, StatementFails, Sell, prices
    <3> QED
      BY <2>1, <3>1
  <2>3. CASE \E x \in Rows : AddHolding(x) \/ RollBackHolding(x)
    <3>1. PICK x \in Rows : AddHolding(x) \/ RollBackHolding(x)
      BY <2>3
    <3>2. RollBackHolding(x) /\ symbols' = symbols \ {x}
      BY <2>1, <3>1 DEF AddHolding, NewStub, RollBackHolding, RolledBack
    <3>3. ToSet(table') = ToSet(table) \ {x}
      BY <1>1, <3>2, StubsStep, TypeOKIs DEF RollBackHolding
    <3> QED
      BY <2>1, <3>2, <3>3
  <2>4. CASE PricesNext
    <3>1. PICK c \in Chains : Update(c)
      BY <2>1, <2>4 DEF PricesNext, Age, Resolved, Daemon, Tick, RefreshSingleToken, Skip, Touch,
                        LookupFails
    <3>2. 1 \in DOMAIN todo[c] /\ todo[c][1] = Now(c)
      <4>1. todo[c] \in TodoRows /\ todo[c] # <<>>
        BY <1>1, <3>1, TypeOKIs, PricesTypeIs DEF TodoOK, Update, Handled
      <4> QED
        BY <4>1 DEF TodoRows, Now
    <3>3. Now(c).row = r => Now(c).symbol
      BY <2>1, <3>2 DEF Settled
    <3> QED
      BY <2>1, <3>1, <3>3 DEF Update
  <2>5. CASE Restart
    BY <2>1, <2>5 DEF Restart, PricesRestart
  <2> QED
    BY <1>1, <2>2, <2>3, <2>4, <2>5 DEF Next
<1>2. ASSUME TypeOK, [Next]_vars
      PROVE  [Stays]_prices
  BY <1>1, <1>2 DEF vars
<1>3. Init => TypeOK
  BY TypeInit
<1>4. TypeOK /\ [Next]_vars => TypeOK'
  BY TypeStep
<1> HIDE DEF Stays
<1>5. TypeOK /\ [Next]_vars => [Stays]_prices
  BY <1>2
<1>6. Spec => [][Stays]_prices
  BY <1>3, <1>4, <1>5, PTL DEF Spec
<1> QED
  BY <1>6 DEF SettledSymbolStays, Stays

(* What users have chosen of an asset holds, whatever the daemons, the     *)
(* defaults, failures and restarts do, as long as no two requests for it   *)
(* run at a time (HandleUpsertPortfolioAssetTracking).                     *)
THEOREM ChoiceHoldsAlways == Spec => []ChoiceHolds
<1>1. ChoiceInv => ChoiceHolds
  BY DEF ChoiceInv
<1> QED
  BY <1>1, ChoiceInvInit, ChoiceInvStep, PTL DEF Spec

(* Writing the defaults for all assets and contracts of a portfolio        *)
(* changes neither whom the alert loop finds nor which reports are written *)
(* (EnsurePortfolioAssetTrackingDefaults).                                 *)
THEOREM DefaultsAreImplicitHolds == Spec => DefaultsAreImplicit
<1>1. ASSUME NEW q \in Requests, EnsureSettings(q)
      PROVE  View' = View
  <2>1. UNCHANGED <<held, on, networks, symbols>>
    BY <1>1 DEF EnsureSettings, prices
  <2>2. \A k : OrDefault(k)' = OrDefault(k)
    BY <1>1 DEF EnsureSettings, WithDefaults, Over, OrDefault
  <2>3. \A r : KeyOf(r)' = KeyOf(r) /\ NetworkOn(r)' = NetworkOn(r)
    BY <2>1 DEF KeyOf, NetworkOn
  <2>4. \A k : (k \in DOMAIN settings /\ settings[k].daily)' <=> OrDefault(k)'.daily
    BY <1>1 DEF EnsureSettings, OrDefault, Default
  <2> QED
    BY <2>1, <2>2, <2>3, <2>4 DEF View, Subscribed, DailyReport, OrDefault, Default
<1>2. ASSUME NEW q \in Requests, EnsureNetworks(q)
      PROVE  View' = View
  <2>1. UNCHANGED <<held, on, settings, symbols>>
    BY <1>2 DEF EnsureNetworks, prices
  <2>2. \A r \in held : NetworkOn(r)' = NetworkOn(r)
    BY <1>2 DEF EnsureNetworks, NetworksWithDefaults, Over, NetworkOn
  <2> QED
    BY <2>1, <2>2 DEF View, Subscribed, DailyReport, OrDefault, KeyOf
<1>3. [Next]_vars =>
        [(\E q \in Requests : EnsureSettings(q) \/ EnsureNetworks(q)) => View' = View]_vars
  BY <1>1, <1>2
<1> QED
  BY <1>3, PTL DEF Spec, DefaultsAreImplicit
=============================================================================
