--------------------------- MODULE Jackery_proofs ---------------------------
(***************************************************************************)
(* JackInv for every configuration, number of slots and plugs, and length  *)
(* of reports.  That two slots never stand for the same plug rests on      *)
(* plugs_ naming no plug twice; this is shown by induction over the items  *)
(* of a report, for which the function that takes them one by one has to   *)
(* be shown to exist.                                                      *)
(***************************************************************************)
EXTENDS Jackery, SequenceTheorems, FiniteSetTheorems, WellFoundedInduction, TLAPS

-----------------------------------------------------------------------------
(* Lists of plugs.                                                         *)

Plug(c) == [sn : c.plugs, on : {0, 1}, mode : {-1, 1}, fresh : BOOLEAN]
Bound(c) == [sn : c.plugs, on : {0, 1}]

\* No plug is in the list twice.
Distinct(plugs) == \A k, m \in DOMAIN plugs : plugs[k].sn = plugs[m].sn => k = m
PlugList(c, plugs) == plugs \in Seq(Plug(c)) /\ Distinct(plugs)

LEMMA FindOK ==
  ASSUME NEW plugs, NEW sn \in SnsOf(plugs)
  PROVE  Find(plugs, sn) \in DOMAIN plugs /\ plugs[Find(plugs, sn)].sn = sn
<1>1. \E k \in DOMAIN plugs : plugs[k].sn = sn
  BY DEF SnsOf, Range
<1> QED
  BY <1>1 DEF Find

LEMMA SubSeqOK ==
  ASSUME NEW S, NEW s \in Seq(S), NEW n \in 0..Len(s)
  PROVE  /\ SubSeq(s, 1, n) \in Seq(S) /\ Len(SubSeq(s, 1, n)) = n
         /\ \A i \in 1..n : SubSeq(s, 1, n)[i] = s[i]
<1>1. \A i \in 1..n : s[i] \in S
  BY ElementOfSeq, LenProperties
<1> QED
  BY <1>1, LenProperties, SubSeqProperties

LEMMA RemoveAtOK ==
  ASSUME NEW S, NEW s \in Seq(S), NEW i \in DOMAIN s
  PROVE  RemoveAt(s, i) \in Seq(S)
<1>1. i \in 1..Len(s) /\ Len(s) \in Nat
  BY LenProperties
<1>2. SubSeq(s, 1, i - 1) \in Seq(S)
  BY <1>1, SubSeqOK
<1>3. \A k \in (i + 1)..Len(s) : s[k] \in S
  BY <1>1, ElementOfSeq
<1>4. SubSeq(s, i + 1, Len(s)) \in Seq(S)
  BY <1>1, <1>3, SubSeqProperties
<1> QED
  BY <1>2, <1>4, ConcatProperties DEF RemoveAt

\* What is known of a plug is kept, the list names the same plugs as before.
LEMMA OverlaidOK ==
  ASSUME NEW c, NEW plugs, PlugList(c, plugs), NEW item \in Items(c), item.sn \in SnsOf(plugs)
  PROVE  PlugList(c, Overlaid(plugs, item)) /\ Len(Overlaid(plugs, item)) = Len(plugs)
<1> DEFINE k == Find(plugs, item.sn)
           p == Filled(plugs[k], item)
<1>1. k \in 1..Len(plugs) /\ DOMAIN plugs = 1..Len(plugs)
  BY FindOK, LenProperties DEF PlugList
<1>2. plugs[k] \in Plug(c)
  BY <1>1, ElementOfSeq DEF PlugList
<1>3. p \in Plug(c) /\ p.sn = plugs[k].sn
  BY <1>2 DEF Filled, Plug, Items
<1>4. Overlaid(plugs, item) = [plugs EXCEPT ![k] = p]
  BY DEF Overlaid
<1> HIDE DEF k, p
<1> DEFINE new == [plugs EXCEPT ![k] = p]
<1>5. new \in Seq(Plug(c)) /\ Len(new) = Len(plugs)
  BY <1>1, <1>3, ExceptSeq DEF PlugList
<1>6. DOMAIN new = DOMAIN plugs /\ \A m \in DOMAIN plugs : new[m].sn = plugs[m].sn
  BY <1>1, <1>3
<1> HIDE DEF new
<1>7. Distinct(new)
  BY <1>6 DEF PlugList, Distinct
<1> QED
  BY <1>4, <1>5, <1>7 DEF PlugList, new

LEMMA AppendedOK ==
  ASSUME NEW c, NEW plugs, PlugList(c, plugs), NEW item \in Items(c), item.sn \notin SnsOf(plugs)
  PROVE  /\ PlugList(c, Append(plugs, NewPlug(item)))
         /\ Len(Append(plugs, NewPlug(item))) = Len(plugs) + 1
<1> DEFINE p == NewPlug(item)
           new == Append(plugs, p)
<1>1. p \in Plug(c) /\ p.sn = item.sn
  BY DEF NewPlug, Plug, Items
<1> HIDE DEF p
<1>2. plugs \in Seq(Plug(c)) /\ Distinct(plugs)
  BY DEF PlugList
<1>3. /\ new \in Seq(Plug(c)) /\ Len(new) = Len(plugs) + 1 /\ Len(plugs) \in Nat
      /\ DOMAIN new = 1..(Len(plugs) + 1) /\ DOMAIN plugs = 1..Len(plugs)
      /\ new[Len(plugs) + 1] = p /\ \A m \in DOMAIN plugs : new[m] = plugs[m]
  BY <1>1, <1>2, LenProperties
<1> HIDE DEF new
<1>4. \A m \in DOMAIN plugs : plugs[m].sn # p.sn
  BY <1>1 DEF SnsOf, Range
<1>5. Distinct(new)
  BY <1>2, <1>3, <1>4 DEF Distinct
<1> QED
  BY <1>3, <1>5 DEF PlugList, new, p

\* One item keeps the list in order; only a full list grows beyond the bound.
LEMMA TakeItemOK ==
  ASSUME NEW c, NEW type \in {"list", "merge", "event"}, NEW plugs, PlugList(c, plugs),
         NEW item \in Items(c)
  PROVE  /\ PlugList(c, TakeItem(type, plugs, item))
         /\ type # "list" /\ Len(plugs) <= PlugCap => Len(TakeItem(type, plugs, item)) <= PlugCap
<1>1. Len(plugs) \in Nat /\ PlugCap \in Nat
  BY LenProperties, JackeryAssumption DEF PlugList
<1>2. CASE item.sn \in SnsOf(plugs)
  BY <1>1, <1>2, OverlaidOK DEF TakeItem, ListItem, upsert_plug_, Event
<1>3. CASE item.sn \notin SnsOf(plugs)
  BY <1>1, <1>3, AppendedOK DEF TakeItem, ListItem, upsert_plug_, Event
<1> QED
  BY <1>2, <1>3

\* The function that takes the items one by one.
After(f, n, type, plugs, items) ==
  f = [k \in 0..n |-> IF k = 0 THEN plugs ELSE TakeItem(type, f[k - 1], items[k])]

LEMMA AfterExists ==
  ASSUME NEW type, NEW plugs, NEW items, NEW n \in Nat
  PROVE  \E f : After(f, n, type, plugs, items)
<1> DEFINE fails == {m \in Nat : ~\E f : After(f, m, type, plugs, items)}
<1>1. SUFFICES ASSUME fails # {}
               PROVE  FALSE
  OBVIOUS
<1>2. PICK m \in fails : \A h \in fails : <<h, m>> \notin OpToRel(<, Nat)
  BY <1>1, NatLessThanWellFounded, WFMin
<1>3. m \in Nat /\ ~\E f : After(f, m, type, plugs, items)
  OBVIOUS
<1>4. CASE m = 0
  <2> DEFINE f == [k \in 0..0 |-> plugs]
  <2>1. After(f, 0, type, plugs, items)
    BY DEF After
  <2> QED
    BY <1>3, <1>4, <2>1
<1>5. CASE m # 0
  <2>1. m - 1 \in Nat /\ m - 1 < m
    BY <1>3, <1>5
  <2>2. <<m - 1, m>> \in OpToRel(<, Nat)
    BY <1>3, <2>1 DEF OpToRel
  <2>3. m - 1 \notin fails
    BY <1>2, <2>2
  <2>4. PICK f : After(f, m - 1, type, plugs, items)
    BY <2>1, <2>3
  <2> DEFINE g == [k \in 0..m |-> IF k = m THEN TakeItem(type, f[m - 1], items[m]) ELSE f[k]]
  <2>5. \A k \in 0..(m - 1) : g[k] = f[k]
    BY <1>3
  <2>6. \A k \in 0..(m - 1) :
          f[k] = IF k = 0 THEN plugs ELSE TakeItem(type, f[k - 1], items[k])
    BY <2>4 DEF After
  <2>7. \A k \in 0..m : g[k] = IF k = 0 THEN plugs ELSE TakeItem(type, g[k - 1], items[k])
    <3> SUFFICES ASSUME NEW k \in 0..m
                 PROVE  g[k] = IF k = 0 THEN plugs ELSE TakeItem(type, g[k - 1], items[k])
      OBVIOUS
    <3>1. CASE k = m
      BY <1>3, <1>5, <2>1, <2>5, <3>1
    <3>2. CASE k # m
      <4>1. k \in 0..(m - 1) /\ (k # 0 => k - 1 \in 0..(m - 1))
        BY <1>3, <3>2
      <4> HIDE DEF g
      <4> QED
        BY <2>5, <2>6, <4>1
    <3> QED
      BY <3>1, <3>2
  <2>8. g = [k \in 0..m |-> g[k]]
    OBVIOUS
  <2> HIDE DEF g
  <2>9. After(g, m, type, plugs, items)
    BY <2>7, <2>8 DEF After
  <2> QED
    BY <1>3, <2>9
<1> QED
  BY <1>4, <1>5

LEMMA TakeItemsDef ==
  ASSUME NEW type, NEW plugs, NEW items, Len(items) \in Nat
  PROVE  \E f : /\ After(f, Len(items), type, plugs, items)
                /\ TakeItems(type, plugs, items) = f[Len(items)]
<1> DEFINE after == CHOOSE f : After(f, Len(items), type, plugs, items)
<1>1. TakeItems(type, plugs, items) = after[Len(items)]
  BY DEF TakeItems, After
<1>2. After(after, Len(items), type, plugs, items)
  BY AfterExists
<1> QED
  BY <1>1, <1>2

\* The items of a report keep the list in order.
LEMMA TakeItemsOK ==
  ASSUME NEW c, NEW type \in {"list", "merge", "event"}, NEW plugs, PlugList(c, plugs),
         NEW items \in Seq(Items(c))
  PROVE  /\ PlugList(c, TakeItems(type, plugs, items))
         /\ type # "list" /\ Len(plugs) <= PlugCap => Len(TakeItems(type, plugs, items)) <= PlugCap
<1> DEFINE Good(q) == /\ PlugList(c, q)
                      /\ type # "list" /\ Len(plugs) <= PlugCap => Len(q) <= PlugCap
<1>1. Len(items) \in Nat /\ \A k \in 1..Len(items) : items[k] \in Items(c)
  BY LenProperties, ElementOfSeq
<1>2. PICK f : /\ After(f, Len(items), type, plugs, items)
               /\ TakeItems(type, plugs, items) = f[Len(items)]
  BY <1>1, TakeItemsDef
<1>3. \A k \in 0..Len(items) :
        f[k] = IF k = 0 THEN plugs ELSE TakeItem(type, f[k - 1], items[k])
  BY <1>2 DEF After
<1> DEFINE bad == {k \in 0..Len(items) : ~Good(f[k])}
<1>4. bad = {}
  <2>1. SUFFICES ASSUME bad # {}
                 PROVE  FALSE
    OBVIOUS
  <2>2. bad \subseteq Nat
    BY <1>1
  <2>3. PICK m \in bad : \A h \in bad : <<h, m>> \notin OpToRel(<, Nat)
    BY <2>1, <2>2, NatLessThanWellFounded, WFMin
  <2>4. m \in 0..Len(items) /\ ~Good(f[m])
    OBVIOUS
  <2>5. m # 0
    BY <1>3, <2>4
  <2>6. m - 1 \in 0..Len(items) /\ m - 1 \in Nat /\ m \in Nat /\ m - 1 < m /\ m \in 1..Len(items)
    BY <1>1, <2>4, <2>5
  <2>7. <<m - 1, m>> \in OpToRel(<, Nat)
    BY <2>6 DEF OpToRel
  <2>8. Good(f[m - 1])
    BY <2>3, <2>6, <2>7
  <2>9. f[m] = TakeItem(type, f[m - 1], items[m]) /\ items[m] \in Items(c)
    BY <1>1, <1>3, <2>4, <2>5, <2>6
  <2>10. Good(f[m])
    BY <2>8, <2>9, TakeItemOK
  <2> QED
    BY <2>4, <2>10
<1> QED
  BY <1>1, <1>2, <1>4

LEMMA EmptyList == \A c : PlugList(c, <<>>) /\ Len(<<>>) = 0
  BY EmptySeq DEF PlugList, Distinct

LEMMA FullListOK ==
  ASSUME NEW c, NEW items \in Seq(Items(c))
  PROVE  PlugList(c, FullList(items)) /\ Len(FullList(items)) <= PlugCap
<1> DEFINE all == TakeItems("list", <<>>, items)
           n == IF Len(all) < PlugCap THEN Len(all) ELSE PlugCap
           some == SubSeq(all, 1, n)
<1>1. FullList(items) = some
  BY DEF FullList
<1>2. PlugList(c, all)
  BY EmptyList, TakeItemsOK
<1> HIDE DEF all
<1>3. n \in 0..Len(all) /\ n <= PlugCap /\ DOMAIN all = 1..Len(all) /\ Len(all) \in Nat
  BY <1>2, LenProperties, JackeryAssumption DEF PlugList
<1> HIDE DEF n
<1>4. some \in Seq(Plug(c)) /\ Len(some) = n /\ \A i \in 1..n : some[i] = all[i]
  BY <1>2, <1>3, SubSeqOK DEF PlugList
<1> HIDE DEF some
<1>5. DOMAIN some = 1..n /\ 1..n \subseteq DOMAIN all
  BY <1>3, <1>4, LenProperties
<1>6. Distinct(some)
  BY <1>2, <1>4, <1>5 DEF PlugList, Distinct
<1> QED
  BY <1>1, <1>3, <1>4, <1>6 DEF PlugList

-----------------------------------------------------------------------------
(* Slots.                                                                  *)

LEMMA Ranks ==
  ASSUME NEW i \in Slots, NEW j \in Slots, j < i, config.pins[j] = 0
  PROVE  Rank(j) # Rank(i)
<1> DEFINE A(k) == {s \in Slots : s < k /\ config.pins[s] = 0}
<1>1. IsFiniteSet(Slots) /\ Slots \subseteq Int
  BY JackeryAssumption, FS_CardinalityType
<1>a. i \in Int /\ j \in Int /\ ~(j < j) /\ \A s \in Slots : s < j => s < i
  BY <1>1
<1>2. A(j) \subseteq A(i) /\ j \in A(i) /\ j \notin A(j)
  BY <1>a
<1>3. IsFiniteSet(A(i))
  BY <1>1, FS_Subset
<1>4. Cardinality(A(i)) # Cardinality(A(j))
  BY <1>2, <1>3, FS_Subset
<1> QED
  BY <1>4 DEF Rank

\* The plug of a slot is in the list; a pinned slot has its own plug, any other
\* the one that as many unpinned plugs precede as slots.
LEMMA SlotPlug ==
  ASSUME NEW plugs, NEW i \in Slots, NEW p \in slot_plug_(plugs, i)
  PROVE  \E k \in DOMAIN plugs :
           /\ p = plugs[k]
           /\ config.pins[i] # 0 => p.sn = config.pins[i]
           /\ config.pins[i] = 0 => /\ Unpinned(p)
                                    /\ Cardinality({m \in {h \in DOMAIN plugs : Unpinned(plugs[h])} : m < k})
                                         = Rank(i)
<1>1. CASE config.pins[i] # 0
  BY <1>1, FindOK DEF slot_plug_
<1>2. CASE config.pins[i] = 0
  BY <1>2 DEF slot_plug_
<1> QED
  BY <1>1, <1>2

LEMMA Apart ==
  ASSUME config \in Configs, PlugList(config, plugs_)
  PROVE  SlotsApart
<1> SUFFICES ASSUME NEW i \in Slots, NEW j \in Slots, i # j,
                    NEW p \in slot_plug_(plugs_, i), NEW q \in slot_plug_(plugs_, j), p.sn = q.sn
             PROVE  FALSE
  BY DEF SlotsApart
<1> DEFINE before(k) == Cardinality({m \in {h \in DOMAIN plugs_ : Unpinned(plugs_[h])} : m < k})
<1>1. PICK k \in DOMAIN plugs_ :
        /\ p = plugs_[k]
        /\ config.pins[i] # 0 => p.sn = config.pins[i]
        /\ config.pins[i] = 0 => Unpinned(p) /\ before(k) = Rank(i)
  BY SlotPlug
<1>2. PICK m \in DOMAIN plugs_ :
        /\ q = plugs_[m]
        /\ config.pins[j] # 0 => q.sn = config.pins[j]
        /\ config.pins[j] = 0 => Unpinned(q) /\ before(m) = Rank(j)
  BY SlotPlug
<1>3. k = m
  BY <1>1, <1>2 DEF PlugList, Distinct
<1> HIDE DEF before
<1>4. \A h \in Slots : (config.pins[h] = 0 => config.pins[h] # p.sn)
  <2>1. p \in Plug(config)
    BY <1>1, LenProperties, ElementOfSeq DEF PlugList
  <2>2. config.plugs \subseteq Nat \ {0}
    BY JackeryAssumption
  <2> QED
    BY <2>1, <2>2 DEF Plug
<1>5. CASE config.pins[i] = 0 /\ config.pins[j] = 0
  <2>1. Rank(i) = Rank(j)
    BY <1>1, <1>2, <1>3, <1>5
  <2>2. i \in Int /\ j \in Int
    BY JackeryAssumption, FS_CardinalityType
  <2>3. i < j \/ j < i
    BY <2>2
  <2> QED
    BY <1>5, <2>1, <2>3, Ranks
<1>6. CASE config.pins[i] # 0 /\ config.pins[j] # 0
  BY <1>1, <1>2, <1>6, JackeryAssumption
<1>7. CASE (config.pins[i] = 0) # (config.pins[j] = 0)
  BY <1>1, <1>2, <1>7 DEF Unpinned
<1> QED
  BY <1>5, <1>6, <1>7

-----------------------------------------------------------------------------
(* The parts of the state.                                                 *)

Reports(c) == [type : ReportTypes, fields : UNION {[g -> 0..Top] : g \in SUBSET Fields},
               items : Seq(Items(c))]
Commands(c) == [kind : Controls \cup {"reboot"}, value : 0..Top]
                 \cup [kind : {"plug"}, value : c.plugs \X {0, 1}]

BatteryOK(c, b) == b \in [fields : [Fields -> 0..Top], plugs : Seq(Bound(c))]
LinkOK(c, l) ==
  /\ l \in [conn : BOOLEAN, sub : BOOLEAN, poll : BOOLEAN, cmds : Seq(Commands(c)),
            up : Seq(Reports(c))]
  /\ Len(l.cmds) <= MaxCmds /\ Len(l.up) <= MaxUp
PlugsOK(c, plugs) == PlugList(c, plugs) /\ Len(plugs) <= PlugCap
FieldsOK(f) == f \in [Fields -> (0..Top) \cup {None}]
Hubs == [ever : BOOLEAN, online : BOOLEAN, dirty : BOOLEAN, poll_now : BOOLEAN,
         topic : {"yaml", "other"}, client : BOOLEAN, age : 0..2]
\* A range that was read uninitialised still has one reported end.
TraitsOK(t) == t \in Int \X Int /\ t[1] <= t[2] /\ t[1] <= Top /\ 0 <= t[2]
StatesOK(s) == s \in [Controls \cup {"sensor"} -> Int]
SlotsOK(c, pw, sw) ==
  /\ pw \in [Slots -> c.plugs \cup {None, NaN}]
  /\ sw \in [Slots -> [shown : {None, 0, 1}, last : {None, 0, 1}]]
OutOK(o) == o \in [want : {None, 0, 1}, sent : -1..Top, due : BOOLEAN]

\* The inductive invariant.
IInv ==
  /\ config \in Configs
  /\ BatteryOK(config, battery)
  /\ LinkOK(config, link)
  /\ clock \in BOOLEAN
  /\ FieldsOK(f_) /\ PlugsOK(config, plugs_)
  /\ hub \in Hubs
  /\ TraitsOK(traits) /\ StatesOK(shown) /\ StatesOK(last)
  /\ SlotsOK(config, power, plug_switch)
  /\ OutOK(out)

LEMMA Numbers == /\ Top \in Nat /\ Top > 0 /\ PlugCap \in Nat /\ PlugCap > 0
                 /\ MaxUp \in Nat /\ MaxUp > 0 /\ MaxCmds \in Nat /\ MaxCmds > 0
                 /\ DevLo \in 0..Top /\ DevHi \in 0..Top /\ Garbage \subseteq Int
                 /\ IsFiniteSet(Slots)
  BY JackeryAssumption

LEMMA InvEnough == IInv => JackInv
<1> SUFFICES ASSUME IInv
             PROVE  JackInv
  OBVIOUS
<1>1. SlotsApart
  BY Apart DEF IInv, PlugsOK
<1>2. /\ battery.fields \in [Fields -> 0..Top]
      /\ \A p \in Range(battery.plugs) : p.sn \in config.plugs /\ p.on \in {0, 1}
  <2>1. battery.plugs \in Seq(Bound(config)) /\ battery.fields \in [Fields -> 0..Top]
    BY DEF IInv, BatteryOK
  <2>2. \A p \in Range(battery.plugs) : p \in Bound(config)
    BY <2>1, LenProperties, ElementOfSeq DEF Range
  <2> QED
    BY <2>1, <2>2 DEF Bound
<1>3. /\ {link.conn, link.sub, link.poll} \subseteq BOOLEAN
      /\ Len(link.cmds) <= MaxCmds /\ Len(link.up) <= MaxUp
      /\ \A i \in DOMAIN link.up : link.up[i].type \in ReportTypes
  <2>1. link.up \in Seq(Reports(config))
    BY DEF IInv, LinkOK
  <2>2. \A i \in DOMAIN link.up : link.up[i] \in Reports(config)
    BY <2>1, LenProperties, ElementOfSeq
  <2> QED
    BY <2>2 DEF IInv, LinkOK, Reports
<1>4. /\ Len(plugs_) <= PlugCap
      /\ \A p \in Range(plugs_) : Item(p.sn, p.on, p.mode) \in Items(config) /\ p.fresh \in BOOLEAN
  <2>1. plugs_ \in Seq(Plug(config)) /\ Len(plugs_) <= PlugCap
    BY DEF IInv, PlugsOK, PlugList
  <2>2. \A p \in Range(plugs_) : p \in Plug(config)
    BY <2>1, LenProperties, ElementOfSeq DEF Range
  <2> QED
    BY <2>1, <2>2 DEF Plug, Item, Items
<1>5. {shown, last} \subseteq [Controls \cup {"sensor"} -> Int]
  BY DEF IInv, StatesOK
<1>6. out.want \in {None, 0, 1} /\ out.sent \in -1..Top /\ out.due \in BOOLEAN
  BY DEF IInv, OutOK
<1>7. JackTypeOK
  BY <1>2, <1>3, <1>4, <1>5, <1>6 DEF JackTypeOK, IInv, FieldsOK, Hubs, SlotsOK
<1> QED
  BY <1>1, <1>7 DEF JackInv

-----------------------------------------------------------------------------
(* The session.                                                            *)

LEMMA LinkFlags ==
  ASSUME NEW c, NEW l, LinkOK(c, l)
  PROVE  /\ LinkOK(c, [l EXCEPT !.poll = TRUE])
         /\ LinkOK(c, [l EXCEPT !.conn = TRUE])
         /\ LinkOK(c, [l EXCEPT !.sub = TRUE])
  BY DEF LinkOK

LEMMA LinkTails ==
  ASSUME NEW c, NEW l, LinkOK(c, l)
  PROVE  /\ l.up # <<>> => LinkOK(c, [l EXCEPT !.up = Tail(@)]) /\ Head(l.up) \in Reports(c)
         /\ l.cmds # <<>> => LinkOK(c, [l EXCEPT !.cmds = Tail(@)]) /\ Head(l.cmds) \in Commands(c)
<1>1. l.up \in Seq(Reports(c)) /\ l.cmds \in Seq(Commands(c))
  BY DEF LinkOK
<1>2. ASSUME l.up # <<>>
      PROVE  LinkOK(c, [l EXCEPT !.up = Tail(@)]) /\ Head(l.up) \in Reports(c)
  <2> DEFINE t == Tail(l.up)
  <2>1. Head(l.up) \in Reports(c) /\ t \in Seq(Reports(c)) /\ Len(t) <= MaxUp
    BY <1>1, <1>2, HeadTailProperties, LenProperties, Numbers DEF LinkOK
  <2> HIDE DEF t
  <2>2. LinkOK(c, [l EXCEPT !.up = t])
    BY <2>1 DEF LinkOK
  <2> QED
    BY <2>1, <2>2 DEF t
<1>3. ASSUME l.cmds # <<>>
      PROVE  LinkOK(c, [l EXCEPT !.cmds = Tail(@)]) /\ Head(l.cmds) \in Commands(c)
  <2> DEFINE t == Tail(l.cmds)
  <2>1. Head(l.cmds) \in Commands(c) /\ t \in Seq(Commands(c)) /\ Len(t) <= MaxCmds
    BY <1>1, <1>3, HeadTailProperties, LenProperties, Numbers DEF LinkOK
  <2> HIDE DEF t
  <2>2. LinkOK(c, [l EXCEPT !.cmds = t])
    BY <2>1 DEF LinkOK
  <2> QED
    BY <2>1, <2>2 DEF t
<1> QED
  BY <1>2, <1>3

LEMMA LinkCommand ==
  ASSUME NEW c, NEW l, LinkOK(c, l), NEW cmd \in Commands(c), Len(l.cmds) < MaxCmds
  PROVE  LinkOK(c, [l EXCEPT !.cmds = Append(@, cmd)])
<1> DEFINE s == Append(l.cmds, cmd)
<1>1. l.cmds \in Seq(Commands(c))
  BY DEF LinkOK
<1>2. s \in Seq(Commands(c)) /\ Len(s) <= MaxCmds
  BY <1>1, LenProperties, Numbers
<1> HIDE DEF s
<1>3. LinkOK(c, [l EXCEPT !.cmds = s])
  BY <1>2 DEF LinkOK
<1> QED
  BY <1>3 DEF s

LEMMA LinkReport ==
  ASSUME NEW c, NEW l, LinkOK(c, l), NEW r \in Reports(c), Len(l.up) < MaxUp
  PROVE  /\ LinkOK(c, [l EXCEPT !.up = Append(@, r)])
         /\ LinkOK(c, [l EXCEPT !.poll = FALSE, !.up = Append(@, r)])
<1> DEFINE s == Append(l.up, r)
<1>1. l.up \in Seq(Reports(c))
  BY DEF LinkOK
<1>2. s \in Seq(Reports(c)) /\ Len(s) <= MaxUp
  BY <1>1, LenProperties, Numbers
<1> HIDE DEF s
<1>3. LinkOK(c, [l EXCEPT !.up = s]) /\ LinkOK(c, [l EXCEPT !.poll = FALSE, !.up = s])
  BY <1>2 DEF LinkOK
<1> QED
  BY <1>3 DEF s

LEMMA LinkNone == \A c : LinkOK(c, NoSession)
<1> SUFFICES ASSUME NEW c
             PROVE  LinkOK(c, NoSession)
  OBVIOUS
<1>1. <<>> \in Seq(Commands(c)) /\ <<>> \in Seq(Reports(c)) /\ Len(<<>>) = 0
  BY EmptySeq
<1> QED
  BY <1>1, Numbers DEF LinkOK, NoSession

\* What the battery may report.
LEMMA ReportTyped ==
  ASSUME NEW c, NEW type \in ReportTypes, NEW items \in Seq(Items(c))
  PROVE  Report(type, <<>>, items) \in Reports(c)
<1>1. <<>> \in [{} -> 0..Top]
  OBVIOUS
<1>2. <<>> \in UNION {[g -> 0..Top] : g \in SUBSET Fields}
  BY <1>1
<1> QED
  BY <1>2 DEF Report, Reports

LEMMA MainTyped ==
  ASSUME NEW c \in Configs, BatteryOK(c, battery), NEW g \in c.groups
  PROVE  MainReport(g) \in Reports(c)
<1>1. g \in SUBSET Fields
  BY JackeryAssumption
<1> DEFINE r == [x \in g |-> battery.fields[x]]
<1>2. r \in [g -> 0..Top]
  BY <1>1 DEF BatteryOK
<1> HIDE DEF r
<1>3. r \in UNION {[h -> 0..Top] : h \in SUBSET Fields}
  BY <1>1, <1>2
<1>4. <<>> \in Seq(Items(c))
  BY EmptySeq
<1> QED
  BY <1>3, <1>4 DEF MainReport, Report, Reports, ReportTypes, r

LEMMA ItemTyped ==
  ASSUME NEW c, NEW p \in Bound(c), NEW mode \in {-1, 1}
  PROVE  Item(p.sn, p.on, mode) \in Items(c)
  BY DEF Bound, Item, Items

LEMMA ListTyped ==
  ASSUME BatteryOK(config, battery), NEW l \in Lists
  PROVE  l \in Seq(Items(config))
<1> DEFINE items == [k \in DOMAIN battery.plugs |-> FullItem(battery.plugs[k])]
<1>1. battery.plugs \in Seq(Bound(config))
  BY DEF BatteryOK
<1>2. /\ Len(battery.plugs) \in Nat /\ DOMAIN battery.plugs = 1..Len(battery.plugs)
      /\ \A k \in DOMAIN battery.plugs : battery.plugs[k] \in Bound(config)
  BY <1>1, LenProperties, ElementOfSeq
<1>3. \A k \in DOMAIN battery.plugs : FullItem(battery.plugs[k]) \in Items(config)
  BY <1>2, ItemTyped DEF FullItem, Mode
<1>4. items \in Seq(Items(config))
  BY <1>2, <1>3
<1>5. l = items \/ (items # <<>> /\ l = Append(items, items[1]))
  BY DEF Lists
<1> HIDE DEF items
<1>6. items # <<>> => items[1] \in Items(config)
  BY <1>4, EmptySeq, ElementOfSeq
<1> QED
  BY <1>4, <1>5, <1>6

-----------------------------------------------------------------------------
(* The entities.                                                           *)

LEMMA BoundsOK ==
  ASSUME FieldsOK(f_), NEW b \in number_bounds
  PROVE  b \in Int \X Int /\ (b[1] <= b[2] => TraitsOK(b))
<1>1. f_["lo"] \in (0..Top) \cup {None} /\ f_["hi"] \in (0..Top) \cup {None}
  BY DEF FieldsOK, Fields
<1>2. /\ b \in (IF f_["lo"] = None THEN Garbage ELSE {f_["lo"]})
               \X (IF f_["hi"] = None THEN Garbage ELSE {f_["hi"]})
      /\ ~(f_["lo"] = None /\ f_["hi"] = None)
  BY DEF number_bounds
<1> DEFINE L == IF f_["lo"] = None THEN Garbage ELSE {f_["lo"]}
           H == IF f_["hi"] = None THEN Garbage ELSE {f_["hi"]}
<1>3. L \subseteq Int /\ (f_["lo"] # None => L \subseteq 0..Top)
  <2>1. CASE f_["lo"] = None
    BY <2>1, Numbers
  <2>2. CASE f_["lo"] # None
    BY <1>1, <2>2, Numbers
  <2> QED
    BY <2>1, <2>2
<1>4. H \subseteq Int /\ (f_["hi"] # None => H \subseteq 0..Top)
  <2>1. CASE f_["hi"] = None
    BY <2>1, Numbers
  <2>2. CASE f_["hi"] # None
    BY <1>1, <2>2, Numbers
  <2> QED
    BY <2>1, <2>2
<1>5. b[1] \in L /\ b[2] \in H /\ b = <<b[1], b[2]>>
  BY <1>2
<1> HIDE DEF L, H
<1>6. b \in Int \X Int /\ (b[1] \in 0..Top \/ b[2] \in 0..Top)
  BY <1>2, <1>3, <1>4, <1>5
<1> QED
  BY <1>6, Numbers DEF TraitsOK

LEMMA ValuesTyped == \A x \in Fields \cup Controls : ValuesOf(x) \subseteq 0..Top
  BY Numbers DEF ValuesOf

LEMMA ClampedOK ==
  ASSUME TraitsOK(traits), NEW v \in 0..Top
  PROVE  Clamped(v) \in 0..Top
  BY Numbers DEF TraitsOK, Clamped

LEMMA SlotTyped ==
  ASSUME PlugList(config, plugs_), NEW i \in Slots, slot_plug_(plugs_, i) # {}
  PROVE  PlugOf(i) \in Plug(config)
<1>1. PlugOf(i) \in slot_plug_(plugs_, i)
  BY DEF PlugOf
<1>2. PICK k \in DOMAIN plugs_ : PlugOf(i) = plugs_[k]
  BY <1>1, SlotPlug
<1> QED
  BY <1>2, LenProperties, ElementOfSeq DEF PlugList

LEMMA PublishOK ==
  ASSUME IInv, publish_states_
  PROVE  TraitsOK(traits') /\ StatesOK(shown') /\ StatesOK(last')
         /\ SlotsOK(config, power', plug_switch')
<1>1. /\ FieldsOK(f_) /\ PlugList(config, plugs_) /\ TraitsOK(traits) /\ StatesOK(shown)
      /\ StatesOK(last) /\ SlotsOK(config, power, plug_switch)
  BY DEF IInv, PlugsOK
<1>2. \A e \in Controls \cup {"sensor"} :
        /\ f_[e] \in (0..Top) \cup {None} /\ shown[e] \in Int /\ last[e] \in Int
  BY <1>1 DEF FieldsOK, StatesOK, Fields, Controls
<1>3. \A e \in Controls \cup {"sensor"}, old \in Int :
        /\ Published(e, old) \in Int
        /\ Sensor(old, Known(e), f_[e]) \in Int
  BY <1>2 DEF Published, Changed, Known, Sensor, None, NaN
<1>4. StatesOK(shown')
  BY <1>1, <1>2, <1>3 DEF publish_states_, StatesOK
<1>5. StatesOK(last')
  BY <1>1, <1>2, <1>3 DEF publish_states_, StatesOK, None
<1>6. \A i \in Slots : PlugKnown(i) => PlugOf(i) \in Plug(config)
  BY <1>1, SlotTyped DEF PlugKnown
<1>7. power' \in [Slots -> config.plugs \cup {None, NaN}]
  <2>1. \A i \in Slots : Sensor(power[i], PlugKnown(i), IF PlugKnown(i) THEN PlugOf(i).sn ELSE NaN)
                           \in config.plugs \cup {None, NaN}
    BY <1>6 DEF Sensor, Plug
  <2> QED
    BY <2>1 DEF publish_states_
<1>8. plug_switch' \in [Slots -> [shown : {None, 0, 1}, last : {None, 0, 1}]]
  <2>1. \A i \in Slots : plug_switch[i] \in [shown : {None, 0, 1}, last : {None, 0, 1}]
    BY <1>1 DEF SlotsOK
  <2>2. \A i \in Slots : PlugKnown(i) => PlugOf(i).on \in {0, 1}
    BY <1>6 DEF Plug
  <2> QED
    BY <2>1, <2>2 DEF publish_states_
<1>9. TraitsOK(traits')
  BY <1>1, BoundsOK DEF publish_states_
<1> QED
  BY <1>4, <1>5, <1>7, <1>8, <1>9 DEF SlotsOK

-----------------------------------------------------------------------------
(* Steps.                                                                  *)

LEMMA InitOK == JackInit => IInv
<1> SUFFICES ASSUME JackInit
             PROVE  IInv
  OBVIOUS
<1> USE Numbers
<1>1. BatteryOK(config, battery)
  <2>1. <<>> \in Seq(Bound(config))
    BY EmptySeq
  <2> QED
    BY <2>1 DEF JackInit, BatteryOK
<1>2. LinkOK(config, link)
  BY LinkNone DEF JackInit, NoSession
<1>3. FieldsOK(f_) /\ PlugsOK(config, plugs_)
  BY EmptyList DEF JackInit, FieldsOK, PlugsOK
<1>4. hub \in Hubs
  BY DEF JackInit, Hubs
<1>5. TraitsOK(traits) /\ StatesOK(shown) /\ StatesOK(last)
  BY DEF JackInit, TraitsOK, StatesOK, None
<1>6. SlotsOK(config, power, plug_switch) /\ OutOK(out)
  BY DEF JackInit, SlotsOK, OutOK, None
<1>7. config \in Configs /\ clock \in BOOLEAN
  BY JackeryAssumption DEF JackInit
<1> QED
  BY <1>1, <1>2, <1>3, <1>4, <1>5, <1>6, <1>7 DEF IInv

\* The parts of the state under way between the battery and the hub.
LEMMA PolledOK ==
  ASSUME IInv
  PROVE  LinkOK(config, Polled)
  BY LinkFlags DEF IInv, Polled

LEMMA SentOK ==
  ASSUME IInv, MaySend, NEW kind \in Controls \cup {"reboot"}, NEW value \in 0..Top
  PROVE  LinkOK(config, send_main_command(kind, value))
<1>1. Command(kind, value) \in Commands(config)
  BY DEF Command, Commands
<1> QED
  BY <1>1, LinkCommand DEF IInv, send_main_command, MaySend

\* What the handlers make of the hub's own record.
LEMMA HubFlags ==
  ASSUME NEW h \in Hubs, NEW spelling \in {"yaml", "other"}, NEW connected \in BOOLEAN
  PROVE  /\ [h EXCEPT !.topic = spelling] \in Hubs
         /\ [h EXCEPT !.ever = TRUE, !.age = 0, !.dirty = TRUE] \in Hubs
         /\ [h EXCEPT !.client = connected, !.dirty = TRUE] \in Hubs
         /\ [h EXCEPT !.topic = spelling, !.poll_now = TRUE] \in Hubs
         /\ [h EXCEPT !.age = 2] \in Hubs
<1>1. [h EXCEPT !.topic = spelling] \in Hubs
  BY DEF Hubs
<1>2. [h EXCEPT !.ever = TRUE, !.age = 0, !.dirty = TRUE] \in Hubs
  <2>1. [h EXCEPT !.ever = TRUE] \in Hubs
    BY DEF Hubs
  <2>2. \A g \in Hubs : [g EXCEPT !.age = 0] \in Hubs
    BY DEF Hubs
  <2>3. \A g \in Hubs : [g EXCEPT !.dirty = TRUE] \in Hubs
    BY DEF Hubs
  <2> QED
    BY <2>1, <2>2, <2>3
<1>3. [h EXCEPT !.client = connected, !.dirty = TRUE] \in Hubs
  BY DEF Hubs
<1>4. [h EXCEPT !.topic = spelling, !.poll_now = TRUE] \in Hubs
  BY DEF Hubs
<1>5. [h EXCEPT !.age = 2] \in Hubs
  BY DEF Hubs
<1> QED
  BY <1>1, <1>2, <1>3, <1>4, <1>5

LEMMA HubPass ==
  ASSUME NEW h \in Hubs, NEW online \in BOOLEAN, NEW dirty \in BOOLEAN, NEW age \in 0..2
  PROVE  [h EXCEPT !.poll_now = FALSE, !.online = online, !.dirty = dirty, !.age = age] \in Hubs
  BY DEF Hubs

LEMMA LoopStep ==
  ASSUME IInv, NEW second \in BOOLEAN, loop(second)
  PROVE  IInv'
<1>1. LinkOK(config, link')
  BY PolledOK DEF loop, IInv
<1>2. TraitsOK(traits') /\ StatesOK(shown') /\ StatesOK(last')
      /\ SlotsOK(config, power', plug_switch')
  BY PublishOK DEF loop, entityVars, IInv
<1>3. hub' \in Hubs
  <2> DEFINE online == IF second THEN Fresh ELSE hub.online
             age == IF second /\ hub.age = 0 THEN 1 ELSE hub.age
  <2>a. hub.ever \in BOOLEAN /\ hub.online \in BOOLEAN /\ hub.age \in 0..2
    BY DEF IInv, Hubs
  <2>b. online \in BOOLEAN
    BY <2>a DEF Fresh
  <2>1. online \in BOOLEAN /\ age \in 0..2
    BY <2>a, <2>b
  <2>2. hub' = [hub EXCEPT !.poll_now = FALSE, !.online = online,
                           !.dirty = (online # hub.online), !.age = age]
    BY DEF loop
  <2> HIDE DEF online, age
  <2> QED
    BY <2>1, <2>2, HubPass DEF IInv
<1> QED
  BY <1>1, <1>2, <1>3 DEF loop, IInv, stateVars

LEMMA MessageStep ==
  ASSUME IInv, on_message
  PROVE  IInv'
<1>1. link.up # <<>> /\ LinkOK(config, link') /\ Head(link.up) \in Reports(config)
  BY LinkTails DEF IInv, on_message
<1> DEFINE r == Head(link.up)
<1>2. r.type \in ReportTypes /\ r.items \in Seq(Items(config))
      /\ \E g \in SUBSET Fields : r.fields \in [g -> 0..Top]
  BY <1>1 DEF Reports
<1> HIDE DEF r
<1>3. hub' \in Hubs
  <2>1. config.spelling \in {"yaml", "other"}
    BY JackeryAssumption DEF IInv
  <2>2. Spelled \in Hubs
    BY <2>1, HubFlags DEF IInv, Spelled
  <2>3. Heard \in Hubs
    BY <2>2, HubFlags DEF Heard
  <2> QED
    BY <2>2, <2>3 DEF on_message
<1>4. CASE UNCHANGED stateVars
  BY <1>1, <1>3, <1>4 DEF on_message, IInv, stateVars, entityVars
<1>5. CASE ingest(r)
  <2>1. FieldsOK(f_')
    <3>1. f_ \in [Fields -> (0..Top) \cup {None}]
      BY DEF IInv, FieldsOK
    <3>2. merge_main_(r.fields) \in [Fields -> (0..Top) \cup {None}]
      BY <1>2, <3>1 DEF merge_main_
    <3> QED
      BY <1>5, <3>2 DEF ingest, FieldsOK
  <2>2. PlugsOK(config, plugs_')
    <3>1. PlugList(config, plugs_) /\ Len(plugs_) <= PlugCap
      BY DEF IInv, PlugsOK
    <3>2. CASE r.type = "list"
      BY <1>2, <1>5, <3>2, FullListOK DEF ingest, PlugsOK
    <3>3. CASE r.type \in {"merge", "event"}
      BY <1>2, <1>5, <3>1, <3>3, TakeItemsOK DEF ingest, PlugsOK
    <3>4. CASE r.type \notin {"list", "merge", "event"}
      BY <1>5, <3>1, <3>4 DEF ingest, PlugsOK
    <3> QED
      BY <3>2, <3>3, <3>4
  <2> QED
    BY <1>1, <1>3, <2>1, <2>2 DEF on_message, IInv, entityVars
<1> QED
  BY <1>4, <1>5 DEF on_message, r

LEMMA EntityStep ==
  ASSUME IInv,
         \/ \E e \in Controls : \E v \in ValuesOf(e) : control(e, v)
         \/ \E i \in Slots, on \in {0, 1} : send_plug_command(i, on)
         \/ send_reboot
         \/ write_state
  PROVE  IInv'
<1>1. ASSUME NEW e \in Controls, NEW v \in ValuesOf(e), control(e, v)
      PROVE  IInv'
  <2> DEFINE value == IF e = "number" THEN Clamped(v) ELSE v
  <2>1. v \in 0..Top
    BY ValuesTyped
  <2>2. value \in 0..Top
    BY <2>1, ClampedOK DEF IInv
  <2>3. MaySend /\ link' = send_main_command(e, value)
        /\ shown' = IF Delivered THEN [shown EXCEPT ![e] = value] ELSE shown
    BY <1>1 DEF control
  <2> HIDE DEF value
  <2>4. LinkOK(config, link')
    BY <2>2, <2>3, SentOK
  <2>5. StatesOK(shown')
    BY <2>2, <2>3, Numbers DEF IInv, StatesOK
  <2> QED
    BY <1>1, <2>4, <2>5 DEF control, IInv, stateVars
<1>2. ASSUME NEW i \in Slots, NEW on \in {0, 1}, send_plug_command(i, on)
      PROVE  IInv'
  <2> DEFINE sent == slot_plug_(plugs_, i) # {} /\ PlugOf(i).mode = 1 /\ Delivered
             cmd == Command("plug", <<PlugOf(i).sn, on>>)
  <2>1. /\ MaySend
        /\ link' = IF sent THEN [link EXCEPT !.cmds = Append(@, cmd)] ELSE link
        /\ plug_switch' = IF sent THEN [plug_switch EXCEPT ![i].shown = on] ELSE plug_switch
    BY <1>2 DEF send_plug_command
  <2>2. sent => cmd \in Commands(config)
    <3>1. sent => PlugOf(i).sn \in config.plugs
      BY SlotTyped DEF IInv, PlugsOK, Plug
    <3> QED
      BY <3>1 DEF Command, Commands
  <2> HIDE DEF sent, cmd
  <2>3. LinkOK(config, link')
    BY <2>1, <2>2, LinkCommand DEF IInv, MaySend
  <2>4. SlotsOK(config, power, plug_switch')
    BY <2>1 DEF IInv, SlotsOK
  <2> QED
    BY <1>2, <2>3, <2>4 DEF send_plug_command, IInv, stateVars
<1>3. ASSUME send_reboot
      PROVE  IInv'
  <2>1. LinkOK(config, link')
    BY <1>3, SentOK, Numbers DEF send_reboot
  <2> QED
    BY <1>3, <2>1 DEF send_reboot, IInv, stateVars, entityVars
<1>4. ASSUME write_state
      PROVE  IInv'
  <2> DEFINE target == Target(out.want)
  <2>1. \/ UNCHANGED <<link, out>>
        \/ /\ link' = send_main_command("number", target)
           /\ out' = [out EXCEPT !.sent = target, !.due = FALSE]
    BY <1>4 DEF write_state
  <2>2. target \in 0..Top
    BY Numbers DEF Target
  <2> HIDE DEF target
  <2>3. LinkOK(config, link')
    <3>1. LinkOK(config, link)
      BY DEF IInv
    <3>2. LinkOK(config, send_main_command("number", target))
      BY <1>4, <2>2, SentOK DEF write_state, Controls
    <3> QED
      BY <2>1, <3>1, <3>2
  <2>4. OutOK(out')
    <3>1. OutOK(out) /\ target \in -1..Top
      BY <2>2, Numbers DEF IInv
    <3>2. OutOK([out EXCEPT !.sent = target, !.due = FALSE])
      BY <3>1 DEF OutOK
    <3> QED
      BY <2>1, <3>1, <3>2
  <2> QED
    BY <1>4, <2>3, <2>4 DEF write_state, IInv, stateVars, entityVars
<1> QED
  BY <1>1, <1>2, <1>3, <1>4

\* What the hub does besides, and what the session and time do.
LEMMA SessionStep ==
  ASSUME IInv,
         update \/ on_subscribed \/ Connects \/ Disconnects \/ Misses \/ ClockUsable
           \/ ResendElapses \/ \E w \in {0, 1} : Wants(w)
  PROVE  IInv'
<1> USE DEF stateVars, entityVars
<1>1. /\ config \in Configs /\ LinkOK(config, link) /\ hub \in Hubs /\ OutOK(out)
      /\ config.spelling \in {"yaml", "other"}
  BY JackeryAssumption DEF IInv
<1>2. ASSUME update
      PROVE  IInv'
  <2>1. LinkOK(config, link')
    BY <1>2, PolledOK DEF update
  <2> QED
    BY <1>2, <2>1 DEF update, IInv
<1>3. ASSUME on_subscribed
      PROVE  IInv'
  <2>1. LinkOK(config, link') /\ hub' \in Hubs
    BY <1>1, <1>3, LinkFlags, HubFlags DEF on_subscribed
  <2> QED
    BY <1>3, <2>1 DEF on_subscribed, IInv
<1>4. ASSUME Connects
      PROVE  IInv'
  <2>1. LinkOK(config, link') /\ hub' \in Hubs
    BY <1>1, <1>4, LinkFlags, HubFlags DEF Connects, on_clients_changed
  <2> QED
    BY <1>4, <2>1 DEF Connects, IInv
<1>5. ASSUME Disconnects
      PROVE  IInv'
  <2>1. LinkOK(config, link') /\ hub' \in Hubs
    BY <1>1, <1>5, LinkNone, HubFlags DEF Disconnects, on_clients_changed
  <2> QED
    BY <1>5, <2>1 DEF Disconnects, IInv
<1>6. ASSUME Misses
      PROVE  IInv'
  <2>1. LinkOK(config, link')
    BY <1>1, <1>6, LinkTails DEF Misses
  <2> QED
    BY <1>6, <2>1 DEF Misses, IInv
<1>7. ASSUME ClockUsable
      PROVE  IInv'
  BY <1>7 DEF ClockUsable, IInv
<1>8. ASSUME ResendElapses
      PROVE  IInv'
  <2>1. OutOK(out')
    BY <1>1, <1>8 DEF ResendElapses, OutOK
  <2> QED
    BY <1>8, <2>1 DEF ResendElapses, IInv
<1>9. ASSUME NEW w \in {0, 1}, Wants(w)
      PROVE  IInv'
  <2>1. OutOK(out')
    BY <1>1, <1>9 DEF Wants, OutOK
  <2> QED
    BY <1>9, <2>1 DEF Wants, IInv
<1> QED
  BY <1>2, <1>3, <1>4, <1>5, <1>6, <1>7, <1>8, <1>9

\* Reports and plugs grow old.
LEMMA AgeStep ==
  ASSUME IInv, TimeoutElapses \/ \E k \in 1..PlugCap : PlugElapses(k)
  PROVE  IInv'
<1> DEFINE Stale(p) == [p EXCEPT !.fresh = FALSE]
<1>1. /\ plugs_ \in Seq(Plug(config)) /\ Distinct(plugs_) /\ Len(plugs_) <= PlugCap
      /\ Len(plugs_) \in Nat /\ DOMAIN plugs_ = 1..Len(plugs_)
      /\ \A k \in DOMAIN plugs_ : plugs_[k] \in Plug(config)
  BY LenProperties, ElementOfSeq DEF IInv, PlugsOK, PlugList
<1>2. \A p \in Plug(config) : Stale(p) \in Plug(config) /\ Stale(p).sn = p.sn
  BY DEF Plug
<1>3. ASSUME TimeoutElapses
      PROVE  IInv'
  <2> DEFINE new == [k \in DOMAIN plugs_ |-> Stale(plugs_[k])]
  <2>1. plugs_' = new /\ hub' = [hub EXCEPT !.age = 2]
    BY <1>3 DEF TimeoutElapses
  <2>2. \A k \in DOMAIN plugs_ : new[k] \in Plug(config) /\ new[k].sn = plugs_[k].sn
    BY <1>1, <1>2
  <2>3. new = [k \in 1..Len(plugs_) |-> new[k]] /\ DOMAIN new = DOMAIN plugs_
    BY <1>1
  <2> HIDE DEF new
  <2>4. new \in Seq(Plug(config)) /\ Len(new) = Len(plugs_)
    BY <1>1, <2>2, <2>3, LenProperties
  <2>5. Distinct(new)
    BY <1>1, <2>2, <2>3 DEF Distinct
  <2>6. PlugsOK(config, plugs_')
    BY <1>1, <2>1, <2>4, <2>5 DEF PlugsOK, PlugList
  <2>7. hub' \in Hubs
    BY <2>1, HubFlags DEF IInv
  <2> QED
    BY <1>3, <2>6, <2>7 DEF TimeoutElapses, IInv, entityVars
<1>4. ASSUME NEW k \in 1..PlugCap, PlugElapses(k)
      PROVE  IInv'
  <2> DEFINE new == [plugs_ EXCEPT ![k] = Stale(plugs_[k])]
  <2>1. k \in DOMAIN plugs_ /\ plugs_' = new
    BY <1>4 DEF PlugElapses
  <2>2. Stale(plugs_[k]) \in Plug(config) /\ Stale(plugs_[k]).sn = plugs_[k].sn
    BY <1>1, <1>2, <2>1
  <2>3. DOMAIN new = DOMAIN plugs_ /\ \A m \in DOMAIN plugs_ : new[m].sn = plugs_[m].sn
    BY <2>1, <2>2
  <2>4. new \in Seq(Plug(config)) /\ Len(new) = Len(plugs_)
    BY <1>1, <2>1, <2>2, ExceptSeq
  <2> HIDE DEF new
  <2>5. Distinct(new)
    BY <1>1, <2>3 DEF Distinct
  <2>6. PlugsOK(config, plugs_')
    BY <1>1, <2>1, <2>4, <2>5 DEF PlugsOK, PlugList
  <2> QED
    BY <1>4, <2>6 DEF PlugElapses, IInv, entityVars
<1> QED
  BY <1>3, <1>4

\* The battery.
LEMMA BatteryFields ==
  ASSUME NEW c, NEW b, BatteryOK(c, b), NEW x \in Fields, NEW v \in 0..Top
  PROVE  BatteryOK(c, [b EXCEPT !.fields[x] = v])
<1> DEFINE g == [b.fields EXCEPT ![x] = v]
<1>1. g \in [Fields -> 0..Top]
  BY DEF BatteryOK
<1>2. [b EXCEPT !.fields[x] = v] = [b EXCEPT !.fields = g]
  BY DEF BatteryOK
<1> HIDE DEF g
<1>3. [b EXCEPT !.fields = g] \in [fields : [Fields -> 0..Top], plugs : Seq(Bound(c))]
  BY <1>1 DEF BatteryOK
<1> QED
  BY <1>2, <1>3 DEF BatteryOK

LEMMA BatteryPlugs ==
  ASSUME NEW c, NEW b, BatteryOK(c, b), NEW s \in Seq(Bound(c))
  PROVE  BatteryOK(c, [b EXCEPT !.plugs = s])
  BY DEF BatteryOK

LEMMA ChangesStep ==
  ASSUME IInv, Changes
  PROVE  IInv'
<1>1. /\ config \in Configs /\ BatteryOK(config, battery) /\ config.groups \subseteq SUBSET Fields
      /\ battery.plugs \in Seq(Bound(config))
  BY JackeryAssumption DEF IInv, BatteryOK
<1>2. BatteryOK(config, battery')
  <2>1. CASE \E x \in Own(config) : \E v \in ValuesOf(x) :
               battery' = [battery EXCEPT !.fields[x] = v]
    <3>1. Own(config) \subseteq Fields
      BY <1>1 DEF Own, Fields
    <3> QED
      BY <1>1, <2>1, <3>1, ValuesTyped, BatteryFields
  <2>2. CASE \E s \in config.plugs :
               battery' = [battery EXCEPT !.plugs =
                             IF s \in SnsOf(@) THEN RemoveAt(@, Find(@, s))
                             ELSE Append(@, [sn |-> s, on |-> 0])]
    <3>1. PICK s \in config.plugs :
            battery' = [battery EXCEPT !.plugs =
                          IF s \in SnsOf(@) THEN RemoveAt(@, Find(@, s))
                          ELSE Append(@, [sn |-> s, on |-> 0])]
      BY <2>2
    <3> DEFINE new == IF s \in SnsOf(battery.plugs)
                      THEN RemoveAt(battery.plugs, Find(battery.plugs, s))
                      ELSE Append(battery.plugs, [sn |-> s, on |-> 0])
    <3>2. [sn |-> s, on |-> 0] \in Bound(config)
      BY DEF Bound
    <3>3. s \in SnsOf(battery.plugs) => RemoveAt(battery.plugs, Find(battery.plugs, s)) \in Seq(Bound(config))
      BY <1>1, FindOK, RemoveAtOK
    <3>4. new \in Seq(Bound(config))
      BY <1>1, <3>2, <3>3
    <3>5. battery' = [battery EXCEPT !.plugs = new]
      BY <3>1
    <3> HIDE DEF new
    <3> QED
      BY <1>1, <3>4, <3>5, BatteryPlugs
  <2> QED
    BY <2>1, <2>2 DEF Changes
<1> QED
  BY <1>2 DEF Changes, IInv, stateVars, entityVars

LEMMA ReportStep ==
  ASSUME IInv, Answers \/ Volunteers
  PROVE  IInv'
<1>1. config \in Configs /\ BatteryOK(config, battery) /\ LinkOK(config, link)
  BY DEF IInv
<1>2. \A g \in config.groups : MainReport(g) \in Reports(config)
  BY <1>1, MainTyped
<1>3. ASSUME Answers
      PROVE  IInv'
  <2>1. \A l \in Lists : Report("list", <<>>, l) \in Reports(config)
    BY <1>1, ListTyped, ReportTyped DEF ReportTypes
  <2>2. PICK r \in Reports(config) : link' = [link EXCEPT !.poll = FALSE, !.up = Append(@, r)]
    <3>1. PICK r \in IF config.plugs # {} THEN {Report("list", <<>>, l) : l \in Lists}
                     ELSE {MainReport(g) : g \in config.groups} :
            link' = [link EXCEPT !.poll = FALSE, !.up = Append(@, r)]
      BY <1>3 DEF Answers
    <3>2. r \in Reports(config)
      BY <1>2, <2>1, <3>1
    <3> QED
      BY <3>1, <3>2
  <2>3. LinkOK(config, link')
    BY <1>1, <1>3, <2>2, LinkReport DEF Answers
  <2> QED
    BY <1>3, <2>3 DEF Answers, IInv, stateVars, entityVars
<1>4. ASSUME NEW r \in Reports(config), Sends(r)
      PROVE  IInv'
  <2>1. LinkOK(config, link')
    BY <1>1, <1>4, LinkReport DEF Sends
  <2> QED
    BY <1>4, <2>1 DEF Sends, IInv, stateVars, entityVars
<1>5. ASSUME NEW type \in {"merge", "event"}, NEW p \in Range(battery.plugs)
      PROVE  Report(type, <<>>, <<Item(p.sn, p.on, -1)>>) \in Reports(config)
  <2>1. battery.plugs \in Seq(Bound(config))
    BY <1>1 DEF BatteryOK
  <2>2. p \in Bound(config)
    BY <2>1, LenProperties, ElementOfSeq DEF Range
  <2>3. Item(p.sn, p.on, -1) \in Items(config)
    BY <2>2, ItemTyped
  <2>4. <<Item(p.sn, p.on, -1)>> \in Seq(Items(config))
    BY <2>3
  <2> QED
    BY <2>4, ReportTyped DEF ReportTypes
<1>6. ASSUME NEW type \in {"rejected", "garbled"}
      PROVE  Report(type, <<>>, <<>>) \in Reports(config)
  BY EmptySeq, ReportTyped DEF ReportTypes
<1>7. ASSUME Volunteers
      PROVE  IInv'
  BY <1>2, <1>4, <1>5, <1>6, <1>7 DEF Volunteers
<1> QED
  BY <1>3, <1>7

LEMMA AppliesStep ==
  ASSUME IInv, Applies
  PROVE  IInv'
<1> DEFINE c == Head(link.cmds)
<1>1. BatteryOK(config, battery) /\ LinkOK(config, link) /\ hub \in Hubs
      /\ config.spelling \in {"yaml", "other"} /\ battery.plugs \in Seq(Bound(config))
  BY JackeryAssumption DEF IInv, BatteryOK
<1>2. c \in Commands(config) /\ LinkOK(config, [link EXCEPT !.cmds = Tail(@)])
  BY <1>1, LinkTails DEF Applies
<1>3. UNCHANGED <<config, clock, stateVars, entityVars, out>>
  BY DEF Applies
<1>4. CASE c.kind = "reboot"
  <2>1. link' = NoSession /\ hub' = on_clients_changed(FALSE) /\ battery' = battery
    BY <1>4 DEF Applies
  <2>2. LinkOK(config, link') /\ hub' \in Hubs
    BY <1>1, <2>1, LinkNone, HubFlags DEF on_clients_changed
  <2> QED
    BY <1>3, <2>1, <2>2 DEF IInv, stateVars, entityVars
<1>5. CASE c.kind = "plug"
  <2> DEFINE Set(p) == IF p.sn = c.value[1] THEN [p EXCEPT !.on = c.value[2]] ELSE p
             new == [k \in DOMAIN battery.plugs |-> Set(battery.plugs[k])]
  <2>1. /\ link' = [link EXCEPT !.cmds = Tail(@)] /\ hub' = hub
        /\ battery' = [battery EXCEPT !.plugs = new]
    BY <1>5 DEF Applies
  <2>2. c.value[2] \in {0, 1}
    BY <1>2, <1>5 DEF Commands, Controls
  <2>3. \A p \in Bound(config) : Set(p) \in Bound(config)
    BY <2>2 DEF Bound
  <2>4. /\ Len(battery.plugs) \in Nat /\ DOMAIN battery.plugs = 1..Len(battery.plugs)
        /\ \A k \in DOMAIN battery.plugs : battery.plugs[k] \in Bound(config)
    BY <1>1, LenProperties, ElementOfSeq
  <2>5. \A k \in DOMAIN battery.plugs : Set(battery.plugs[k]) \in Bound(config)
    BY <2>3, <2>4
  <2> HIDE DEF Set
  <2>6. new \in Seq(Bound(config))
    BY <2>4, <2>5
  <2> HIDE DEF new
  <2>7. BatteryOK(config, battery')
    BY <1>1, <2>1, <2>6, BatteryPlugs
  <2> QED
    BY <1>2, <1>3, <2>1, <2>7 DEF IInv, stateVars, entityVars
<1>6. CASE c.kind \notin {"reboot", "plug"}
  <2>1. /\ link' = [link EXCEPT !.cmds = Tail(@)] /\ hub' = hub
        /\ battery' = [battery EXCEPT !.fields[c.kind] = c.value]
    BY <1>6 DEF Applies
  <2>2. c.kind \in Fields /\ c.value \in 0..Top
    BY <1>2, <1>6 DEF Commands, Controls, Fields
  <2>3. BatteryOK(config, battery')
    BY <1>1, <2>1, <2>2, BatteryFields
  <2> QED
    BY <1>2, <1>3, <2>1, <2>3 DEF IInv, stateVars, entityVars
<1> QED
  BY <1>4, <1>5, <1>6

LEMMA NextStep == IInv /\ [JackNext]_jackVars => IInv'
<1> SUFFICES ASSUME IInv, [JackNext]_jackVars
             PROVE  IInv'
  OBVIOUS
<1>1. CASE UNCHANGED jackVars
  BY <1>1 DEF jackVars, stateVars, entityVars, IInv
<1>2. CASE JackNext
  BY <1>2, LoopStep, MessageStep, EntityStep, SessionStep, AgeStep, ChangesStep, ReportStep,
     AppliesStep DEF JackNext
<1> QED
  BY <1>1, <1>2

\* The state stays well formed and two slots never stand for the same plug, for every
\* configuration whose pins differ, every number of slots and of plugs, and whatever the
\* battery reports in whichever order (slot_plug_, upsert_plug_, apply_101_).
THEOREM SlotsTheorem == JackSpec => []JackInv
<1>1. IInv => JackInv
  BY InvEnough
<1> QED
  BY <1>1, InitOK, NextStep, PTL DEF JackSpec
=============================================================================
