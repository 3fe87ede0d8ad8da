--------------------------- MODULE WaveformsProofs ---------------------------
(***************************************************************************)
(* Proofs about Waveforms: the registry matches the waveforms that exist,  *)
(* and a composition paints the truth.                                     *)
(***************************************************************************)
EXTENDS Waveforms, WellFoundedInduction, SequenceTheorems, TLAPS

------------------------------------------------------------------------------
(* Numbers and sequences.                                                   *)

\* A set of naturals that is not empty has a least element.
LEMMA LeastNat ==
  ASSUME NEW D \in SUBSET Nat, D # {}
  PROVE  \E n \in D : \A m \in D : n <= m
<1> DEFINE R == {ss \in Nat \X Nat : ss[1] < ss[2]}
<1>1. OpToRel(<, Nat) = R
  BY DEF OpToRel
<1>2. IsWellFoundedOn(R, Nat)
  BY <1>1, NatLessThanWellFounded
<1>3. PICK n \in D : \A m \in D : ~(<<m, n>> \in R)
  <2> HIDE DEF R
  <2> QED BY <1>2, WFMin
<1>4. \A m \in D : ~(m < n)
  BY <1>3
<1> QED BY <1>4

\* What removing an entry of a list does to the others (QList::removeAt).
LEMMA RemoveAtProperties ==
  ASSUME NEW S, NEW s \in Seq(S), NEW i \in 1..Len(s)
  PROVE  /\ RemoveAt(s, i) \in Seq(S)
         /\ Len(RemoveAt(s, i)) = Len(s) - 1
         /\ \A j \in 1..(Len(s) - 1) :
              RemoveAt(s, i)[j] = IF j < i THEN s[j] ELSE s[j + 1]
<1> DEFINE a == SubSeq(s, 1, i - 1)
           b == SubSeq(s, i + 1, Len(s))
<1>0. Len(s) \in Nat /\ \A k \in 1..Len(s) : s[k] \in S
  BY LenProperties
<1>1. /\ a \in Seq(S) /\ Len(a) = i - 1
      /\ \A k \in 1..(i - 1) : a[k] = s[k]
  <2>1. 1 \in Int /\ i - 1 \in Int /\ \A k \in 1..(i - 1) : s[k] \in S
    BY <1>0
  <2>2. /\ a \in Seq(S) /\ Len(a) = IF 1 <= i - 1 THEN (i - 1) - 1 + 1 ELSE 0
        /\ \A k \in 1..((i - 1) - 1 + 1) : a[k] = s[1 + k - 1]
    BY <2>1, SubSeqProperties
  <2> QED BY <2>2, <1>0
<1>2. /\ b \in Seq(S) /\ Len(b) = Len(s) - i
      /\ \A k \in 1..(Len(s) - i) : b[k] = s[i + k]
  <2>1. i + 1 \in Int /\ Len(s) \in Int /\ \A k \in (i + 1)..Len(s) : s[k] \in S
    BY <1>0
  <2>2. /\ b \in Seq(S)
        /\ Len(b) = IF i + 1 <= Len(s) THEN Len(s) - (i + 1) + 1 ELSE 0
        /\ \A k \in 1..(Len(s) - (i + 1) + 1) : b[k] = s[(i + 1) + k - 1]
    BY <2>1, SubSeqProperties
  <2> QED BY <2>2, <1>0
<1> HIDE DEF a, b
<1>3. /\ a \o b \in Seq(S) /\ Len(a \o b) = Len(a) + Len(b)
      /\ \A k \in 1..(Len(a) + Len(b)) :
           (a \o b)[k] = IF k <= Len(a) THEN a[k] ELSE b[k - Len(a)]
  BY <1>1, <1>2, ConcatProperties
<1>4. Len(a) + Len(b) = Len(s) - 1
  BY <1>0, <1>1, <1>2
<1>5. ASSUME NEW j \in 1..(Len(s) - 1)
      PROVE  (a \o b)[j] = IF j < i THEN s[j] ELSE s[j + 1]
  <2>1. (a \o b)[j] = IF j <= i - 1 THEN a[j] ELSE b[j - (i - 1)]
    BY <1>3, <1>4, <1>1
  <2>2. CASE j < i
    BY <2>1, <2>2, <1>1, <1>0
  <2>3. CASE ~(j < i)
    <3>1. j - (i - 1) \in 1..(Len(s) - i) /\ i + (j - (i - 1)) = j + 1
      BY <2>3, <1>0
    <3>2. b[j - (i - 1)] = s[j + 1]
      BY <3>1, <1>2
    <3> QED BY <2>1, <2>3, <3>2, <1>0
  <2> QED BY <2>2, <2>3
<1>6. RemoveAt(s, i) = a \o b
  BY DEF RemoveAt, a, b
<1> QED BY <1>3, <1>4, <1>5, <1>6

------------------------------------------------------------------------------
(* The clip.                                                                *)

\* What updateEffectiveClip clips a waveform to is what can be seen of it,
\* where it is dirty or the layers under it are redrawn: nothing that can be
\* seen is left out, nothing that cannot be seen is drawn.
THEOREM ClipExact ==
  ASSUME NEW pl \in Place, NEW D \in Region, NEW U \in Region
  PROVE  EffectiveClip(pl, D, U) = Visible(pl) \cap (Translated(D, pl.origin) \cup U)
<1> DEFINE o == pl.origin
           C == ((Translated(D, o) \cup U) \cap pl.view) \ pl.above
<1>1. o \in Int /\ pl.width \in Nat /\ pl.view \subseteq Int
  BY DEF Place, Region
<1>2. C \subseteq Int
  BY <1>1
<1>3. \A p \in Int : p \in Translated(C, -o) <=> p + o \in C
  <2> HIDE DEF C, o
  <2> SUFFICES ASSUME NEW p \in Int PROVE p \in Translated(C, -o) <=> p + o \in C
    OBVIOUS
  <2>1. ASSUME p \in Translated(C, -o) PROVE p + o \in C
    <3>1. PICK q \in C : p = q + (-o)
      BY <2>1 DEF Translated
    <3>2. p + o = q
      BY <3>1, <1>1, <1>2
    <3> QED BY <3>2
  <2>2. ASSUME p + o \in C PROVE p \in Translated(C, -o)
    <3>1. p = (p + o) + (-o)
      BY <1>1
    <3> QED BY <3>1, <2>2 DEF Translated
  <2> QED BY <2>1, <2>2
<1>4. Translated(C, -o) \subseteq Int
  BY <1>1, <1>2 DEF Translated
<1> DEFINE E == EffectiveDirty(pl, D, U)
<1>5. E = Translated(C, -o) \cap Image(pl.width)
  BY DEF EffectiveDirty
<1>6. \A p \in Int : p \in EffectiveClip(pl, D, U) <=> p - o \in E
  <2>1. EffectiveClip(pl, D, U) = {q + o : q \in E}
    BY DEF EffectiveClip, Translated
  <2>2. E \subseteq Int
    BY <1>4, <1>5
  <2> HIDE DEF E, o
  <2> SUFFICES ASSUME NEW p \in Int
               PROVE  p \in {q + o : q \in E} <=> p - o \in E
    BY <2>1
  <2>3. ASSUME NEW q \in E, p = q + o PROVE p - o \in E
    <3>1. p - o = q
      BY <2>3, <2>2, <1>1
    <3> QED BY <3>1
  <2>4. p = (p - o) + o
    BY <1>1
  <2> QED BY <2>3, <2>4
<1>7. EffectiveClip(pl, D, U) \subseteq Int
  BY <1>1, <1>4, <1>5 DEF EffectiveClip, Translated
<1>8. \A p \in Int : p - o \in E <=> p \in C /\ p - o \in Image(pl.width)
  <2> SUFFICES ASSUME NEW p \in Int
               PROVE  p - o \in E <=> p \in C /\ p - o \in Image(pl.width)
    OBVIOUS
  <2>1. p - o \in Int /\ (p - o) + o = p
    BY <1>1
  <2> HIDE DEF C, o, E
  <2>2. p - o \in Translated(C, -o) <=> p \in C
    BY <2>1, <1>3
  <2> QED BY <2>2, <1>5
<1>9. \A p \in Int : p \in C /\ p - o \in Image(pl.width)
        <=> p \in Visible(pl) \cap (Translated(D, o) \cup U)
  BY <1>1 DEF Visible
<1>10. Visible(pl) \subseteq Int
  BY <1>1 DEF Visible
<1> HIDE DEF C, E
<1> QED BY <1>6, <1>7, <1>8, <1>9, <1>10

------------------------------------------------------------------------------
(* Popups, viewports and what can be seen.                                  *)

\* findPopup finds an open popup: the top-level window is one.
LEMMA FindPopupOpen ==
  ASSUME TypeOK, NEW v \in View
  PROVE  IsOpen(FindPopup(v))
<1> DEFINE chain == Container[v].chain
           D == {i \in DOMAIN chain : IsOpen(chain[i])}
<1>1. chain \in Seq(Popup) /\ \E i \in DOMAIN chain : chain[i] = Root
  BY WaveformsAssumption
<1>2. DOMAIN chain = 1..Len(chain) /\ Len(chain) \in Nat
  <2> HIDE DEF chain
  <2> QED BY <1>1, LenProperties
<1>3. D \in SUBSET Nat /\ D # {}
  BY <1>1, <1>2 DEF TypeOK
<1>4. PICK n \in D : \A m \in D : n <= m
  <2> HIDE DEF D
  <2> QED BY <1>3, LeastNat
<1>5. \E i \in DOMAIN chain : IsOpen(chain[i]) /\ \A j \in 1..(i - 1) : ~IsOpen(chain[j])
  <2>1. ASSUME NEW j \in 1..(n - 1) PROVE ~IsOpen(chain[j])
    <3>1. j \in DOMAIN chain /\ ~(n <= j)
      BY <1>2, <1>4
    <3> QED BY <3>1, <1>4
  <2> QED BY <2>1, <1>4
<1> DEFINE first == CHOOSE i \in DOMAIN chain :
                      IsOpen(chain[i]) /\ \A j \in 1..(i - 1) : ~IsOpen(chain[j])
<1>6. IsOpen(chain[first])
  <2> HIDE DEF chain
  <2> QED BY <1>5
<1> QED BY <1>6 DEF FindPopup

\* The level of an open popup is one of its positions.
LEMMA LevelOfOpen ==
  ASSUME NEW p, IsOpen(p)
  PROVE  Level(p) \in 1..Len(popups) /\ popups[Level(p)] = p
  BY DEF IsOpen, Level

\* What the code finds out about a waveform is a place, and the cells visible
\* there are the cells where the waveform can be seen.
LEMMA PlaceSeen ==
  ASSUME TypeOK, NEW f \in Form
  PROVE  /\ PlaceOf(f) \in Place
         /\ \A p \in Cell : p \in Visible(PlaceOf(f)) <=> Seen(f, p)
<1> DEFINE v == Home[f]
           left == Container[v].left
           edge == IF vpt[v] = {} THEN 0
                   ELSE CHOOSE p \in vpt[v] : \A q \in vpt[v] : p <= q
<1>1. v \in View /\ left \in Nat
  BY WaveformsAssumption
<1>2. vpt[v] \in SUBSET Nat /\ geom[f].x \in Nat /\ geom[f].w \in Nat
  BY <1>1 DEF TypeOK
<1>3. edge \in Nat
  <2>1. CASE vpt[v] = {}
    BY <2>1
  <2>2. CASE vpt[v] # {}
    <3>1. \E p \in vpt[v] : \A q \in vpt[v] : p <= q
      BY <1>2, <2>2, LeastNat
    <3> QED BY <1>2, <2>2, <3>1
  <2> QED BY <2>1, <2>2
<1>4. /\ Len(popups) \in Nat
      /\ \A i \in 1..Len(popups) : Area[popups[i]] \in SUBSET Cell
  <2>1. popups \in Seq(Popup)
    BY DEF TypeOK
  <2> QED BY <2>1, WaveformsAssumption, ElementOfSeq, LenProperties DEF Cell
<1>5. Cell \subseteq Int
  BY DEF Cell
<1>6. Translated(vpt[v], left) \subseteq Int
  BY <1>1, <1>2 DEF Translated
<1>7. Level(FindPopup(v)) \in 1..Len(popups)
  BY <1>1, FindPopupOpen, LevelOfOpen
<1> DEFINE L == Level(FindPopup(v))
<1>8. /\ Above(v) \subseteq Int
      /\ \A p \in Cell : p \notin Above(v) <=>
           \A i \in 1..Len(popups) : p \in Area[popups[i]] => i <= L
  <2>1. Above(v) = UNION {Area[popups[i]] : i \in (L + 1)..Len(popups)}
    BY DEF Above
  <2>2. L \in 1..Len(popups)
    BY <1>7
  <2> HIDE DEF L, v
  <2>3. \A i \in (L + 1)..Len(popups) : i \in 1..Len(popups) /\ ~(i <= L)
    BY <2>2, <1>4
  <2>4. \A i \in 1..Len(popups) : ~(i <= L) => i \in (L + 1)..Len(popups)
    BY <2>2, <1>4
  <2> QED BY <2>1, <2>3, <2>4, <1>4, <1>5
<1> DEFINE pl == PlaceOf(f)
<1>9. /\ pl.origin = left + geom[f].x + edge /\ pl.width = geom[f].w
      /\ pl.view = Translated(vpt[v], left) /\ pl.above = Above(v)
  BY DEF PlaceOf
<1>10. pl \in Place
  <2>1. left + geom[f].x + edge \in Int
    <3> HIDE DEF left, edge
    <3> QED BY <1>1, <1>2, <1>3
  <2>2. pl = [origin |-> left + geom[f].x + edge, width |-> geom[f].w,
              view |-> Translated(vpt[v], left), above |-> Above(v)]
    BY DEF PlaceOf
  <2> HIDE DEF pl, left, edge, v
  <2> QED BY <2>1, <2>2, <1>2, <1>6, <1>8 DEF Place, Region
<1>11. ASSUME NEW p \in Cell
       PROVE  p \in Visible(PlaceOf(f)) <=> Seen(f, p)
  <2>1. p \in Translated(vpt[v], left) <=> p - left \in vpt[v]
    <3>1. p \in Int
      BY <1>5
    <3>2. ASSUME NEW q \in vpt[v], p = q + left PROVE p - left \in vpt[v]
      <4>1. p - left = q
        BY <3>2, <1>1, <1>2
      <4> QED BY <4>1
    <3>3. p = (p - left) + left
      BY <3>1, <1>1
    <3> HIDE DEF left, v
    <3> QED BY <3>2, <3>3 DEF Translated
  <2>2. p \notin Above(v) <=> \A i \in 1..Len(popups) :
                               p \in Area[popups[i]] => i <= Level(FindPopup(v))
    BY <1>8
  <2>3. p \in Visible(pl) <=>
          p \in pl.view /\ p \notin pl.above /\ p - pl.origin \in Image(pl.width)
    BY DEF Visible
  <2>4. Image(pl.width) = 0..(geom[f].w - 1)
    BY <1>9 DEF Image
  <2>5. Seen(f, p) <=>
          /\ p - left \in vpt[v]
          /\ p - pl.origin \in 0..(geom[f].w - 1)
          /\ \A i \in 1..Len(popups) : p \in Area[popups[i]] => i <= Level(FindPopup(v))
    BY DEF Seen
  <2>6. p \in Visible(pl) <=> Seen(f, p)
    <3> HIDE DEF pl, left, v
    <3> QED BY <2>1, <2>2, <2>3, <2>4, <2>5, <1>9
  <2> QED BY <2>6
<1> QED BY <1>10, <1>11

\* A composition draws waveform f at the cells where it is seen and is dirty
\* or has something redrawn under it.
LEMMA ClipSeen ==
  ASSUME TypeOK, NEW f \in Form, NEW S \in SUBSET Cell, NEW p \in Cell
  PROVE  p \in EffectiveClip(PlaceOf(f), dirty[f], S) <=>
           Seen(f, p) /\ (p - PlaceOf(f).origin \in dirty[f] \/ p \in S)
<1> DEFINE pl == PlaceOf(f)
<1>1. pl \in Place /\ (p \in Visible(pl) <=> Seen(f, p))
  BY PlaceSeen
<1>2. p \in Int /\ S \in Region /\ dirty[f] \in Region
  BY DEF Cell, Region, TypeOK
<1> HIDE DEF pl
<1>3. pl.origin \in Int
  BY <1>1 DEF Place
<1>4. EffectiveClip(pl, dirty[f], S)
        = Visible(pl) \cap (Translated(dirty[f], pl.origin) \cup S)
  BY <1>1, <1>2, ClipExact
<1>5. p \in Translated(dirty[f], pl.origin) <=> p - pl.origin \in dirty[f]
  <2>1. ASSUME NEW q \in dirty[f], p = q + pl.origin PROVE p - pl.origin \in dirty[f]
    <3>1. p - pl.origin = q
      BY <2>1, <1>2, <1>3 DEF Region
    <3> QED BY <3>1
  <2>2. p = (p - pl.origin) + pl.origin
    BY <1>2, <1>3
  <2> QED BY <2>1, <2>2 DEF Translated
<1>6. p \in EffectiveClip(pl, dirty[f], S) <=>
        Seen(f, p) /\ (p - pl.origin \in dirty[f] \/ p \in S)
  BY <1>1, <1>4, <1>5
<1> QED BY <1>6 DEF pl

------------------------------------------------------------------------------
(* The inductive invariant.                                                 *)

\* A view that is not open lists no waveforms, a view lists waveforms of its
\* own only, and the waveforms that exist are those which are listed, except
\* while their view is being closed.
Listed ==
  /\ views \subseteq used
  /\ \A v \in View : wfs[v] \subseteq used /\ (v \notin views => wfs[v] = {})
  /\ \A v \in View : \A f \in wfs[v] : Home[f] = v
  /\ \A f \in Form : f \in alive <=> f \in wfs[Home[f]] /\ Home[f] # closing
  /\ \A f \in Form : f \notin alive => geom[f] = Null

\* The invariant needs Apart, which the actions of the application keep, and
\* Listed to say that a view whose waveforms are gone shows nothing.
IInv == TypeOK /\ Listed /\ Apart

LEMMA RegisteredForms == TypeOK => Registered \subseteq Form
BY DEF TypeOK, Registered

\* Whether a waveform is seen depends on its view, its geometry and the popups.
LEMMA SeenSame ==
  ASSUME NEW f \in Form, NEW p, popups' = popups,
         vpt'[Home[f]] = vpt[Home[f]], geom'[f] = geom[f]
  PROVE  Seen(f, p)' <=> Seen(f, p)
<1>1. \A q : IsOpen(q)' <=> IsOpen(q)
  BY DEF IsOpen
<1>2. \A q : Level(q)' = Level(q)
  BY DEF Level
<1>3. FindPopup(Home[f])' = FindPopup(Home[f])
  BY DEF FindPopup, IsOpen
<1>4. PlaceOf(f)'.origin = PlaceOf(f).origin
  BY DEF PlaceOf
<1> QED BY <1>2, <1>3, <1>4 DEF Seen

\* A waveform that is being deleted will have no cells.
LEMMA DeletedUnseen ==
  ASSUME NEW f \in Form, NEW p, geom'[f] = Null
  PROVE  ~Seen(f, p)'
<1>1. geom'[f].w = 0
  BY DEF Null
<1>2. 0..(geom'[f].w - 1) = {}
  BY <1>1
<1> QED BY <1>2 DEF Seen

\* Steps that keep the layout keep what depends on it.
LEMMA LayoutKept ==
  ASSUME TypeOK, Listed, Apart, UNCHANGED layout
  PROVE  Listed' /\ Apart'
<1>1. /\ views' = views /\ wfs' = wfs /\ alive' = alive /\ used' = used
      /\ vpt' = vpt /\ geom' = geom /\ popups' = popups /\ closing' = closing
  BY DEF layout
<1>2. Listed'
  BY <1>1 DEF Listed
<1>3. Registered' = Registered
  BY <1>1 DEF Registered
<1>4. \A f \in Registered, p \in Cell : Seen(f, p)' <=> Seen(f, p)
  BY <1>1, SeenSame, RegisteredForms
<1> QED BY <1>2, <1>3, <1>4 DEF Apart

\* Fewer waveforms, the others seen as before or less: still apart.
LEMMA StillApart ==
  ASSUME Apart, Registered' \subseteq Registered,
         \A f \in Registered', p \in Cell : Seen(f, p)' => Seen(f, p)
  PROVE  Apart'
BY DEF Apart

------------------------------------------------------------------------------
LEMMA InitInv == Init => IInv
<1> SUFFICES ASSUME Init PROVE IInv
  OBVIOUS
<1>1. TypeOK
  <2>1. popups \in Seq(Popup) /\ IsOpen(Root)
    BY WaveformsAssumption DEF Init, IsOpen
  <2> QED BY <2>1 DEF Init, TypeOK, Null
<1>2. Listed
  BY WaveformsAssumption DEF Init, Listed
<1>3. Apart
  BY DEF Init, Apart, Registered
<1> QED BY <1>1, <1>2, <1>3 DEF IInv

\* The screen keeps its type in a composition.
LEMMA CompositeType ==
  ASSUME TypeOK, NEW S \in SUBSET Cell, Composite(S)
  PROVE  /\ dirty' \in [Form -> SUBSET Nat]
         /\ screen' \in [Cell -> Form \cup {UI}]
<1>1. dirty' = [f \in Form |-> IF f \in Registered THEN {} ELSE dirty[f]]
  BY DEF Composite
<1> DEFINE clip(f) == EffectiveClip(PlaceOf(f), dirty[f], S)
           region  == S \cup UNION {clip(f) : f \in Registered}
           over(p) == {f \in Drawn : p \in clip(f)}
<1>2. screen' = [p \in Cell |->
                   IF p \notin region THEN screen[p]
                   ELSE IF over(p) = {} THEN UI ELSE CHOOSE f \in over(p) : TRUE]
  BY DEF Composite
<1>3. \A p \in Cell : over(p) \subseteq Form
  BY RegisteredForms DEF Drawn
<1> HIDE DEF region, over
<1>4. \A p \in Cell : over(p) # {} => (CHOOSE f \in over(p) : TRUE) \in Form
  BY <1>3
<1>5. screen' \in [Cell -> Form \cup {UI}]
  BY <1>2, <1>4 DEF TypeOK
<1> QED BY <1>1, <1>5 DEF TypeOK

LEMMA CompositorStep ==
  ASSUME IInv, CompositorNext
  PROVE  IInv'
<1> USE WaveformsAssumption
<1>0. TypeOK /\ Listed /\ Apart
  BY DEF IInv
<1>1. ASSUME NEW v \in View, NEW r \in Rect, OpenView(v, r) PROVE IInv'
  <2> USE <1>1 DEF OpenView, Idle
  <2>1. TypeOK'
    <3>1. Clamped(v, r) \in SUBSET Nat
      BY DEF Clamped
    <3>2. IsOpen(Root)'
      BY <1>0 DEF TypeOK, IsOpen
    <3> QED BY <1>0, <3>1, <3>2 DEF TypeOK, readers
  <2>2. Listed'
    BY <1>0 DEF Listed
  <2>3. wfs[v] = {} /\ wfs \in [View -> SUBSET Form]
    BY <1>0 DEF Listed, TypeOK
  <2>4. Registered' = Registered
    BY <2>3 DEF Registered
  <2>5. \A f \in Registered : f \in Form /\ Home[f] # v
    BY <1>0, <2>3, RegisteredForms DEF Listed, Registered, TypeOK
  <2>6. \A f \in Registered, p \in Cell : Seen(f, p)' <=> Seen(f, p)
    <3> SUFFICES ASSUME NEW f \in Registered, NEW p \in Cell
                 PROVE  Seen(f, p)' <=> Seen(f, p)
      OBVIOUS
    <3>1. f \in Form /\ vpt'[Home[f]] = vpt[Home[f]]
      BY <1>0, <2>5 DEF TypeOK
    <3> QED BY <3>1, SeenSame
  <2>7. Apart'
    BY <1>0, <2>4, <2>6, StillApart
  <2> QED BY <2>1, <2>2, <2>7 DEF IInv
<1>2. ASSUME NEW v \in View, NEW r \in Rect, SetViewport(v, r) PROVE IInv'
  <2> USE <1>2 DEF SetViewport, Idle
  <2>1. TypeOK'
    <3>1. Clamped(v, r) \in SUBSET Nat
      BY DEF Clamped
    <3>2. IsOpen(Root)'
      BY <1>0 DEF TypeOK, IsOpen
    <3> QED BY <1>0, <3>1, <3>2 DEF TypeOK, readers
  <2>2. Listed'
    BY <1>0 DEF Listed
  <2> QED BY <2>1, <2>2 DEF IInv
<1>3. ASSUME NEW f \in Form, NEW r \in Rect, CreateForm(f, r) PROVE IInv'
  <2> USE <1>3 DEF CreateForm, Idle
  <2>1. TypeOK'
    <3>1. IsOpen(Root)'
      BY <1>0 DEF TypeOK, IsOpen
    <3> QED BY <1>0, <3>1 DEF TypeOK, readers
  <2>2. Listed'
    BY <1>0 DEF Listed, TypeOK
  <2> QED BY <2>1, <2>2 DEF IInv
<1>4. ASSUME NEW f \in Form, NEW r \in Rect, MoveForm(f, r) PROVE IInv'
  <2> USE <1>4 DEF MoveForm, Idle
  <2>1. TypeOK'
    <3>1. IsOpen(Root)'
      BY <1>0 DEF TypeOK, IsOpen
    <3> QED BY <1>0, <3>1 DEF TypeOK, readers
  <2>2. f \in alive
    BY <1>0 DEF Listed, Registered, TypeOK
  <2>3. Listed'
    BY <1>0, <2>2 DEF Listed, TypeOK
  <2> QED BY <2>1, <2>3 DEF IInv
<1>5. ASSUME NEW f \in Form, DestroyForm(f) PROVE IInv'
  <2> USE <1>5 DEF DestroyForm, Idle, Delete
  <2>1. TypeOK'
    <3>1. IsOpen(Root)'
      BY <1>0 DEF TypeOK, IsOpen
    <3> QED BY <1>0, <3>1 DEF TypeOK, readers, Null
  <2>2. Listed'
    BY <1>0 DEF Listed, TypeOK
  <2>3. Registered' \subseteq Registered \ {f}
    BY <1>0 DEF Registered, Listed, TypeOK
  <2>4. \A g \in Registered', p \in Cell : Seen(g, p)' => Seen(g, p)
    <3> SUFFICES ASSUME NEW g \in Registered', NEW p \in Cell
                 PROVE  Seen(g, p)' <=> Seen(g, p)
      OBVIOUS
    <3>1. g \in Form /\ geom'[g] = geom[g]
      BY <1>0, <2>3, RegisteredForms
    <3> QED BY <3>1, SeenSame
  <2>5. Apart'
    BY <1>0, <2>3, <2>4, StillApart
  <2> QED BY <2>1, <2>2, <2>5 DEF IInv
<1>6. ASSUME NEW v \in View, CloseView(v) PROVE IInv'
  <2> USE <1>6 DEF CloseView, Idle, Delete
  <2>1. TypeOK'
    <3>1. IsOpen(Root)'
      BY <1>0 DEF TypeOK, IsOpen
    <3> QED BY <1>0, <3>1 DEF TypeOK, readers, Null
  <2>2. Listed'
    BY <1>0 DEF Listed, TypeOK
  <2>3. Registered' = Registered
    BY DEF Registered
  <2>4. \A g \in Registered, p \in Cell : Seen(g, p)' => Seen(g, p)
    <3> SUFFICES ASSUME NEW g \in Registered, NEW p \in Cell
                 PROVE  Seen(g, p)' => Seen(g, p)
      OBVIOUS
    <3>1. g \in Form
      BY <1>0, RegisteredForms
    <3>2. CASE g \in wfs[v]
      <4>1. geom'[g] = Null
        BY <3>1, <3>2
      <4>2. ~Seen(g, p)'
        BY <3>1, <4>1, DeletedUnseen
      <4> QED BY <4>2
    <3>3. CASE g \notin wfs[v]
      <4>1. Home[g] # v /\ geom'[g] = geom[g]
        BY <1>0, <3>1, <3>3 DEF Registered, Listed, TypeOK
      <4>2. vpt'[Home[g]] = vpt[Home[g]]
        BY <1>0, <3>1, <4>1 DEF TypeOK
      <4> QED BY <3>1, <4>1, <4>2, SeenSame
    <3> QED BY <3>2, <3>3
  <2>5. Apart'
    BY <1>0, <2>3, <2>4, StillApart
  <2> QED BY <2>1, <2>2, <2>5 DEF IInv
<1>7. ASSUME ForgetView PROVE IInv'
  <2> USE <1>7 DEF ForgetView
  <2>0. closing \in View
    BY <1>0 DEF TypeOK
  <2>1. TypeOK'
    <3>1. IsOpen(Root)'
      BY <1>0 DEF TypeOK, IsOpen
    <3> QED BY <1>0, <2>0, <3>1 DEF TypeOK, readers
  <2>2. Listed'
    BY <1>0, <2>0 DEF Listed, TypeOK
  <2>3. Registered' \subseteq Registered
    BY <1>0, <2>0 DEF Registered, TypeOK
  <2>4. \A g \in Registered', p \in Cell : Seen(g, p)' => Seen(g, p)
    BY <1>0, <2>3, RegisteredForms, SeenSame
  <2>5. Apart'
    BY <1>0, <2>3, <2>4, StillApart
  <2> QED BY <2>1, <2>2, <2>5 DEF IInv
<1>8. ASSUME NEW p \in Popup, OpenPopup(p) PROVE IInv'
  <2> USE <1>8 DEF OpenPopup, Idle
  <2>1. popups' \in Seq(Popup)
    BY <1>0, AppendProperties DEF TypeOK
  <2>2. IsOpen(Root)'
    BY <1>0, AppendProperties DEF TypeOK, IsOpen
  <2>3. TypeOK'
    BY <1>0, <2>1, <2>2 DEF TypeOK, readers
  <2>4. Listed'
    BY <1>0 DEF Listed
  <2> QED BY <2>3, <2>4 DEF IInv
<1>9. ASSUME NEW p \in Popup, ClosePopup(p) PROVE IInv'
  <2> USE <1>9 DEF ClosePopup, Idle
  <2>1. popups' \in Seq(Popup) /\ IsOpen(Root)'
    <3>1. CASE ~IsOpen(p)
      BY <1>0, <3>1 DEF TypeOK, IsOpen
    <3>2. CASE IsOpen(p)
      <4> DEFINE i == Level(p)
      <4>1. i \in 1..Len(popups) /\ popups[i] = p
        BY <3>2, LevelOfOpen
      <4>2. popups \in Seq(Popup) /\ popups' = RemoveAt(popups, i)
        BY <1>0, <3>2 DEF TypeOK
      <4> HIDE DEF i
      <4>3. /\ popups' \in Seq(Popup) /\ Len(popups') = Len(popups) - 1
            /\ \A j \in 1..(Len(popups) - 1) :
                 popups'[j] = IF j < i THEN popups[j] ELSE popups[j + 1]
        BY <4>1, <4>2, RemoveAtProperties
      <4>4. PICK k \in 1..Len(popups) : popups[k] = Root
        BY <1>0 DEF TypeOK, IsOpen
      <4>5. Len(popups) \in Nat /\ k # i
        BY <4>1, <4>2, <4>4, LenProperties
      <4>6. \E j \in 1..(Len(popups) - 1) : popups'[j] = Root
        <5>1. CASE k < i
          <6>1. k \in 1..(Len(popups) - 1) /\ popups'[k] = popups[k]
            BY <4>1, <4>3, <4>5, <5>1
          <6> QED BY <6>1, <4>4
        <5>2. CASE ~(k < i)
          <6>1. k - 1 \in 1..(Len(popups) - 1) /\ ~(k - 1 < i) /\ (k - 1) + 1 = k
            BY <4>1, <4>5, <5>2
          <6>2. popups'[k - 1] = popups[k]
            BY <4>3, <6>1
          <6> QED BY <6>1, <6>2, <4>4
        <5> QED BY <5>1, <5>2
      <4> QED BY <4>3, <4>6 DEF IsOpen
    <3> QED BY <3>1, <3>2
  <2>2. TypeOK'
    BY <1>0, <2>1 DEF TypeOK, readers
  <2>3. Listed'
    BY <1>0 DEF Listed
  <2> QED BY <2>2, <2>3 DEF IInv
<1>10. ASSUME NEW S \in SUBSET Cell, UiFlush(S) PROVE IInv'
  <2> USE <1>10 DEF UiFlush
  <2>1. dirty' \in [Form -> SUBSET Nat] /\ screen' \in [Cell -> Form \cup {UI}]
    BY <1>0, CompositeType
  <2>2. TypeOK'
    <3>1. IsOpen(Root)'
      BY <1>0 DEF TypeOK, IsOpen, layout
    <3> QED BY <1>0, <2>1, <3>1 DEF TypeOK, readers, layout
  <2>3. Listed' /\ Apart'
    BY <1>0, LayoutKept
  <2> QED BY <2>2, <2>3 DEF IInv
<1> QED BY <1>1, <1>2, <1>3, <1>4, <1>5, <1>6, <1>7, <1>8, <1>9, <1>10
        DEF CompositorNext

LEMMA ReaderStep ==
  ASSUME IInv, NEW t \in Reader, ReaderNext(t)
  PROVE  IInv'
<1>0. TypeOK /\ Listed /\ Apart
  BY DEF IInv
<1>1. UNCHANGED layout
  BY DEF ReaderNext, Begin, Submit, Flush, LookUp, Mark
<1>2. Listed' /\ Apart'
  BY <1>0, <1>1, LayoutKept
<1>3. IsOpen(Root)'
  BY <1>0, <1>1 DEF TypeOK, IsOpen, layout
<1>4. pc' \in [Reader -> {"idle", "edit", "found", "marked", "wait"}]
  BY <1>0 DEF TypeOK, ReaderNext, Begin, Submit, Flush, LookUp, Mark
<1>5. held' \in [Reader -> Form \cup {Nil}]
  BY <1>0 DEF TypeOK, ReaderNext, Begin, Submit, Flush, LookUp, Mark
<1>6. dirty' \in [Form -> SUBSET Nat] /\ screen' \in [Cell -> Form \cup {UI}]
  <2>1. CASE Flush(t)
    <3>1. CASE Composite({})
      BY <1>0, <3>1, CompositeType
    <3>2. CASE UNCHANGED <<dirty, screen>>
      BY <1>0, <3>2 DEF TypeOK
    <3> QED BY <2>1, <3>1, <3>2 DEF Flush
  <2>2. ASSUME NEW S \in SUBSET Cell, Mark(t, S)
        PROVE  dirty' \in [Form -> SUBSET Nat] /\ screen' = screen
    <3>1. S \subseteq Nat
      BY DEF Cell
    <3> QED BY <1>0, <2>2, <3>1 DEF TypeOK, Mark
  <2>3. CASE Begin(t) \/ Submit(t) \/ \E f \in Form : LookUp(t, f)
    BY <1>0, <2>3 DEF TypeOK, Begin, Submit, LookUp
  <2> QED BY <1>0, <2>1, <2>2, <2>3 DEF ReaderNext, TypeOK
<1>7. TypeOK'
  BY <1>0, <1>1, <1>3, <1>4, <1>5, <1>6 DEF TypeOK, layout
<1> QED BY <1>2, <1>7 DEF IInv

LEMMA NextInv == IInv /\ [Next]_vars => IInv'
<1>1. IInv /\ CompositorNext => IInv'
  BY CompositorStep
<1>2. IInv /\ (\E t \in Reader : ReaderNext(t)) => IInv'
  BY ReaderStep
<1>3. IInv /\ UNCHANGED vars => IInv'
  <2> SUFFICES ASSUME IInv, UNCHANGED vars PROVE IInv'
    OBVIOUS
  <2>1. Listed' /\ Apart'
    BY LayoutKept DEF IInv, vars
  <2>2. IsOpen(Root)'
    BY DEF IInv, TypeOK, IsOpen, vars, layout
  <2>3. TypeOK'
    BY <2>2 DEF IInv, TypeOK, vars, layout, readers
  <2> QED BY <2>1, <2>3 DEF IInv
<1> QED BY <1>1, <1>2, <1>3 DEF Next

LEMMA Invariance == Spec => []IInv
<1>1. Init => IInv
  BY InitInv
<1>2. IInv /\ [Next]_vars => IInv'
  BY NextInv
<1> QED BY <1>1, <1>2, PTL DEF Spec

\* The variables keep their types: for every window, layout and set of ids.
THEOREM TypeCorrect == Spec => []TypeOK
<1>1. IInv => TypeOK
  BY DEF IInv
<1> QED BY <1>1, Invariance, PTL

\* Whoever gets m_mutex_wc finds the waveforms that exist and no others, for
\* every order in which views and waveforms are made and destroyed.
THEOREM RegistryCorrect == Spec => []RegistryMatches
<1>1. IInv => RegistryMatches
  <2> SUFFICES ASSUME IInv, closing = Nil PROVE Registered = alive
    BY DEF RegistryMatches
  <2>1. TypeOK /\ Listed
    BY DEF IInv
  <2>2. Registered \subseteq alive
    BY <2>1, WaveformsAssumption DEF Registered, Listed, TypeOK
  <2>3. ASSUME NEW f \in alive PROVE f \in Registered
    <3>1. f \in Form /\ Home[f] \in View /\ f \in wfs[Home[f]]
      BY <2>1, WaveformsAssumption DEF Listed, TypeOK
    <3>2. Home[f] \in views
      BY <2>1, <3>1 DEF Listed
    <3> QED BY <3>1, <3>2 DEF Registered
  <2> QED BY <2>2, <2>3
<1> QED BY <1>1, Invariance, PTL

------------------------------------------------------------------------------
(* What a composition paints.                                               *)

\* A waveform that is drawn over a cell of the composed region is the one that
\* is seen there; where none is drawn, none is seen.
LEMMA CompositeShows ==
  ASSUME IInv, NEW S \in SUBSET Cell, Composite(S), NEW p \in Cell
  PROVE  /\ screen'[p] # screen[p] => screen'[p] = Shown(p)
         /\ \A f \in Drawn : Seen(f, p) /\ p - PlaceOf(f).origin \in dirty[f]
                               => screen'[p] = f
<1> DEFINE clip(f) == EffectiveClip(PlaceOf(f), dirty[f], S)
           region  == S \cup UNION {clip(f) : f \in Registered}
           over(q) == {f \in Drawn : q \in clip(f)}
<1>1. screen'[p] = IF p \notin region THEN screen[p]
                   ELSE IF over(p) = {} THEN UI ELSE CHOOSE f \in over(p) : TRUE
  BY DEF Composite
<1>2. TypeOK /\ Apart
  BY DEF IInv
<1>3. Drawn \subseteq Registered /\ Registered \subseteq Form
  BY <1>2, RegisteredForms DEF Drawn
<1>4. \A f \in Form : p \in clip(f) <=>
        Seen(f, p) /\ (p - PlaceOf(f).origin \in dirty[f] \/ p \in S)
  BY <1>2, ClipSeen
<1>5. p \in region <=> p \in S \/ \E f \in Registered : p \in clip(f)
  OBVIOUS
<1>6. \A f : f \in over(p) <=> f \in Drawn /\ p \in clip(f)
  OBVIOUS
<1>7. \A f, g \in Registered : Seen(f, p) /\ Seen(g, p) => f = g
  BY <1>2 DEF Apart
<1> HIDE DEF clip, region, over
<1>8. CASE p \in region /\ over(p) = {}
  <2>1. screen'[p] = UI
    BY <1>1, <1>8
  <2>2. ASSUME NEW g \in Drawn, Seen(g, p) PROVE FALSE
    <3>1. g \in Registered /\ g \in Form /\ p \notin clip(g)
      BY <1>3, <1>6, <1>8
    <3>2. p \notin S
      BY <1>4, <2>2, <3>1
    <3>3. PICK f \in Registered : p \in clip(f)
      BY <1>5, <1>8, <3>2
    <3>4. Seen(f, p)
      BY <1>3, <1>4, <3>3
    <3>5. f = g
      BY <1>7, <2>2, <3>1, <3>4
    <3> QED BY <3>1, <3>3, <3>5
  <2>3. Shown(p) = UI
    BY <2>2 DEF Shown
  <2> QED BY <2>1, <2>2, <2>3
<1>9. CASE p \in region /\ over(p) # {}
  <2> DEFINE f == CHOOSE h \in over(p) : TRUE
             g == CHOOSE h \in Drawn : Seen(h, p)
  <2>1. screen'[p] = f /\ f \in over(p)
    BY <1>1, <1>9
  <2> HIDE DEF f
  <2>2. f \in Drawn /\ Seen(f, p)
    BY <2>1, <1>3, <1>4, <1>6
  <2>3. g \in Drawn /\ Seen(g, p) /\ Shown(p) = g
    BY <2>2 DEF Shown
  <2> HIDE DEF g
  <2>4. f = g
    BY <1>3, <1>7, <2>2, <2>3
  <2>5. \A h \in Drawn : Seen(h, p) => h = f
    BY <1>3, <1>7, <2>2
  <2> QED BY <2>1, <2>3, <2>4, <2>5
<1>10. CASE p \notin region
  <2>1. screen'[p] = screen[p]
    BY <1>1, <1>10
  <2>2. \A f \in Drawn : ~(Seen(f, p) /\ p - PlaceOf(f).origin \in dirty[f])
    BY <1>3, <1>4, <1>5, <1>10
  <2> QED BY <2>1, <2>2
<1> QED BY <1>8, <1>9, <1>10

\* A composition never paints a cell with anything but what is seen there, for
\* every window, layout of views, popups and waveforms, and number of threads'
\* steps in between.
THEOREM PaintCorrect == Spec => PaintsTruth
<1>1. IInv /\ [Next]_vars =>
        [\A p \in Cell : screen'[p] # screen[p] => screen'[p] = Shown(p)]_vars
  <2> SUFFICES ASSUME IInv, Next, NEW p \in Cell, screen'[p] # screen[p]
               PROVE  screen'[p] = Shown(p)
    OBVIOUS
  <2>1. ASSUME NEW S \in SUBSET Cell, UiFlush(S) PROVE screen'[p] = Shown(p)
    BY <2>1, CompositeShows DEF UiFlush
  <2>2. ASSUME NEW t \in Reader, Flush(t) PROVE screen'[p] = Shown(p)
    <3>1. Composite({})
      BY <2>2 DEF Flush
    <3> QED BY <3>1, CompositeShows
  <2>3. CASE CompositorNext
    BY <2>1, <2>3 DEF CompositorNext, OpenView, SetViewport, CreateForm, MoveForm,
       DestroyForm, CloseView, ForgetView, OpenPopup, ClosePopup
  <2>4. ASSUME NEW t \in Reader, ReaderNext(t) PROVE screen'[p] = Shown(p)
    BY <2>2, <2>4 DEF ReaderNext, Begin, Submit, LookUp, Mark
  <2> QED BY <2>3, <2>4 DEF Next
<1> QED BY <1>1, Invariance, PTL DEF Spec, PaintsTruth

\* When endUpdateWaves returns, what the waveform thread has marked dirty is on
\* the screen, as far as it can be seen.
THEOREM FlushCorrect == Spec => FlushShows
<1> DEFINE A == pc["wave"] = "wait" /\ pc'["wave"] = "idle" =>
                  \A f \in Drawn, p \in Cell :
                    Seen(f, p) /\ p - PlaceOf(f).origin \in dirty[f] => screen'[p] = f
<1>1. IInv /\ [Next]_vars => [A]_vars
  <2> SUFFICES ASSUME IInv, Next, pc["wave"] = "wait", pc'["wave"] = "idle"
               PROVE  \A f \in Drawn, p \in Cell :
                        Seen(f, p) /\ p - PlaceOf(f).origin \in dirty[f] => screen'[p] = f
    OBVIOUS
  <2>1. ~CompositorNext
    BY DEF CompositorNext, OpenView, SetViewport, CreateForm, MoveForm, DestroyForm,
       CloseView, ForgetView, OpenPopup, ClosePopup, UiFlush, readers
  <2>2. pc \in [Reader -> {"idle", "edit", "found", "marked", "wait"}] /\ "wave" \in Reader
    BY DEF IInv, TypeOK, Reader
  <2>3. PICK t \in Reader : ReaderNext(t)
    BY <2>1 DEF Next
  <2>4. t = "wave"
    BY <2>2, <2>3 DEF ReaderNext, Begin, Submit, Flush, LookUp, Mark, readers
  <2>5. Flush("wave")
    BY <2>2, <2>3, <2>4 DEF ReaderNext, Begin, Submit, LookUp, Mark
  <2>6. Composite({})
    BY <2>5 DEF Flush
  <2> QED BY <2>6, CompositeShows
<1> QED BY <1>1, Invariance, PTL DEF Spec, FlushShows

------------------------------------------------------------------------------
(* What an application has to see to.                                       *)

\* No waveform is deleted while a thread is between its look-up and its mark.
Synchronised == [][(\E t \in Reader : pc[t] = "found") => alive \subseteq alive']_vars

\* An application that deletes no waveform while another thread marks one is
\* safe, though the look-up and the mark are not one step: m_mutex_wc makes the
\* look-up find only what exists.  (In the code nothing sees to the condition.)
THEOREM LiveIfSynchronised == Spec /\ Synchronised => []UsesLive
<1> DEFINE A == (\E t \in Reader : pc[t] = "found") => alive \subseteq alive'
<1>1. Init => UsesLive
  BY DEF Init, UsesLive
<1>2. RegistryMatches /\ TypeOK /\ UsesLive /\ [Next]_vars /\ [A]_vars => UsesLive'
  <2> SUFFICES ASSUME RegistryMatches, TypeOK, UsesLive, [Next]_vars, [A]_vars,
                      NEW t \in Reader, pc'[t] = "found", held'[t] # Nil
               PROVE  held'[t] \in alive'
    BY DEF UsesLive
  <2>1. CASE UNCHANGED vars
    BY <2>1 DEF vars, layout, readers, UsesLive
  <2>2. CASE CompositorNext
    <3>1. UNCHANGED readers
      BY <2>2 DEF CompositorNext, OpenView, SetViewport, CreateForm, MoveForm, DestroyForm,
                  CloseView, ForgetView, OpenPopup, ClosePopup, UiFlush
    <3>2. held[t] \in alive /\ pc[t] = "found"
      BY <3>1 DEF readers, UsesLive
    <3>3. A \/ UNCHANGED vars
      OBVIOUS
    <3> QED BY <3>1, <3>2, <3>3 DEF readers, vars, layout
  <2>3. ASSUME NEW u \in Reader, ReaderNext(u) PROVE held'[t] \in alive'
    <3>1. UNCHANGED layout
      BY <2>3 DEF ReaderNext, Begin, Submit, Flush, LookUp, Mark
    <3>2. CASE pc'[t] = pc[t] /\ held'[t] = held[t]
      BY <3>1, <3>2 DEF layout, UsesLive
    <3>3. CASE ~(pc'[t] = pc[t] /\ held'[t] = held[t])
      <4>1. u = t
        BY <2>3, <3>3 DEF ReaderNext, Begin, Submit, Flush, LookUp, Mark, TypeOK
      <4>2. PICK f \in Form : LookUp(t, f)
        BY <2>3, <4>1 DEF ReaderNext, Begin, Submit, Flush, Mark, TypeOK
      <4>3. held'[t] \in Registered /\ closing = Nil
        BY <4>2 DEF LookUp, TypeOK
      <4> QED BY <3>1, <4>3 DEF layout, RegistryMatches
    <3> QED BY <3>2, <3>3
  <2> QED BY <2>1, <2>2, <2>3 DEF Next
<1> QED
  BY <1>1, <1>2, TypeCorrect, RegistryCorrect, PTL DEF Spec, Synchronised

===============================================================================
