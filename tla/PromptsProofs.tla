----------------------------- MODULE PromptsProofs -----------------------------
(***************************************************************************)
(* On the way of a prompt: the focus of the overlays, for every number of   *)
(* overlays and every order of their operations; where a branch of a        *)
(* session is compacted and what the LLM is sent of it, for every budget,   *)
(* every size of results and every length of branch; and the editor it is   *)
(* written in, for every number of keys, characters and pastes.             *)
(***************************************************************************)
EXTENDS Overlays, Compaction, PromptEditor, SequenceLemmas, FiniteSetTheorems, TLAPS

\* The component that gets the focus is an overlay of the stack, or the one
\* named for the case that there is none.
LEMMA TopmostInStack ==
    ASSUME NEW s \in Seq(Overlay), NEW h, NEW otherwise
    PROVE  Topmost(s, h, otherwise) \in ToSet(s) \cup {otherwise}
<1> DEFINE visible == {i \in DOMAIN s : IsVisible(s[i], h)}
<1>1. CASE visible = {}
  BY <1>1 DEF Topmost
<1>2. CASE visible # {}
  <2>1. Len(s) \in Nat /\ DOMAIN s = 1..Len(s)
    OBVIOUS
  <2>2. Max(visible) \in DOMAIN s
    <3>1. visible \in SUBSET (1..Len(s))
      BY <2>1
    <3> HIDE DEF visible
    <3>2. Max(visible) \in visible
      BY <1>2, <2>1, <3>1, GreatestExists
    <3> QED
      BY <2>1, <3>1, <3>2
  <2>3. Topmost(s, h, otherwise) = s[Max(visible)]
    BY <1>2 DEF Topmost
  <2> HIDE DEF visible
  <2> QED
    BY <2>2, <2>3 DEF ToSet
<1> QED
  BY <1>1, <1>2

-------------------------------------------------------------------------------
(* FocusAlive is inductive: the entries of the stack are ordered by the time *)
(* they were shown, and preFocus points downwards.                           *)

\* What is below place i of the stack.
Below(i) == {Editor} \cup {stack[j] : j \in 1..(i - 1)}

LEMMA FocusInit == OverlaysInit => FocusAlive
<1> SUFFICES ASSUME OverlaysInit PROVE FocusAlive
  OBVIOUS
<1>1. stack \in Seq(Overlay) /\ ToSet(stack) = {} /\ DOMAIN stack = {}
  BY DEF OverlaysInit, ToSet
<1> QED
  BY <1>1 DEF OverlaysInit, FocusAlive, OverlaysTypeOK, IsInjective

LEMMA ShowOverlayAlive ==
    ASSUME FocusAlive, NEW o \in Overlay, ShowOverlay(o)
    PROVE  FocusAlive'
<1>1. /\ stack' \in Seq(Overlay) /\ Len(stack') = Len(stack) + 1
      /\ stack'[Len(stack) + 1] = o
      /\ \A i \in 1..Len(stack) : stack'[i] = stack[i]
  BY AppendProperties DEF ShowOverlay, FocusAlive, OverlaysTypeOK
<1>2. ToSet(stack') = ToSet(stack) \cup {o}
  BY <1>1 DEF ToSet, FocusAlive, OverlaysTypeOK
<1>3. \A i \in 1..Len(stack) : stack[i] # o
  BY DEF ToSet, ShowOverlay, FocusAlive, OverlaysTypeOK
<1>4. OverlaysTypeOK'
  <2>1. IsInjective(stack')
    BY <1>1, <1>3 DEF IsInjective, FocusAlive, OverlaysTypeOK
  <2> QED
    BY <1>1, <1>2, <2>1 DEF ShowOverlay, FocusAlive, OverlaysTypeOK
<1>5. ASSUME Nested
      PROVE  /\ focused' \in ToSet(stack') \cup {Editor}
             /\ \A i \in DOMAIN stack' : preFocus'[stack'[i]] \in Below(i)'
  <2>1. focused' \in ToSet(stack') \cup {Editor}
    BY <1>2, <1>5 DEF ShowOverlay, FocusAlive
  <2>2. ASSUME NEW i \in 1..Len(stack) PROVE preFocus'[stack'[i]] \in Below(i)'
    <3>1. preFocus'[stack'[i]] = preFocus[stack[i]]
      BY <1>1, <1>3 DEF ShowOverlay, FocusAlive, OverlaysTypeOK
    <3>2. preFocus[stack[i]] \in Below(i)
      BY <1>5 DEF FocusAlive, OverlaysTypeOK, Below
    <3> QED
      BY <1>1, <3>1, <3>2 DEF Below
  <2>3. ASSUME NEW i \in {Len(stack) + 1} PROVE preFocus'[stack'[i]] \in Below(i)'
    <3>1. preFocus'[o] = focused
      BY DEF ShowOverlay, FocusAlive, OverlaysTypeOK
    <3>2. focused \in {Editor} \cup {stack[j] : j \in 1..Len(stack)}
      BY <1>5 DEF FocusAlive, OverlaysTypeOK, ToSet
    <3> QED
      BY <1>1, <3>1, <3>2 DEF Below
  <2>4. \A i \in DOMAIN stack' : i \in 1..Len(stack) \/ i \in {Len(stack) + 1}
    BY <1>1 DEF FocusAlive, OverlaysTypeOK
  <2> QED
    BY <1>1, <2>1, <2>2, <2>3, <2>4
<1> QED
  BY <1>4, <1>5 DEF FocusAlive, Below

\* An overlay that is taken out of the stack, with whom the focus goes to.
LEMMA RemovedAlive ==
    ASSUME FocusAlive, NEW i \in 1..Len(stack), Nested => i = Len(stack),
           stack' = RemoveAt(stack, i), hidden' = hidden \ {stack[i]},
           UNCHANGED <<preFocus, small>>,
           \/ focused' = focused /\ focused # stack[i]
           \/ focused' = Topmost(stack', hidden, preFocus[stack[i]])
    PROVE  FocusAlive'
<1>1. stack \in Seq(Overlay) /\ Len(stack) \in Nat /\ DOMAIN stack = 1..Len(stack) /\ IsInjective(stack)
  BY DEF FocusAlive, OverlaysTypeOK
<1>2. /\ stack' \in Seq(Overlay) /\ DOMAIN stack' = 1..(Len(stack) - 1)
      /\ ToSet(stack') = ToSet(stack) \ {stack[i]} /\ IsInjective(stack')
      /\ \A k \in 1..(i - 1) : stack'[k] = stack[k]
  BY <1>1, RemoveAtInjective
<1>3. stack[i] \in Overlay /\ preFocus[stack[i]] \in Overlay \cup {Editor}
  <2>1. stack[i] \in Overlay
    BY <1>1, ElementOfSeq
  <2> QED
    BY <2>1 DEF FocusAlive, OverlaysTypeOK
<1>4. focused' \in ToSet(stack') \cup {preFocus[stack[i]], focused}
  BY <1>2, TopmostInStack
<1>5. OverlaysTypeOK'
  <2>1. hidden' \subseteq ToSet(stack')
    BY <1>2 DEF FocusAlive, OverlaysTypeOK
  <2>2. focused' \in Overlay \cup {Editor}
    <3>1. ToSet(stack') \subseteq Overlay
      BY <1>2, ToSetOfSeq
    <3> QED
      BY <1>3, <1>4, <3>1 DEF FocusAlive, OverlaysTypeOK
  <2> QED
    BY <1>2, <2>1, <2>2 DEF FocusAlive, OverlaysTypeOK
<1>6. ASSUME Nested
      PROVE  /\ focused' \in ToSet(stack') \cup {Editor}
             /\ \A k \in DOMAIN stack' : preFocus'[stack'[k]] \in Below(k)'
  <2>1. i = Len(stack) /\ \A k \in DOMAIN stack' : stack'[k] = stack[k]
    BY <1>1, <1>2, <1>6
  <2>2. preFocus[stack[i]] \in ToSet(stack') \cup {Editor}
    <3>1. preFocus[stack[i]] \in {Editor} \cup {stack[j] : j \in 1..(i - 1)}
      BY <1>1, <1>6 DEF FocusAlive
    <3> QED
      BY <1>2, <2>1, <3>1 DEF ToSet
  <2>3. focused' \in ToSet(stack') \cup {Editor}
    <3>1. CASE focused' = focused /\ focused # stack[i]
      BY <1>2, <1>6, <3>1 DEF FocusAlive
    <3>2. CASE focused' = Topmost(stack', hidden, preFocus[stack[i]])
      BY <1>2, <2>2, <3>2, TopmostInStack
    <3> QED
      BY <3>1, <3>2
  <2>4. ASSUME NEW k \in DOMAIN stack' PROVE preFocus'[stack'[k]] \in Below(k)'
    <3>1. k \in 1..Len(stack) /\ preFocus[stack[k]] \in {Editor} \cup {stack[j] : j \in 1..(k - 1)}
      BY <1>1, <1>2, <1>6, <2>4 DEF FocusAlive
    <3>2. \A j \in 1..(k - 1) : stack'[j] = stack[j]
      BY <1>1, <1>2, <2>1
    <3> QED
      BY <2>1, <3>1, <3>2 DEF Below
  <2> QED
    BY <2>3, <2>4
<1> QED
  BY <1>5, <1>6 DEF FocusAlive, Below

LEMMA HideAlive ==
    ASSUME FocusAlive, NEW o \in Overlay, Hide(o)
    PROVE  FocusAlive'
<1>1. PICK i \in DOMAIN stack : stack[i] = o /\ stack' = RemoveAt(stack, i)
  BY DEF Hide
<1>2. DOMAIN stack = 1..Len(stack) /\ Len(stack) \in Nat
  BY DEF FocusAlive, OverlaysTypeOK
<1>3. Nested => i = Len(stack)
  BY <1>1, <1>2 DEF Hide, Last, FocusAlive, OverlaysTypeOK, IsInjective
<1>4. \/ focused' = focused /\ focused # stack[i]
      \/ focused' = Topmost(stack', hidden, preFocus[stack[i]])
  BY <1>1 DEF Hide, Refocus
<1> QED
  BY <1>1, <1>2, <1>3, <1>4, RemovedAlive DEF Hide

LEMMA HideOverlayAlive ==
    ASSUME FocusAlive, HideOverlay
    PROVE  FocusAlive'
<1>1. stack \in Seq(Overlay) /\ Len(stack) \in Nat \ {0}
  BY DEF HideOverlay, FocusAlive, OverlaysTypeOK
<1>2. stack' = RemoveAt(stack, Len(stack))
  <2>1. SubSeq(stack, Len(stack) + 1, Len(stack)) = <<>>
    BY <1>1, SubSeqEmpty
  <2>2. SubSeq(stack, 1, Len(stack) - 1) \in Seq(Overlay)
    BY <1>1, SubSeqProperties
  <2> QED
    BY <2>1, <2>2, ConcatEmptySeq DEF HideOverlay, Front, RemoveAt
<1> QED
  BY <1>1, <1>2, RemovedAlive DEF HideOverlay, Last

\* The focus goes somewhere else, and nothing else that matters changes.
LEMMA MovedAlive ==
    ASSUME FocusAlive, UNCHANGED <<stack, preFocus>>,
           hidden' \subseteq ToSet(stack), small' \in BOOLEAN,
           \/ focused' \in ToSet(stack) \cup {focused}
           \/ \E o \in ToSet(stack) : \E h : focused' = Topmost(stack, h, preFocus[o])
    PROVE  FocusAlive'
<1>1. stack \in Seq(Overlay) /\ ToSet(stack) \subseteq Overlay
  BY ToSetOfSeq DEF FocusAlive, OverlaysTypeOK
<1>2. focused' \in ToSet(stack) \cup {focused} \cup {preFocus[o] : o \in ToSet(stack)}
  <2>1. \A o \in ToSet(stack) : \A h : Topmost(stack, h, preFocus[o]) \in ToSet(stack) \cup {preFocus[o]}
    BY <1>1, TopmostInStack
  <2> QED
    BY <2>1
<1>3. Nested => \A o \in ToSet(stack) : preFocus[o] \in ToSet(stack) \cup {Editor}
  <2> SUFFICES ASSUME Nested, NEW i \in DOMAIN stack
               PROVE  preFocus[stack[i]] \in ToSet(stack) \cup {Editor}
    BY DEF ToSet
  <2>1. i \in 1..Len(stack) /\ Len(stack) \in Nat
    BY <1>1
  <2>2. preFocus[stack[i]] \in {Editor} \cup {stack[j] : j \in 1..(i - 1)}
    BY DEF FocusAlive
  <2> QED
    BY <1>1, <2>1, <2>2 DEF ToSet
<1> QED
  BY <1>1, <1>2, <1>3 DEF FocusAlive, OverlaysTypeOK

LEMMA SetHiddenAlive ==
    ASSUME FocusAlive, NEW o \in Overlay, SetHidden(o)
    PROVE  FocusAlive'
<1>1. hidden' \subseteq ToSet(stack) /\ small' \in BOOLEAN
  BY DEF SetHidden, FocusAlive, OverlaysTypeOK
<1>2. \/ focused' \in ToSet(stack) \cup {focused}
      \/ \E h : focused' = Topmost(stack, h, preFocus[o])
  BY DEF SetHidden, Refocus
<1> QED
  BY <1>1, <1>2, MovedAlive DEF SetHidden

LEMMA KeyAlive ==
    ASSUME FocusAlive, Key
    PROVE  FocusAlive'
<1>1. \/ focused' \in ToSet(stack) \cup {focused}
      \/ \E o \in ToSet(stack) : \E h : focused' = Topmost(stack, h, preFocus[o])
  BY DEF Key, Target
<1> QED
  BY <1>1, MovedAlive DEF Key, FocusAlive, OverlaysTypeOK

LEMMA FocusNext == FocusAlive /\ [OverlaysNext]_overlayVars => FocusAlive'
<1> SUFFICES ASSUME FocusAlive, [OverlaysNext]_overlayVars PROVE FocusAlive'
  OBVIOUS
<1>1. CASE OverlaysNext
  <2>1. CASE Resize
    BY <2>1, MovedAlive DEF Resize, FocusAlive, OverlaysTypeOK
  <2> QED
    BY <1>1, <2>1, ShowOverlayAlive, HideAlive, SetHiddenAlive, HideOverlayAlive, KeyAlive
    DEF OverlaysNext
<1>2. CASE UNCHANGED overlayVars
  BY <1>2, MovedAlive DEF overlayVars, FocusAlive, OverlaysTypeOK
<1> QED
  BY <1>1, <1>2

\* However overlays come, hide and go, and the terminal changes its size, every
\* key goes to a component that is there; and as long as only the topmost one
\* is closed, so will it when the focus is given back.
THEOREM FocusStaysAlive == OverlaysSpec => []FocusAlive
BY FocusInit, FocusNext, PTL DEF OverlaysSpec

-------------------------------------------------------------------------------
(* Greatest and least places.                                                *)

LEMMA MinIn ==
    ASSUME NEW S \in SUBSET Nat, S # {}
    PROVE  Min(S) \in S /\ \A i \in S : Min(S) <= i
<1> DEFINE R == OpToRel(<, Nat)
<1>1. PICK x \in S : \A y \in S : ~(<<y, x>> \in R)
  <2> HIDE DEF R
  <2>1. IsWellFoundedOn(R, Nat)
    BY NatLessThanWellFounded DEF R
  <2> QED
    BY <2>1, WFMin
<1>2. \A y \in S : x <= y
  <2> SUFFICES ASSUME NEW y \in S PROVE x <= y
    OBVIOUS
  <2>1. x \in Nat /\ y \in Nat
    OBVIOUS
  <2>2. y < x => <<y, x>> \in R
    BY <2>1 DEF OpToRel
  <2> HIDE DEF R
  <2> QED
    BY <1>1, <2>1, <2>2
<1> QED
  BY <1>2 DEF Min

LEMMA MaxIn ==
    ASSUME NEW n \in Nat, NEW S \in SUBSET (0..n), S # {}
    PROVE  Max(S) \in S /\ \A i \in S : Max(S) >= i
<1> DEFINE T == {n - i : i \in S}
<1>1. T \in SUBSET Nat /\ T # {}
  <2>1. PICK i \in S : TRUE
    OBVIOUS
  <2>2. n - i \in T
    BY <2>1
  <2>3. \A k \in S : n - k \in Nat
    OBVIOUS
  <2> QED
    BY <2>2, <2>3
<1> DEFINE x == Min(T)
<1>2. x \in T /\ \A y \in T : x <= y
  <2> HIDE DEF T
  <2> QED
    BY <1>1, MinIn
<1> HIDE DEF x
<1>3. n - x \in S /\ \A i \in S : n - x >= i
  <2>1. PICK k \in S : x = n - k
    BY <1>2
  <2>2. \A i \in S : x <= n - i /\ i \in Nat
    BY <1>2
  <2> QED
    BY <2>1, <2>2
<1> QED
  BY <1>3 DEF Max

-------------------------------------------------------------------------------
(* What is said of a branch, said of any sequence of entries.                *)

Among(s, types, positions) == {i \in positions : s[i].type \in types}
LastAmong(s, end) == Max(Among(s, {"compaction"}, 1..end) \cup {0})
Units(s, positions) == UNION {{i} \X (1..s[i].tokens) : i \in Among(s, Messages, positions)}
Size(s, positions) == Cardinality(Units(s, positions))

Since(s, p) == (LastAmong(s, p - 1) + 1)..(p - 1)

Kept(s, p) == Among(s, Messages, s[p].keeps..(p - 1))

\* The conjuncts of CutExact, and that compactions do not follow one another.
CutWell(s, p) ==
    /\ LastAmong(s, p - 1) < p - 1
    /\ s[p].keeps \in 1..(p - 1) /\ s[p].covers \subseteq 1..(p - 1)
    /\ Among(s, InContext, Since(s, p)) \subseteq s[p].covers \cup (s[p].keeps..(p - 1))
    /\ \A c \in Among(s, CutPoints, Since(s, p)) : Size(s, c..(p - 1)) < KeepRecentTokens => s[p].keeps <= c
    /\ \/ Kept(s, p) = {} \/ Size(s, (Min(Kept(s, p)) + 1)..(p - 1)) < KeepRecentTokens
       \/ Among(s, CutPoints, Min(Since(s, p))..(s[p].keeps - 1)) = {}

AllCutWell(s) == \A p \in Among(s, {"compaction"}, DOMAIN s) : CutWell(s, p)

\* Where both say the same.
SameUpTo(s, t, n) == \A i \in 1..n : s[i] = t[i]

CutInv ==
    /\ path \in Seq(PathEntries) /\ Len(path) <= MaxLength
    /\ owed # {} => running /\ \E i \in DOMAIN path : owed \subseteq path[i].calls
    /\ AllCutWell(path)

LEMMA CutInvExact == CutInv => CutExact
BY DEF CutInv, CutExact, CompactionTypeOK, SummarizedOrKept, KeepsJustRecent, AllCutWell, CutWell, Kept, Since,
       Size, Units, LastAmong, Among, Of, Tokens, LastCompaction

\* What is said of a place says nothing of what comes behind it.
LEMMA AmongSame ==
    ASSUME NEW s, NEW t, NEW n \in Nat, SameUpTo(s, t, n),
           NEW types, NEW positions \in SUBSET (1..n)
    PROVE  Among(s, types, positions) = Among(t, types, positions)
BY DEF Among, SameUpTo

LEMMA SizeSame ==
    ASSUME NEW s, NEW t, NEW n \in Nat, SameUpTo(s, t, n), NEW positions \in SUBSET (1..n)
    PROVE  Size(s, positions) = Size(t, positions)
<1>1. Among(s, Messages, positions) = Among(t, Messages, positions)
  BY AmongSame
<1>2. \A i \in Among(s, Messages, positions) : {i} \X (1..s[i].tokens) = {i} \X (1..t[i].tokens)
  BY DEF Among, SameUpTo
<1>3. Units(s, positions) = Units(t, positions)
  BY <1>1, <1>2 DEF Units
<1> QED
  BY <1>3 DEF Size

LEMMA LastAmongIn ==
    ASSUME NEW s, NEW n \in Nat
    PROVE  /\ LastAmong(s, n) \in Among(s, {"compaction"}, 1..n) \cup {0}
           /\ \A i \in Among(s, {"compaction"}, 1..n) : LastAmong(s, n) >= i
           /\ LastAmong(s, n) \in 0..n
<1> DEFINE S == Among(s, {"compaction"}, 1..n) \cup {0}
<1>1. S \in SUBSET (0..n) /\ S # {}
  BY DEF Among
<1>2. LastAmong(s, n) = Max(S)
  BY DEF LastAmong
<1> HIDE DEF S
<1>3. Max(S) \in S /\ \A i \in S : Max(S) >= i
  BY <1>1, MaxIn
<1> QED
  BY <1>1, <1>2, <1>3 DEF S

LEMMA CutWellSame ==
    ASSUME NEW s, NEW t, NEW p \in Nat \ {0}, SameUpTo(s, t, p), CutWell(s, p)
    PROVE  CutWell(t, p)
<1>1. s[p] = t[p] /\ p - 1 \in Nat /\ SameUpTo(s, t, p - 1)
  BY DEF SameUpTo
<1>2. Among(s, {"compaction"}, 1..(p - 1)) = Among(t, {"compaction"}, 1..(p - 1))
  <2>1. 1..(p - 1) \in SUBSET (1..(p - 1))
    OBVIOUS
  <2> QED
    BY <1>1, <2>1, AmongSame
<1>3. LastAmong(s, p - 1) = LastAmong(t, p - 1)
  BY <1>2 DEF LastAmong
<1>4. LastAmong(s, p - 1) \in 0..(p - 1)
  BY <1>1, LastAmongIn
<1>5. Since(s, p) = Since(t, p) /\ Since(s, p) \in SUBSET (1..(p - 1))
  BY <1>3, <1>4 DEF Since
<1>6. \A types : Among(s, types, Since(s, p)) = Among(t, types, Since(t, p))
  BY <1>1, <1>5, AmongSame
<1>7. s[p].keeps \in 1..(p - 1)
  BY DEF CutWell
<1>8. Kept(s, p) = Kept(t, p)
  <2> DEFINE P == s[p].keeps..(p - 1)
  <2>1. P \in SUBSET (1..(p - 1))
    BY <1>1, <1>7
  <2>2. P = t[p].keeps..(p - 1)
    BY <1>1
  <2> HIDE DEF P
  <2>3. Among(s, Messages, P) = Among(t, Messages, P)
    BY <1>1, <2>1, AmongSame
  <2> QED
    BY <2>2, <2>3 DEF Kept, P
<1>9. \A c \in 1..p : Size(s, c..(p - 1)) = Size(t, c..(p - 1))
  <2> SUFFICES ASSUME NEW c \in 1..p PROVE Size(s, c..(p - 1)) = Size(t, c..(p - 1))
    OBVIOUS
  <2>1. c..(p - 1) \in SUBSET (1..(p - 1))
    OBVIOUS
  <2> QED
    BY <1>1, <2>1, SizeSame
<1>10. Kept(s, p) # {} => Min(Kept(s, p)) + 1 \in 1..p
  <2> SUFFICES ASSUME Kept(s, p) # {} PROVE Min(Kept(s, p)) + 1 \in 1..p
    OBVIOUS
  <2>1. Kept(s, p) \in SUBSET (1..(p - 1)) /\ Kept(s, p) \in SUBSET Nat
    BY <1>7 DEF Kept, Among
  <2>2. Min(Kept(s, p)) \in Kept(s, p)
    BY <2>1, MinIn
  <2> QED
    BY <2>1, <2>2
<1>11. Since(s, p) # {} => Min(Since(s, p)) \in 1..(p - 1)
  <2> SUFFICES ASSUME Since(s, p) # {} PROVE Min(Since(s, p)) \in 1..(p - 1)
    OBVIOUS
  <2>1. Since(s, p) \in SUBSET Nat
    BY <1>5
  <2>2. Min(Since(s, p)) \in Since(s, p)
    BY <2>1, MinIn
  <2> QED
    BY <1>5, <2>2
<1>12. /\ t[p].keeps \in 1..(p - 1) /\ t[p].covers \subseteq 1..(p - 1)
       /\ Among(t, InContext, Since(t, p)) \subseteq t[p].covers \cup (t[p].keeps..(p - 1))
  BY <1>1, <1>6 DEF CutWell
<1>13. \A c \in Among(t, CutPoints, Since(t, p)) : Size(t, c..(p - 1)) < KeepRecentTokens => t[p].keeps <= c
  <2> SUFFICES ASSUME NEW c \in Among(t, CutPoints, Since(t, p)), Size(t, c..(p - 1)) < KeepRecentTokens
               PROVE  t[p].keeps <= c
    OBVIOUS
  <2>1. c \in Among(s, CutPoints, Since(s, p)) /\ c \in 1..p
    BY <1>5, <1>6 DEF Among
  <2> QED
    BY <1>1, <1>9, <2>1 DEF CutWell
<1>14. Since(s, p) # {} => Among(s, CutPoints, Min(Since(s, p))..(s[p].keeps - 1)) =
                           Among(t, CutPoints, Min(Since(t, p))..(t[p].keeps - 1))
  <2> SUFFICES ASSUME Since(s, p) # {}
               PROVE  Among(s, CutPoints, Min(Since(s, p))..(s[p].keeps - 1)) =
                      Among(t, CutPoints, Min(Since(t, p))..(t[p].keeps - 1))
    OBVIOUS
  <2> DEFINE P == Min(Since(s, p))..(s[p].keeps - 1)
  <2>1. P \in SUBSET (1..(p - 1))
    BY <1>7, <1>11
  <2>2. P = Min(Since(t, p))..(t[p].keeps - 1)
    BY <1>1, <1>5
  <2> HIDE DEF P
  <2>3. Among(s, CutPoints, P) = Among(t, CutPoints, P)
    BY <1>1, <2>1, AmongSame
  <2> QED
    BY <2>2, <2>3 DEF P
<1>15. Since(s, p) # {} /\ LastAmong(t, p - 1) < p - 1
  BY <1>3, <1>4 DEF CutWell, Since
<1>16. \/ Kept(t, p) = {} \/ Size(t, (Min(Kept(t, p)) + 1)..(p - 1)) < KeepRecentTokens
       \/ Among(t, CutPoints, Min(Since(t, p))..(t[p].keeps - 1)) = {}
  BY <1>8, <1>9, <1>10, <1>14, <1>15 DEF CutWell
<1> QED
  BY <1>12, <1>13, <1>15, <1>16 DEF CutWell

-------------------------------------------------------------------------------
(* Where the cut is made.                                                     *)

LEMMA UnitsFinite ==
    ASSUME NEW s \in Seq(PathEntries), NEW P \in SUBSET (1..Len(s))
    PROVE  IsFiniteSet(Units(s, P))
<1> DEFINE A == Among(s, Messages, P)
           T == {{i} \X (1..s[i].tokens) : i \in A}
           f == [i \in A |-> {i} \X (1..s[i].tokens)]
<1>1. A \in SUBSET (1..Len(s)) /\ Len(s) \in Nat
  <2>1. A \in SUBSET P
    BY DEF Among
  <2> HIDE DEF A
  <2> QED
    BY <2>1
<1>2. IsFiniteSet(A)
  <2>1. IsFiniteSet(1..Len(s))
    BY <1>1, FS_Interval
  <2> QED
    BY <1>1, <2>1, FS_Subset
<1>3. \A i \in A : s[i].tokens \in Nat
  <2>1. \A i \in 1..Len(s) : s[i] \in PathEntries
    OBVIOUS
  <2>2. \A e \in PathEntries : e.tokens \in Nat
    BY DEF PathEntries
  <2> HIDE DEF A
  <2> QED
    BY <1>1, <2>1, <2>2
<1>4. \A i \in A : IsFiniteSet({i} \X (1..s[i].tokens))
  <2> SUFFICES ASSUME NEW i \in A PROVE IsFiniteSet({i} \X (1..s[i].tokens))
    OBVIOUS
  <2>1. IsFiniteSet({i})
    BY FS_Singleton
  <2>2. IsFiniteSet(1..s[i].tokens)
    <3>1. s[i].tokens \in Int /\ 1 \in Int
      BY <1>3
    <3> QED
      BY <3>1, FS_Interval
  <2> QED
    BY <2>1, <2>2, FS_Product
<1> HIDE DEF A
<1>5. f \in Surjection(A, T)
  BY DEF Surjection
<1>6. \A x \in T : IsFiniteSet(x)
  BY <1>4
<1> HIDE DEF T, f
<1>7. IsFiniteSet(T)
  BY <1>2, <1>5, FS_Surjection
<1>8. IsFiniteSet(UNION T)
  BY <1>6, <1>7, FS_UNION
<1> QED
  BY <1>8 DEF Units, T, A

\* The size of some entries is a number, and no more than that of more entries.
LEMMA SizeGrows ==
    ASSUME NEW s \in Seq(PathEntries), NEW P \in SUBSET (1..Len(s)), NEW Q \in SUBSET P
    PROVE  Size(s, P) \in Nat /\ Size(s, Q) \in Nat /\ Size(s, Q) <= Size(s, P)
<1>1. IsFiniteSet(Units(s, P))
  BY UnitsFinite
<1>2. Units(s, Q) \in SUBSET Units(s, P)
  BY DEF Units, Among
<1>3. IsFiniteSet(Units(s, Q)) /\ Cardinality(Units(s, Q)) <= Cardinality(Units(s, P))
  BY <1>1, <1>2, FS_Subset
<1> QED
  BY <1>1, <1>3, FS_CardinalityType DEF Size

LEMMA SizeOfNone ==
    ASSUME NEW s, NEW P, Among(s, Messages, P) = {}
    PROVE  Size(s, P) = 0
<1>1. Units(s, P) = {}
  BY DEF Units
<1> QED
  BY <1>1, FS_EmptySet DEF Size

LEMMA SizeOfSame ==
    ASSUME NEW s, NEW P, NEW Q, Among(s, Messages, P) = Among(s, Messages, Q)
    PROVE  Size(s, P) = Size(s, Q)
BY DEF Size, Units

\* No message stands between the cut and a point where one may be made.
CutFrom(s, start, cut) ==
    \/ cut = start
    \/ \E first \in cut..Len(s) : s[first].type \in CutPoints /\ Among(s, Messages, cut..(first - 1)) = {}

\* What the cut point of a branch is that has entries since its last compaction.
LEMMA CutPointIs ==
    ASSUME path \in Seq(PathEntries), NEW start \in 1..Len(path), KeepRecentTokens \in Nat \ {0},
           NEW n, n = Len(path), NEW cut, cut = CutPoint(start)
    PROVE  /\ cut \in start..n
           /\ \A c \in Among(path, CutPoints, start..n) : Size(path, c..n) < KeepRecentTokens => cut <= c
           /\ \/ Among(path, Messages, cut..n) = {}
              \/ Size(path, (Min(Among(path, Messages, cut..n)) + 1)..n) < KeepRecentTokens
              \/ Among(path, CutPoints, start..(cut - 1)) = {}
           /\ CutFrom(path, start, cut)
<1> DEFINE points == Among(path, CutPoints, start..n)
           R == Reached(start)
           near == {c \in points : R # {} /\ c >= Max(R)}
           first == Min(IF near # {} THEN near ELSE points)
           Q == {i \in start..first : Among(path, Messages, i..(first - 1)) = {}}
<1>1. cut = IF points = {} THEN start ELSE Min(Q)
  BY DEF CutPoint, Of, Among
<1>2. n \in Nat /\ start \in Nat /\ start >= 1 /\ start <= n
  OBVIOUS
<1>3. R = {i \in Among(path, Messages, start..n) : Size(path, i..n) >= KeepRecentTokens}
  BY DEF Reached, Tokens, Size, Units, Of, Among
<1>4. points \in SUBSET (start..n) /\ points \in SUBSET Nat /\ near \in SUBSET points
  BY <1>2 DEF Among
<1>5. R # {} => /\ Max(R) \in R /\ \A i \in R : Max(R) >= i
                /\ Max(R) \in start..n
  <2>1. R \in SUBSET (0..n) /\ R \in SUBSET (start..n)
    BY <1>2, <1>3 DEF Among
  <2> HIDE DEF R
  <2> QED
    BY <1>2, <2>1, MaxIn
<1> HIDE DEF R
<1>6. points # {} => /\ first \in points /\ (near # {} => first \in near)
                     /\ \A c \in near : first <= c
                     /\ near = {} => \A c \in points : first <= c
  <2>1. near \in SUBSET Nat
    BY <1>4
  <2> HIDE DEF near, points
  <2>2. CASE near # {}
    BY <1>4, <2>1, <2>2, MinIn
  <2>3. CASE near = {}
    BY <1>4, <2>3, MinIn
  <2> QED
    BY <2>2, <2>3
<1>7. near = {c \in points : R # {} /\ c >= Max(R)}
  OBVIOUS
<1> HIDE DEF near, points, first
<1>8. points # {} => /\ cut \in start..first
                     /\ Among(path, Messages, cut..(first - 1)) = {}
  <2> SUFFICES ASSUME points # {} PROVE cut \in start..first /\ Among(path, Messages, cut..(first - 1)) = {}
    OBVIOUS
  <2>1. first \in start..n
    BY <1>4, <1>6
  <2>2. Among(path, Messages, first..(first - 1)) = {}
    BY <1>2, <2>1 DEF Among
  <2>3. Q \in SUBSET Nat /\ first \in Q
    BY <1>2, <2>1, <2>2
  <2>4. Min(Q) \in Q
    <3> HIDE DEF Q
    <3> QED
      BY <2>3, MinIn
  <2> QED
    BY <1>1, <2>4
<1>9. /\ cut \in start..n
      /\ points # {} => first \in start..n /\ cut <= first
  <2>1. CASE points = {}
    <3>1. cut = start
      BY <1>1, <2>1
    <3> QED
      BY <1>2, <2>1, <3>1
  <2>2. CASE points # {}
    <3>1. first \in start..n /\ cut \in start..first
      BY <1>4, <1>6, <1>8, <2>2
    <3> QED
      BY <1>2, <3>1
  <2> QED
    BY <2>1, <2>2
<1>10. ASSUME NEW c \in points, Size(path, c..n) < KeepRecentTokens PROVE cut <= c
  <2>1. points # {} /\ c \in start..n /\ first \in start..n /\ cut <= first
    BY <1>4, <1>9
  <2>2. CASE near = {}
    BY <1>6, <1>9, <2>1, <2>2
  <2>3. CASE near # {}
    <3>1. R # {}
      BY <1>7, <2>3
    <3>2. c >= Max(R)
      <4> SUFFICES ASSUME c < Max(R) PROVE FALSE
        BY <1>5, <2>1, <3>1
      <4>1. Size(path, Max(R)..n) >= KeepRecentTokens
        BY <1>3, <1>5, <3>1
      <4>2. c..n \in SUBSET (1..Len(path)) /\ Max(R)..n \in SUBSET (c..n)
        BY <1>2, <1>5, <2>1, <3>1
      <4>3. Size(path, c..n) \in Nat /\ Size(path, Max(R)..n) \in Nat /\ Size(path, Max(R)..n) <= Size(path, c..n)
        BY <4>2, SizeGrows
      <4> QED
        BY <1>10, <4>1, <4>3
    <3>3. c \in near
      BY <1>7, <3>1, <3>2
    <3> QED
      BY <1>6, <1>9, <2>1, <3>3
  <2> QED
    BY <2>2, <2>3
<1> DEFINE kept == Among(path, Messages, cut..n)
<1>11. ASSUME kept # {}, NEW c \in Among(path, CutPoints, start..(cut - 1))
       PROVE  Size(path, (Min(kept) + 1)..n) < KeepRecentTokens
  <2>1. c \in points /\ c < cut
    <3>1. c \in start..n /\ c \in start..(cut - 1)
      BY <1>2, <1>9 DEF Among
    <3> QED
      BY <1>9, <3>1 DEF points, Among
  <2>2. cut \in start..first /\ first \in start..n /\ c < first
    <3>1. cut \in start..first /\ first \in start..n
      BY <1>8, <1>9, <2>1
    <3> QED
      BY <1>2, <1>4, <2>1, <3>1
  <2>3. near # {}
    BY <1>4, <1>6, <2>1, <2>2
  <2>4. R # {} /\ first >= Max(R)
    BY <1>6, <1>7, <2>1, <2>3
  <2> DEFINE k == Min(kept)
  <2>5. k \in kept
    <3>1. kept \in SUBSET Nat
      BY <1>9 DEF Among
    <3> HIDE DEF kept
    <3> QED
      BY <1>11, <3>1, MinIn
  <2>6. k \in cut..n /\ path[k].type \in Messages
    BY <2>5 DEF Among
  <2> HIDE DEF k
  <2>7. k >= first
    <3> SUFFICES ASSUME k < first PROVE FALSE
      BY <2>2, <2>6
    <3>1. k \in cut..(first - 1)
      BY <1>9, <2>2, <2>6
    <3> QED
      BY <1>8, <2>1, <2>6, <3>1 DEF Among
  <2> DEFINE P == (k + 1)..n  M == Among(path, Messages, P)
  <2>8. P \in SUBSET (1..Len(path)) /\ Size(path, P) \in Nat
    <3>1. P \in SUBSET (1..Len(path))
      BY <1>2, <1>9, <2>6
    <3> HIDE DEF P
    <3> QED
      BY <3>1, SizeGrows
  <2>9. Size(path, P) < KeepRecentTokens
    <3> SUFFICES ASSUME Size(path, P) >= KeepRecentTokens PROVE FALSE
      <4> HIDE DEF P
      <4> QED
        BY <2>8
    <3>1. M # {}
      <4> HIDE DEF P
      <4> QED
        BY <2>8, SizeOfNone
    <3> DEFINE j == Min(M)
    <3>2. j \in M /\ \A i \in M : j <= i
      <4>1. M \in SUBSET Nat
        BY <2>6, <1>9 DEF Among
      <4> HIDE DEF M
      <4> QED
        BY <3>1, <4>1, MinIn
    <3>3. j \in P /\ path[j].type \in Messages
      BY <3>2 DEF Among
    <3> HIDE DEF j
    <3>4. j \in start..n /\ j > k /\ j..n \in SUBSET P
      BY <1>9, <2>6, <3>3
    <3>5. Among(path, Messages, j..n) = M
      <4>1. \A i \in M : i \in j..n
        BY <1>2, <1>9, <2>6, <3>2, <3>4 DEF Among
      <4> HIDE DEF P
      <4> QED
        BY <3>4, <4>1 DEF Among
    <3>6. Size(path, j..n) = Size(path, P)
      BY <3>5, SizeOfSame
    <3>7. j \in R
      BY <1>3, <3>3, <3>4, <3>6 DEF Among
    <3> QED
      BY <1>5, <2>2, <2>4, <2>7, <2>6, <3>4, <3>7
  <2> QED
    BY <2>9 DEF k
<1>12. CutFrom(path, start, cut)
  <2>1. CASE points = {}
    BY <1>1, <2>1 DEF CutFrom
  <2>2. CASE points # {}
    <3>1. first \in cut..n
      BY <1>2, <1>9, <2>2
    <3>2. path[first].type \in CutPoints
      BY <1>6, <2>2 DEF points, Among
    <3> QED
      BY <1>8, <2>2, <3>1, <3>2 DEF CutFrom
  <2> QED
    BY <2>1, <2>2
<1> QED
  BY <1>9, <1>10, <1>11, <1>12 DEF points

\* Nothing since the last compaction is left out of the summary and of what is kept.
LEMMA CoversAll ==
    ASSUME path \in Seq(PathEntries), NEW start \in 1..Len(path), NEW n, n = Len(path),
           NEW cut \in start..n,
           start # 1 => path[start - 1].covers \subseteq 1..n
    PROVE  /\ Covers(start, cut) \subseteq 1..n
           /\ Among(path, InContext, start..n) \subseteq Covers(start, cut) \cup (cut..n)
<1> DEFINE turn == TurnStart(start, cut)
           past == Among(path, InContext, start..(HistoryEnd(turn, cut) - 1))
           prefix == IF turn = 0 THEN {} ELSE Among(path, InContext, turn..(cut - 1))
           previous == IF start = 1 THEN {} ELSE path[start - 1].covers
<1>1. Covers(start, cut) = IF past = {} /\ prefix # {} THEN prefix ELSE previous \cup past \cup prefix
  BY DEF Covers, Of, Among
<1>2. n \in Nat /\ start \in Nat /\ start >= 1 /\ cut \in Nat /\ start <= cut /\ cut <= n
  OBVIOUS
<1>3. turn \in {0} \cup (start..cut)
  <2> DEFINE S == Of(TurnStarts, start..cut) \cup {0}
  <2>1. turn = IF path[cut].type = "user" THEN 0 ELSE Max(S)
    BY DEF TurnStart
  <2>2. S \in SUBSET (0..n) /\ S # {} /\ S \in SUBSET ({0} \cup (start..cut))
    BY <1>2 DEF Of
  <2> HIDE DEF S, turn
  <2>3. Max(S) \in S
    BY <1>2, <2>2, MaxIn
  <2> QED
    BY <2>1, <2>2, <2>3
<1> HIDE DEF turn
<1>4. HistoryEnd(turn, cut) = IF turn # 0 THEN turn ELSE cut
  BY DEF HistoryEnd
<1>5. past \subseteq 1..n /\ prefix \subseteq 1..n /\ previous \subseteq 1..n
  BY <1>2, <1>3, <1>4 DEF Among
<1>6. ASSUME NEW i \in Among(path, InContext, start..n), i < cut PROVE i \in past \cup prefix
  <2>1. i \in start..n /\ path[i].type \in InContext
    BY DEF Among
  <2>2. CASE turn = 0
    <3>1. i \in start..(HistoryEnd(turn, cut) - 1)
      BY <1>2, <1>4, <1>6, <2>1, <2>2
    <3> QED
      BY <2>1, <3>1 DEF Among
  <2>3. CASE turn # 0 /\ i < turn
    <3>1. i \in start..(HistoryEnd(turn, cut) - 1)
      BY <1>2, <1>3, <1>4, <2>1, <2>3
    <3> QED
      BY <2>1, <3>1 DEF Among
  <2>4. CASE turn # 0 /\ ~(i < turn)
    <3>1. i \in turn..(cut - 1)
      BY <1>2, <1>3, <1>6, <2>1, <2>4
    <3> QED
      BY <2>1, <2>4, <3>1 DEF Among
  <2> QED
    BY <2>2, <2>3, <2>4
<1>7. \A i \in Among(path, InContext, start..n) : ~(i < cut) => i \in cut..n
  BY <1>2 DEF Among
<1> HIDE DEF past, prefix, previous
<1> QED
  BY <1>1, <1>5, <1>6, <1>7

\* A cut comes at the beginning, behind a compaction, or with no message between
\* it and a point where one may be made.
CutBetween(s, cut) ==
    \/ cut = 1 \/ (cut - 1 \in 1..Len(s) /\ s[cut - 1].type = "compaction")
    \/ \E first \in cut..Len(s) : s[first].type \in CutPoints /\ Among(s, Messages, cut..(first - 1)) = {}

\* A compaction cuts well.
LEMMA CompactedCutsWell ==
    ASSUME CutInv, CompactionAssumption, CanCompact
    PROVE  /\ \E cut \in 1..Len(path) : \E covers \in SUBSET (1..Len(path)) :
                 Compacted = Append(path, [NewEntry("compaction", 0) EXCEPT !.keeps = cut, !.covers = covers])
           /\ CutWell(Compacted, Len(path) + 1)
           /\ CutBetween(path, Compacted[Len(path) + 1].keeps)
           /\ Compacted[Len(path) + 1].keeps > LastAmong(path, Len(path))
<1> DEFINE n == Len(path)
           start == LastCompaction(n) + 1
           cut == CutPoint(start)
           covers == Covers(start, cut)
           entry == [NewEntry("compaction", 0) EXCEPT !.keeps = cut, !.covers = covers]
           s == Append(path, entry)
           p == n + 1
<1>1. path \in Seq(PathEntries) /\ n \in Nat /\ n >= 1 /\ path[n].type # "compaction"
  BY DEF CutInv, CanCompact, Last
<1>2. KeepRecentTokens \in Nat \ {0}
  BY DEF CompactionAssumption
<1>3. LastCompaction(n) = LastAmong(path, n)
  BY DEF LastCompaction, LastAmong, Of, Among
<1>4. LastAmong(path, n) \in 0..(n - 1) /\ start \in 1..n
  <2>1. LastAmong(path, n) # n
    BY <1>1, LastAmongIn DEF Among
  <2>2. LastAmong(path, n) \in 0..n
    BY <1>1, LastAmongIn
  <2> QED
    BY <1>1, <1>3, <2>1, <2>2
<1>5. start # 1 => path[start - 1].covers \subseteq 1..n
  <2> SUFFICES ASSUME start # 1 PROVE path[start - 1].covers \subseteq 1..n
    OBVIOUS
  <2> DEFINE q == start - 1
  <2>1. q = LastAmong(path, n) /\ q \in 1..n
    BY <1>1, <1>3, <1>4
  <2>2. q \in Among(path, {"compaction"}, 1..n)
    BY <1>1, <2>1, LastAmongIn
  <2>3. CutWell(path, q)
    BY <1>1, <2>2 DEF CutInv, AllCutWell, Among
  <2>4. path[q].covers \subseteq 1..(q - 1)
    BY <2>3 DEF CutWell
  <2> QED
    BY <1>1, <2>1, <2>4
<1> HIDE DEF n, start
<1>6. /\ cut \in start..n
      /\ \A c \in Among(path, CutPoints, start..n) : Size(path, c..n) < KeepRecentTokens => cut <= c
      /\ \/ Among(path, Messages, cut..n) = {}
         \/ Size(path, (Min(Among(path, Messages, cut..n)) + 1)..n) < KeepRecentTokens
         \/ Among(path, CutPoints, start..(cut - 1)) = {}
      /\ CutFrom(path, start, cut)
  <2> HIDE DEF cut
  <2>1. cut = CutPoint(start) /\ n = Len(path)
    BY DEF cut, n
  <2>2. /\ cut \in start..n
        /\ \A c \in Among(path, CutPoints, start..n) : Size(path, c..n) < KeepRecentTokens => cut <= c
        /\ \/ Among(path, Messages, cut..n) = {}
           \/ Size(path, (Min(Among(path, Messages, cut..n)) + 1)..n) < KeepRecentTokens
           \/ Among(path, CutPoints, start..(cut - 1)) = {}
    BY <1>1, <1>2, <1>4, <2>1, CutPointIs
  <2>3. CutFrom(path, start, cut)
    BY <1>1, <1>2, <1>4, <2>1, CutPointIs
  <2> QED
    BY <2>2, <2>3
<1> HIDE DEF cut
<1>7. covers \subseteq 1..n /\ Among(path, InContext, start..n) \subseteq covers \cup (cut..n)
  <2>1. n = Len(path)
    BY DEF n
  <2> QED
    BY <1>1, <1>4, <1>5, <1>6, <2>1, CoversAll
<1> HIDE DEF covers
<1>8. Compacted = s
  BY DEF Compacted, n, start, cut, covers
<1>9. entry.type = "compaction" /\ entry.keeps = cut /\ entry.covers = covers
  BY DEF NewEntry
<1> HIDE DEF entry
<1>10. s[p] = entry /\ SameUpTo(path, s, n)
  BY <1>1 DEF n, SameUpTo
<1> HIDE DEF s
<1>11. p - 1 = n /\ p \in Nat /\ cut \in 1..n
  BY <1>1, <1>4, <1>6
<1> HIDE DEF p
<1>12. \A P \in SUBSET (1..n) : /\ \A types : Among(path, types, P) = Among(s, types, P)
                                  /\ Size(path, P) = Size(s, P)
  <2> SUFFICES ASSUME NEW P \in SUBSET (1..n)
               PROVE  /\ \A types : Among(path, types, P) = Among(s, types, P)
                      /\ Size(path, P) = Size(s, P)
    OBVIOUS
  <2>1. \A types : Among(path, types, P) = Among(s, types, P)
    BY <1>1, <1>10, AmongSame
  <2>2. Size(path, P) = Size(s, P)
    BY <1>1, <1>10, SizeSame
  <2> QED
    BY <2>1, <2>2
<1>13. LastAmong(s, n) = LastAmong(path, n)
  <2>1. 1..n \in SUBSET (1..n)
    OBVIOUS
  <2>2. Among(path, {"compaction"}, 1..n) = Among(s, {"compaction"}, 1..n)
    BY <1>12, <2>1
  <2> QED
    BY <2>2 DEF LastAmong
<1>14. Since(s, p) = start..n /\ LastAmong(s, n) < n
  BY <1>1, <1>3, <1>4, <1>11, <1>13 DEF Since, start
<1>15. start..n \in SUBSET (1..n) /\ Min(start..n) = start
  <2> DEFINE S == start..n
  <2>1. S \in SUBSET (1..n) /\ S \in SUBSET Nat /\ start \in S /\ \A i \in S : i >= start
    BY <1>1, <1>4
  <2>2. Min(S) \in S /\ \A i \in S : Min(S) <= i
    <3> HIDE DEF S
    <3> QED
      BY <2>1, MinIn
  <2> QED
    BY <1>4, <2>1, <2>2
<1>16. Kept(s, p) = Among(path, Messages, cut..n)
  <2> DEFINE P == cut..n
  <2>1. P \in SUBSET (1..n)
    BY <1>11
  <2> HIDE DEF P
  <2>2. Among(path, Messages, P) = Among(s, Messages, P)
    BY <1>12, <2>1
  <2> QED
    BY <1>9, <1>10, <1>11, <2>2 DEF Kept, P
<1>17. /\ s[p].keeps \in 1..(p - 1) /\ s[p].covers \subseteq 1..(p - 1)
       /\ Among(s, InContext, Since(s, p)) \subseteq s[p].covers \cup (s[p].keeps..(p - 1))
  BY <1>7, <1>9, <1>10, <1>11, <1>12, <1>14, <1>15
<1>18. ASSUME NEW c \in Among(s, CutPoints, Since(s, p)), Size(s, c..(p - 1)) < KeepRecentTokens
       PROVE  s[p].keeps <= c
  <2>1. c \in Among(path, CutPoints, start..n) /\ c \in start..n
    BY <1>12, <1>14, <1>15 DEF Among
  <2> DEFINE P == c..n
  <2>2. P \in SUBSET (1..n)
    BY <1>4, <2>1
  <2> HIDE DEF P
  <2>3. Size(path, P) = Size(s, P)
    BY <1>12, <2>2
  <2> QED
    BY <1>6, <1>9, <1>10, <1>11, <1>18, <2>1, <2>3 DEF P
<1>19. \/ Kept(s, p) = {} \/ Size(s, (Min(Kept(s, p)) + 1)..(p - 1)) < KeepRecentTokens
       \/ Among(s, CutPoints, Min(Since(s, p))..(s[p].keeps - 1)) = {}
  <2>1. CASE Among(path, CutPoints, start..(cut - 1)) = {}
    <3> DEFINE P == start..(cut - 1)
    <3>1. P \in SUBSET (1..n)
      BY <1>1, <1>4, <1>6
    <3> HIDE DEF P
    <3>2. Among(path, CutPoints, P) = Among(s, CutPoints, P)
      BY <1>12, <3>1
    <3> QED
      BY <1>9, <1>10, <1>14, <1>15, <2>1, <3>2 DEF P
  <2>2. CASE /\ Among(path, Messages, cut..n) # {}
             /\ Size(path, (Min(Among(path, Messages, cut..n)) + 1)..n) < KeepRecentTokens
    <3> DEFINE M == Among(path, Messages, cut..n)
               P == (Min(M) + 1)..n
    <3>1. M \in SUBSET (1..n) /\ M # {}
      BY <1>11, <2>2 DEF Among
    <3>2. Min(M) \in M
      <4> HIDE DEF M
      <4>1. M \in SUBSET Nat
        BY <3>1
      <4> QED
        BY <3>1, <4>1, MinIn
    <3> HIDE DEF M
    <3>3. P \in SUBSET (1..n)
      <4> DEFINE k == Min(M)
      <4>1. k \in 1..n
        BY <3>1, <3>2
      <4> HIDE DEF k
      <4>2. (k + 1)..n \in SUBSET (1..n)
        BY <1>1, <4>1
      <4> QED
        BY <4>2 DEF k
    <3> HIDE DEF P
    <3>4. Size(path, P) = Size(s, P)
      BY <1>12, <3>3
    <3> QED
      BY <1>11, <1>16, <2>2, <3>4 DEF P, M
  <2>3. CASE Among(path, Messages, cut..n) = {}
    BY <1>16, <2>3
  <2> QED
    BY <1>6, <2>1, <2>2, <2>3
<1>20. CutWell(s, p)
  BY <1>11, <1>14, <1>17, <1>18, <1>19 DEF CutWell
<1>21. CutBetween(path, cut)
  <2>1. CASE cut = start
    <3>1. start = 1 \/ (start - 1 \in 1..n /\ path[start - 1].type = "compaction")
      <4> DEFINE l == LastAmong(path, n)
      <4>1. l \in Among(path, {"compaction"}, 1..n) \cup {0}
        BY <1>1, LastAmongIn
      <4>2. start = l + 1 /\ l \in Nat
        BY <1>3, <1>4 DEF start, n
      <4> QED
        BY <4>1, <4>2 DEF Among
    <3> QED
      BY <2>1, <3>1 DEF CutBetween, n
  <2>2. CASE cut # start
    BY <1>6, <2>2 DEF CutBetween, CutFrom
  <2> QED
    BY <2>1, <2>2
<1>22. CutBetween(path, Compacted[Len(path) + 1].keeps)
  BY <1>8, <1>9, <1>10, <1>21 DEF p, n
<1>23. Compacted[Len(path) + 1].keeps > LastAmong(path, Len(path))
  <2>1. cut > LastAmong(path, n)
    BY <1>1, <1>3, <1>4, <1>6 DEF start
  <2> QED
    BY <1>8, <1>9, <1>10, <2>1 DEF p, n
<1> QED
  BY <1>7, <1>8, <1>11, <1>20, <1>22, <1>23 DEF n, p, s, entry

-------------------------------------------------------------------------------
(* The branch from step to step.                                             *)

\* A branch grows by an entry that is no compaction, or by one that cuts well.
LEMMA GrownWell ==
    ASSUME NEW b \in Seq(PathEntries), AllCutWell(b), NEW e \in PathEntries,
           e.type = "compaction" => CutWell(Append(b, e), Len(b) + 1)
    PROVE  AllCutWell(Append(b, e)) /\ Append(b, e) \in Seq(PathEntries)
<1> DEFINE s == Append(b, e)  n == Len(b)
<1>1. /\ n \in Nat /\ s \in Seq(PathEntries) /\ DOMAIN s = 1..(n + 1) /\ DOMAIN b = 1..n
      /\ s[n + 1] = e /\ \A i \in 1..n : b[i] = s[i]
  OBVIOUS
<1> HIDE DEF n, s
<1>2. ASSUME NEW p \in Among(s, {"compaction"}, DOMAIN s) PROVE CutWell(s, p)
  <2>1. p \in 1..(n + 1) /\ s[p].type = "compaction"
    BY <1>1 DEF Among
  <2>2. CASE p = n + 1
    BY <1>1, <2>1, <2>2 DEF s, n
  <2>3. CASE p # n + 1
    <3>1. p \in 1..n /\ p \in Nat \ {0}
      BY <1>1, <2>1, <2>3
    <3>2. p \in Among(b, {"compaction"}, DOMAIN b)
      BY <1>1, <2>1, <3>1 DEF Among
    <3>3. CutWell(b, p) /\ SameUpTo(b, s, p)
      BY <1>1, <3>1, <3>2 DEF AllCutWell, SameUpTo
    <3> QED
      BY <3>1, <3>3, CutWellSame
  <2> QED
    BY <2>2, <2>3
<1> QED
  BY <1>1, <1>2 DEF AllCutWell, s

LEMMA PrefixWell ==
    ASSUME NEW b \in Seq(PathEntries), AllCutWell(b), NEW to \in 0..Len(b)
    PROVE  /\ AllCutWell(SubSeq(b, 1, to)) /\ SubSeq(b, 1, to) \in Seq(PathEntries)
           /\ Len(SubSeq(b, 1, to)) = to
<1> DEFINE s == SubSeq(b, 1, to)
<1>1. /\ s \in Seq(PathEntries) /\ Len(s) = to /\ DOMAIN s = 1..to /\ to \in Nat
      /\ DOMAIN b = 1..Len(b) /\ \A i \in 1..to : i \in 1..Len(b) /\ b[i] = s[i]
  OBVIOUS
<1> HIDE DEF s
<1>2. ASSUME NEW p \in Among(s, {"compaction"}, DOMAIN s) PROVE CutWell(s, p)
  <2>1. p \in 1..to /\ s[p].type = "compaction" /\ p \in Nat \ {0}
    BY <1>1 DEF Among
  <2>2. p \in Among(b, {"compaction"}, DOMAIN b)
    BY <1>1, <2>1 DEF Among
  <2>3. CutWell(b, p) /\ SameUpTo(b, s, p)
    BY <1>1, <2>1, <2>2 DEF AllCutWell, SameUpTo
  <2> QED
    BY <2>1, <2>3, CutWellSame
<1> QED
  BY <1>1, <1>2 DEF AllCutWell, s

LEMMA CutInit == CompactionInit => CutInv
<1> SUFFICES ASSUME CompactionInit PROVE CutInv
  OBVIOUS
<1>1. <<>> \in Seq(PathEntries) /\ Len(<<>>) = 0 /\ DOMAIN <<>> = {}
  OBVIOUS
<1>2. AllCutWell(<<>>)
  BY <1>1 DEF AllCutWell, Among
<1>3. 0 <= MaxLength
  BY CompactionAssumption
<1> QED
  BY <1>1, <1>2, <1>3 DEF CompactionInit, CutInv

LEMMA EntryTypes ==
    ASSUME NEW type \in InContext \cup {"setting", "compaction"}, NEW tokens \in Nat
    PROVE  NewEntry(type, tokens) \in PathEntries /\ NewEntry(type, tokens).type = type
BY CompactionAssumption DEF NewEntry, PathEntries

LEMMA AddedWell ==
    ASSUME CutInv, NEW e \in PathEntries, Add(e),
           e.type = "compaction" => CutWell(Append(path, e), Len(path) + 1)
    PROVE  /\ path' \in Seq(PathEntries) /\ Len(path') <= MaxLength /\ AllCutWell(path')
           /\ \A i \in DOMAIN path : i \in DOMAIN path' /\ path'[i] = path[i]
           /\ Len(path) + 1 \in DOMAIN path' /\ path'[Len(path) + 1] = e
<1>1. path \in Seq(PathEntries) /\ AllCutWell(path) /\ Len(path) < MaxLength /\ path' = Append(path, e)
  BY DEF CutInv, Add
<1>2. AllCutWell(Append(path, e)) /\ Append(path, e) \in Seq(PathEntries)
  BY <1>1, GrownWell
<1>3. Len(Append(path, e)) = Len(path) + 1 /\ Len(path) + 1 <= MaxLength
  BY <1>1, CompactionAssumption
<1> QED
  BY <1>1, <1>2, <1>3

\* Calls that are owed stay those of an answer as long as the branch grows.
LEMMA OwedStays ==
    ASSUME CutInv, owed # {}, NEW s, \A i \in DOMAIN path : i \in DOMAIN s /\ s[i] = path[i],
           NEW left \in SUBSET owed
    PROVE  \E i \in DOMAIN s : left \subseteq s[i].calls
<1>1. PICK i \in DOMAIN path : owed \subseteq path[i].calls
  BY DEF CutInv
<1> QED
  BY <1>1

LEMMA CompactedInv ==
    ASSUME CutInv, CanCompact, Len(path) < MaxLength, ~running, path' = Compacted, UNCHANGED owed
    PROVE  CutInv'
<1>1. PICK cut \in 1..Len(path), covers \in SUBSET (1..Len(path)) :
          Compacted = Append(path, [NewEntry("compaction", 0) EXCEPT !.keeps = cut, !.covers = covers])
  BY CompactionAssumption, CompactedCutsWell
<1> DEFINE e == [NewEntry("compaction", 0) EXCEPT !.keeps = cut, !.covers = covers]
<1>2. e \in PathEntries
  <2>1. Len(path) \in Nat /\ cut \in 0..MaxLength /\ covers \in SUBSET (1..MaxLength)
    BY CompactionAssumption DEF CutInv
  <2> QED
    BY <2>1 DEF NewEntry, PathEntries
<1> HIDE DEF e
<1>3. Compacted = Append(path, e)
  BY <1>1 DEF e
<1>4. CutWell(Append(path, e), Len(path) + 1)
  BY <1>3, CompactionAssumption, CompactedCutsWell
<1>5. Add(e)
  BY <1>3 DEF Add
<1>6. path' \in Seq(PathEntries) /\ Len(path') <= MaxLength /\ AllCutWell(path')
  BY <1>2, <1>4, <1>5, AddedWell
<1>7. owed' = {}
  BY DEF CutInv
<1> QED
  BY <1>6, <1>7 DEF CutInv

LEMMA CutStep == CutInv /\ [CompactionNext]_compactionVars => CutInv'
<1> SUFFICES ASSUME CutInv, [CompactionNext]_compactionVars PROVE CutInv'
  OBVIOUS
<1>1. ASSUME NEW type \in InContext \cup {"setting"}, NEW tokens \in Nat, Add(NewEntry(type, tokens)),
             owed' = owed, owed # {} => running'
      PROVE  CutInv'
  <2> DEFINE e == NewEntry(type, tokens)
  <2>1. e \in PathEntries /\ e.type # "compaction"
    BY EntryTypes DEF InContext, Messages
  <2> HIDE DEF e
  <2>2. Add(e)
    BY <1>1 DEF e
  <2>3. /\ path' \in Seq(PathEntries) /\ Len(path') <= MaxLength /\ AllCutWell(path')
        /\ \A i \in DOMAIN path : i \in DOMAIN path' /\ path'[i] = path[i]
    BY <2>1, <2>2, AddedWell
  <2>4. owed # {} => \E i \in DOMAIN path' : owed \subseteq path'[i].calls
    BY <2>3, OwedStays
  <2> QED
    BY <1>1, <2>3, <2>4 DEF CutInv
<1>2. CASE User
  <2>1. "user" \in InContext \cup {"setting"} /\ 1 \in Nat
    BY DEF InContext, Messages
  <2> QED
    BY <1>1, <1>2, <2>1 DEF User
<1>3. CASE Halt
  BY <1>3 DEF Halt, CutInv
<1>4. CASE Setting
  <2>1. "setting" \in InContext \cup {"setting"} /\ 0 \in Nat
    OBVIOUS
  <2>2. owed # {} => running'
    BY <1>4 DEF Setting, CutInv
  <2> QED
    BY <1>1, <1>4, <2>1, <2>2 DEF Setting
<1>5. CASE Compact
  BY <1>5, CompactedInv DEF Compact
<1>6. CASE Retry
  BY <1>6 DEF Retry, CutInv
<1>7. CASE Recover
  BY <1>7, CompactedInv DEF Recover
<1>8. ASSUME NEW n \in 0..MaxCalls, NEW stop \in {"stop", "error", "overflow", "aborted"}, Answer(n, stop)
      PROVE  CutInv'
  <2> DEFINE calls == {<<Len(path) + 1, k>> : k \in 1..n}
             tokens == IF stop = "stop" THEN 1 ELSE 0
             e == [NewEntry("assistant", tokens) EXCEPT !.calls = calls, !.stop = stop]
  <2>1. /\ owed = {} /\ Add(e) /\ owed' = (IF stop = "stop" THEN calls ELSE {})
        /\ running' = (stop = "stop" /\ n > 0)
    BY <1>8 DEF Answer, Owed
  <2>2. calls \in SUBSET ((1..MaxLength) \X (1..MaxCalls)) /\ (n = 0 => calls = {})
    <3>1. Len(path) + 1 \in 1..MaxLength
      BY <2>1, CompactionAssumption DEF CutInv, Add
    <3>2. 1..n \subseteq 1..MaxCalls
      BY CompactionAssumption
    <3> QED
      BY <3>1, <3>2
  <2> HIDE DEF calls
  <2>3. tokens \in Nat
    OBVIOUS
  <2> HIDE DEF tokens
  <2>4. e \in PathEntries /\ e.type # "compaction" /\ e.calls = calls
    <3>1. "assistant" \in InContext \cup {"setting", "compaction"}
      BY DEF InContext, Messages
    <3>2. NewEntry("assistant", tokens) \in PathEntries
      BY <2>3, <3>1, EntryTypes
    <3>3. stop \in {"none", "stop", "error", "overflow", "aborted"}
      OBVIOUS
    <3>4. e \in PathEntries
      BY <2>2, <3>2, <3>3 DEF PathEntries
    <3>5. e.type = "assistant" /\ e.calls = calls
      BY DEF NewEntry
    <3> QED
      BY <3>4, <3>5
  <2> HIDE DEF e
  <2>5. /\ path' \in Seq(PathEntries) /\ Len(path') <= MaxLength /\ AllCutWell(path')
        /\ Len(path) + 1 \in DOMAIN path' /\ path'[Len(path) + 1] = e
    BY <2>1, <2>4, AddedWell
  <2>6. owed' # {} => running' /\ owed' \subseteq path'[Len(path) + 1].calls
    <3> SUFFICES ASSUME owed' # {} PROVE running' /\ owed' \subseteq path'[Len(path) + 1].calls
      OBVIOUS
    <3>1. stop = "stop" /\ n # 0 /\ owed' = calls
      BY <2>1, <2>2
    <3>2. n > 0
      BY <3>1, CompactionAssumption
    <3> QED
      BY <2>1, <2>4, <2>5, <3>1, <3>2
  <2> QED
    BY <2>5, <2>6 DEF CutInv
<1>9. ASSUME NEW tokens \in ResultTokens, Result(tokens)
      PROVE  CutInv'
  <2>1. PICK call \in owed : /\ Add([NewEntry("toolResult", tokens) EXCEPT !.calls = {call}])
                             /\ owed' = owed \ {call} /\ running' = running
    BY <1>9 DEF Result
  <2> DEFINE e == [NewEntry("toolResult", tokens) EXCEPT !.calls = {call}]
  <2>2. call \in (1..MaxLength) \X (1..MaxCalls) /\ running
    <3>1. running /\ \E i \in DOMAIN path : owed \subseteq path[i].calls
      BY DEF CutInv
    <3>2. PICK i \in DOMAIN path : owed \subseteq path[i].calls
      BY <3>1
    <3>3. path[i].calls \in SUBSET ((1..MaxLength) \X (1..MaxCalls))
      <4>1. path[i] \in PathEntries
        BY DEF CutInv
      <4> QED
        BY <4>1 DEF PathEntries
    <3> QED
      BY <3>1, <3>2, <3>3
  <2>3. e \in PathEntries /\ e.type # "compaction"
    BY <2>2, CompactionAssumption DEF NewEntry, PathEntries, InContext, Messages
  <2>4. Add(e)
    BY <2>1
  <2> HIDE DEF e
  <2>5. /\ path' \in Seq(PathEntries) /\ Len(path') <= MaxLength /\ AllCutWell(path')
        /\ \A i \in DOMAIN path : i \in DOMAIN path' /\ path'[i] = path[i]
    BY <2>3, <2>4, AddedWell
  <2>6. \E i \in DOMAIN path' : owed \ {call} \subseteq path'[i].calls
    BY <2>1, <2>5, OwedStays
  <2> QED
    BY <2>1, <2>2, <2>5, <2>6 DEF CutInv
<1>10. ASSUME NEW type \in Asides, Aside(type)
       PROVE  CutInv'
  <2>1. type \in InContext \cup {"setting"} /\ 1 \in Nat
    BY DEF Asides, InContext, Messages
  <2>2. owed # {} => running'
    BY <1>10 DEF Aside, CutInv
  <2> QED
    BY <1>1, <1>10, <2>1, <2>2 DEF Aside
<1>11. ASSUME NEW to \in 0..Len(path), NEW summarize \in BOOLEAN, Navigate(to, summarize)
       PROVE  CutInv'
  <2> DEFINE s == SubSeq(path, 1, to)  e == NewEntry("branch_summary", 1)
  <2>1. /\ to < Len(path) /\ path' = (IF summarize THEN Append(s, e) ELSE s) /\ owed' = owed /\ ~running
    BY <1>11 DEF Navigate
  <2>2. AllCutWell(s) /\ s \in Seq(PathEntries) /\ Len(s) = to
    BY PrefixWell DEF CutInv
  <2>3. e \in PathEntries /\ e.type # "compaction"
    <3>1. "branch_summary" \in InContext \cup {"setting", "compaction"} /\ 1 \in Nat
      BY DEF InContext
    <3>2. e \in PathEntries /\ e.type = "branch_summary"
      BY <3>1, EntryTypes
    <3> QED
      BY <3>2
  <2> HIDE DEF s, e
  <2>4. AllCutWell(Append(s, e)) /\ Append(s, e) \in Seq(PathEntries) /\ Len(Append(s, e)) = to + 1
    BY <2>2, <2>3, GrownWell
  <2>5. path' \in Seq(PathEntries) /\ Len(path') <= MaxLength /\ AllCutWell(path')
    <3>1. Len(path) \in Nat /\ Len(path) <= MaxLength /\ MaxLength \in Nat
      BY CompactionAssumption DEF CutInv
    <3>2. to <= MaxLength /\ to + 1 <= MaxLength
      BY <2>1, <3>1
    <3> QED
      BY <2>1, <2>2, <2>4, <3>2
  <2>6. owed' = {}
    BY <2>1 DEF CutInv
  <2> QED
    BY <2>5, <2>6 DEF CutInv
<1>12. CASE UNCHANGED compactionVars
  BY <1>12 DEF compactionVars, CutInv
<1> QED
  BY <1>2, <1>3, <1>4, <1>5, <1>6, <1>7, <1>8, <1>9, <1>10, <1>11, <1>12 DEF CompactionNext

\* A compaction loses nothing of what came after the one before it, keeps the
\* messages that the budget has room for and no more than one beyond it
\* (compaction.ts:376-437, 597-677), wherever the user has gone in between.
THEOREM CutsStayExact == CompactionSpec => []CutExact
<1>1. CompactionInit => CutInv
  BY CutInit
<1>2. CutInv /\ [CompactionNext]_compactionVars => CutInv'
  BY CutStep
<1>3. CutInv => CutExact
  BY CutInvExact
<1> QED
  BY <1>1, <1>2, <1>3, PTL DEF CompactionSpec

-------------------------------------------------------------------------------
(* Turns: an answer, its tool calls and their results.                        *)

Requested(s, i) == s[i].type \in InContext /\ s[i].type # "hidden_bash"
Stopped(s, a) == s[a].type = "assistant" /\ s[a].stop = "stop"
Results(s, a, m) == {i \in (a + 1)..m : s[i].type = "toolResult"}
Answered(s, a, m) == UNION {s[i].calls : i \in Results(s, a, m)}

\* The turn of the answer at a goes on at m: nothing else came in between.
TurnLasts(s, a, m) == Stopped(s, a) /\ \A i \in (a + 1)..m : s[i].type \in {"toolResult", "setting"}

\* The same for the LLM, which does not see everything.
TurnOpen(s, a, m) == Stopped(s, a) /\ \A i \in (a + 1)..m : Requested(s, i) => s[i].type = "toolResult"

\* The result at i is that of a call at a, and the first.
Answers(s, i, a) ==
    /\ TurnLasts(s, a, i - 1)
    /\ \E call \in s[a].calls : s[i].calls = {call} /\ call \notin Answered(s, a, i - 1)

From(s, m) == IF LastAmong(s, m) = 0 THEN 1 ELSE s[LastAmong(s, m)].keeps

\* A request made of the first m entries is one that an answer can follow.
EndsWell(s, m) ==
    /\ LastAmong(s, m) # 0 \/ \E i \in 1..m : Requested(s, i) /\ s[i].type # "assistant"
    /\ \A a \in 1..m : a >= From(s, m) /\ TurnOpen(s, a, m) => s[a].calls \subseteq Answered(s, a, m)
    /\ \A a \in 1..m : a >= From(s, m) /\ Stopped(s, a) /\ s[a].calls = {} =>
           \E i \in (a + 1)..m : Requested(s, i) /\ s[i].type # "assistant"

\* What holds at a place whatever comes behind it.
PairedAt(s, i) ==
    /\ s[i].stop # "none" => s[i].type = "assistant"
    /\ s[i].type = "toolResult" => \E a \in 1..(i - 1) : Answers(s, i, a)
    /\ s[i].type = "assistant" => EndsWell(s, i - 1)
    /\ s[i].type = "compaction" =>
           \A r \in 1..(i - 1) : r >= s[i].keeps /\ s[r].type = "toolResult" =>
               \E a \in 1..(r - 1) : a >= s[i].keeps /\ Answers(s, r, a)

AllPaired(s) == \A i \in DOMAIN s : PairedAt(s, i)

TurnInv ==
    /\ AllPaired(path)
    /\ owed # {} => \E a \in DOMAIN path :
           /\ TurnLasts(path, a, Len(path)) /\ owed \subseteq path[a].calls
           /\ owed \cap Answered(path, a, Len(path)) = {}
           /\ path[a].calls \subseteq owed \cup Answered(path, a, Len(path))
    /\ running /\ owed = {} => EndsWell(path, Len(path))

\* All of this is about what comes before a place.
LEMMA TurnSame ==
    ASSUME NEW s, NEW t, NEW n \in Nat, SameUpTo(s, t, n), NEW a \in 1..n, NEW m \in 0..n
    PROVE  /\ TurnLasts(s, a, m) <=> TurnLasts(t, a, m)
           /\ TurnOpen(s, a, m) <=> TurnOpen(t, a, m)
           /\ Answered(s, a, m) = Answered(t, a, m)
<1>1. s[a] = t[a] /\ \A i \in (a + 1)..m : s[i] = t[i]
  BY DEF SameUpTo
<1>2. Results(s, a, m) = Results(t, a, m) /\ \A i \in Results(s, a, m) : s[i].calls = t[i].calls
  BY <1>1 DEF Results
<1>3. Answered(s, a, m) = Answered(t, a, m)
  BY <1>2 DEF Answered
<1> QED
  BY <1>1, <1>3 DEF TurnLasts, TurnOpen, Stopped, Requested

LEMMA AnswersSame ==
    ASSUME NEW s, NEW t, NEW n \in Nat, SameUpTo(s, t, n), NEW i \in 1..n, NEW a \in 1..(i - 1), Answers(s, i, a)
    PROVE  Answers(t, i, a)
<1>1. a \in 1..n /\ i - 1 \in 0..n /\ s[a] = t[a] /\ s[i] = t[i]
  BY DEF SameUpTo
<1> DEFINE m == i - 1
<1>2. m \in 0..n /\ TurnLasts(s, a, m)
  BY <1>1 DEF Answers
<1> HIDE DEF m
<1>3. TurnLasts(t, a, m) /\ Answered(s, a, m) = Answered(t, a, m)
  BY <1>1, <1>2, TurnSame
<1>4. TurnLasts(t, a, i - 1) /\ Answered(s, a, i - 1) = Answered(t, a, i - 1)
  BY <1>3 DEF m
<1> QED
  BY <1>1, <1>4 DEF Answers

LEMMA FromSame ==
    ASSUME NEW s, NEW t, NEW n \in Nat, SameUpTo(s, t, n), NEW m \in 0..n
    PROVE  LastAmong(s, m) = LastAmong(t, m) /\ From(s, m) = From(t, m)
<1> DEFINE P == 1..m
<1>1. P \in SUBSET (1..n)
  OBVIOUS
<1> HIDE DEF P
<1>2. Among(s, {"compaction"}, P) = Among(t, {"compaction"}, P)
  BY <1>1, AmongSame
<1>3. LastAmong(s, m) = LastAmong(t, m)
  BY <1>2 DEF LastAmong, P
<1>4. LastAmong(s, m) # 0 => s[LastAmong(s, m)] = t[LastAmong(s, m)]
  <2>1. m \in Nat
    OBVIOUS
  <2>2. LastAmong(s, m) \in 0..m
    BY <2>1, LastAmongIn
  <2> QED
    BY <2>2 DEF SameUpTo
<1> QED
  BY <1>3, <1>4 DEF From

LEMMA EndsWellSame ==
    ASSUME NEW s, NEW t, NEW n \in Nat, SameUpTo(s, t, n), NEW m \in 0..n, EndsWell(s, m)
    PROVE  EndsWell(t, m)
<1>1. LastAmong(s, m) = LastAmong(t, m) /\ From(s, m) = From(t, m)
  BY FromSame
<1>2. \A i \in 1..m : i \in 1..n /\ s[i] = t[i]
  BY DEF SameUpTo
<1>3. LastAmong(t, m) # 0 \/ \E i \in 1..m : Requested(t, i) /\ t[i].type # "assistant"
  BY <1>1, <1>2 DEF EndsWell, Requested
<1>4. ASSUME NEW a \in 1..m, a >= From(t, m), TurnOpen(t, a, m)
      PROVE  t[a].calls \subseteq Answered(t, a, m)
  <2>1. TurnOpen(s, a, m) /\ Answered(s, a, m) = Answered(t, a, m) /\ s[a] = t[a]
    BY <1>2, <1>4, TurnSame
  <2> QED
    BY <1>1, <1>4, <2>1 DEF EndsWell
<1>5. ASSUME NEW a \in 1..m, a >= From(t, m), Stopped(t, a), t[a].calls = {}
      PROVE  \E i \in (a + 1)..m : Requested(t, i) /\ t[i].type # "assistant"
  <2>1. Stopped(s, a) /\ s[a].calls = {}
    BY <1>2, <1>5 DEF Stopped
  <2>2. PICK i \in (a + 1)..m : Requested(s, i) /\ s[i].type # "assistant"
    BY <1>1, <1>5, <2>1 DEF EndsWell
  <2>3. i \in 1..m
    OBVIOUS
  <2> QED
    BY <1>2, <2>2, <2>3 DEF Requested
<1> QED
  BY <1>3, <1>4, <1>5 DEF EndsWell

LEMMA PairedAtSame ==
    ASSUME NEW s, NEW t, NEW n \in Nat, SameUpTo(s, t, n), NEW i \in 1..n, PairedAt(s, i)
    PROVE  PairedAt(t, i)
<1>1. s[i] = t[i] /\ i - 1 \in 0..n
  BY DEF SameUpTo
<1>2. t[i].type = "toolResult" => \E a \in 1..(i - 1) : Answers(t, i, a)
  <2> SUFFICES ASSUME t[i].type = "toolResult" PROVE \E a \in 1..(i - 1) : Answers(t, i, a)
    OBVIOUS
  <2>1. PICK a \in 1..(i - 1) : Answers(s, i, a)
    BY <1>1 DEF PairedAt
  <2> QED
    BY <2>1, AnswersSame
<1>3. t[i].type = "assistant" => EndsWell(t, i - 1)
  BY <1>1, EndsWellSame DEF PairedAt
<1>4. ASSUME t[i].type = "compaction", NEW r \in 1..(i - 1), r >= t[i].keeps, t[r].type = "toolResult"
      PROVE  \E a \in 1..(r - 1) : a >= t[i].keeps /\ Answers(t, r, a)
  <2>1. r \in 1..n /\ s[r] = t[r]
    BY DEF SameUpTo
  <2>2. PICK a \in 1..(r - 1) : a >= s[i].keeps /\ Answers(s, r, a)
    BY <1>1, <1>4, <2>1 DEF PairedAt
  <2>3. Answers(t, r, a)
    BY <2>1, <2>2, AnswersSame
  <2> QED
    BY <1>1, <2>2, <2>3
<1>5. t[i].stop # "none" => t[i].type = "assistant"
  BY <1>1 DEF PairedAt
<1> QED
  BY <1>2, <1>3, <1>4, <1>5 DEF PairedAt

LEMMA GrownPaired ==
    ASSUME NEW b \in Seq(PathEntries), AllPaired(b), NEW e \in PathEntries,
           PairedAt(Append(b, e), Len(b) + 1)
    PROVE  AllPaired(Append(b, e))
<1> DEFINE s == Append(b, e)  n == Len(b)
<1>1. /\ n \in Nat /\ DOMAIN s = 1..(n + 1) /\ DOMAIN b = 1..n /\ SameUpTo(b, s, n)
  BY DEF SameUpTo
<1> HIDE DEF n, s
<1>2. ASSUME NEW i \in DOMAIN s PROVE PairedAt(s, i)
  <2>1. CASE i = n + 1
    BY <2>1 DEF s, n
  <2>2. CASE i # n + 1
    <3>1. i \in 1..n
      BY <1>1, <2>2
    <3>2. PairedAt(b, i)
      BY <1>1, <3>1 DEF AllPaired
    <3> QED
      BY <1>1, <3>1, <3>2, PairedAtSame
  <2> QED
    BY <2>1, <2>2
<1> QED
  BY <1>2 DEF AllPaired, s

LEMMA PrefixPaired ==
    ASSUME NEW b \in Seq(PathEntries), AllPaired(b), NEW to \in 0..Len(b)
    PROVE  AllPaired(SubSeq(b, 1, to))
<1> DEFINE s == SubSeq(b, 1, to)
<1>1. /\ DOMAIN s = 1..to /\ to \in Nat /\ DOMAIN b = 1..Len(b) /\ SameUpTo(b, s, to)
      /\ \A i \in 1..to : i \in 1..Len(b)
  BY DEF SameUpTo
<1> HIDE DEF s
<1>2. ASSUME NEW i \in DOMAIN s PROVE PairedAt(s, i)
  <2>1. i \in 1..to /\ PairedAt(b, i)
    BY <1>1 DEF AllPaired
  <2> QED
    BY <1>1, <2>1, PairedAtSame
<1> QED
  BY <1>2 DEF AllPaired, s

\* An entry that is no message, no result and no compaction is well placed anywhere.
LEMMA PlainPaired ==
    ASSUME NEW s, NEW i, s[i].stop = "none", s[i].type \notin {"toolResult", "assistant", "compaction"}
    PROVE  PairedAt(s, i)
BY DEF PairedAt

\* A compaction keeps whole turns.
LEMMA CutKeepsTurns ==
    ASSUME NEW b \in Seq(PathEntries), AllPaired(b), NEW cut \in 1..Len(b), CutBetween(b, cut),
           NEW r \in 1..Len(b), r >= cut, b[r].type = "toolResult"
    PROVE  \E a \in 1..(r - 1) : a >= cut /\ Answers(b, r, a)
<1>1. PICK a \in 1..(r - 1) : Answers(b, r, a)
  BY DEF AllPaired, PairedAt
<1>2. b[a].type = "assistant" /\ \A i \in (a + 1)..(r - 1) : b[i].type \in {"toolResult", "setting"}
  BY <1>1 DEF Answers, TurnLasts, Stopped
<1>3. a >= cut
  <2> SUFFICES ASSUME a < cut PROVE FALSE
    OBVIOUS
  <2>1. CASE cut = 1
    BY <2>1
  <2>2. CASE b[cut - 1].type = "compaction"
    <3>1. cut - 1 = a \/ cut - 1 \in (a + 1)..(r - 1)
      OBVIOUS
    <3> QED
      BY <1>2, <2>2, <3>1
  <2>3. CASE \E first \in cut..Len(b) : b[first].type \in CutPoints /\ Among(b, Messages, cut..(first - 1)) = {}
    <3>1. PICK first \in cut..Len(b) : b[first].type \in CutPoints /\ Among(b, Messages, cut..(first - 1)) = {}
      BY <2>3
    <3>2. b[first].type \notin {"toolResult", "setting"}
      BY <3>1 DEF CutPoints, InContext, Messages
    <3>3. CASE r < first
      <4>1. r \in cut..(first - 1)
        BY <3>3
      <4> QED
        BY <3>1, <4>1 DEF Among, Messages
    <3>4. CASE first = r
      BY <3>2, <3>4
    <3>5. CASE first < r
      <4>1. first \in (a + 1)..(r - 1)
        BY <3>5
      <4> QED
        BY <1>2, <3>2, <4>1
    <3> QED
      BY <3>3, <3>4, <3>5
  <2> QED
    BY <2>1, <2>2, <2>3 DEF CutBetween
<1> QED
  BY <1>1, <1>3

LEMMA FromNext ==
    ASSUME NEW s, NEW n \in Nat, s[n + 1].type # "compaction"
    PROVE  LastAmong(s, n + 1) = LastAmong(s, n) /\ From(s, n + 1) = From(s, n)
<1>1. Among(s, {"compaction"}, 1..(n + 1)) = Among(s, {"compaction"}, 1..n)
  <2>1. \A i \in 1..(n + 1) : i \in 1..n \/ i = n + 1
    OBVIOUS
  <2>2. \A i \in 1..n : i \in 1..(n + 1)
    OBVIOUS
  <2> QED
    BY <2>1, <2>2 DEF Among
<1>2. LastAmong(s, n + 1) = LastAmong(s, n)
  BY <1>1 DEF LastAmong
<1> QED
  BY <1>2 DEF From

\* What is no result ends no more than it did: the answers so far stay as they are.
LEMMA AnsweredNext ==
    ASSUME NEW s, NEW n \in Nat, NEW a \in 1..n, s[n + 1].type # "toolResult"
    PROVE  Answered(s, a, n + 1) = Answered(s, a, n)
<1>1. \A i : i \in (a + 1)..(n + 1) <=> i \in (a + 1)..n \/ i = n + 1
  OBVIOUS
<1>2. Results(s, a, n + 1) = Results(s, a, n)
  BY <1>1 DEF Results
<1> QED
  BY <1>2 DEF Answered

LEMMA AnsweredMore ==
    ASSUME NEW s, NEW n \in Nat, NEW a \in 1..n, s[n + 1].type = "toolResult"
    PROVE  Answered(s, a, n + 1) = Answered(s, a, n) \cup s[n + 1].calls
<1>1. \A i : i \in (a + 1)..(n + 1) <=> i \in (a + 1)..n \/ i = n + 1
  OBVIOUS
<1>2. Results(s, a, n + 1) = Results(s, a, n) \cup {n + 1}
  BY <1>1 DEF Results
<1> QED
  BY <1>2 DEF Answered

\* A request that an answer can follow stays one behind what it does not hold,
LEMMA EndsWellUnseen ==
    ASSUME NEW s, NEW n \in Nat, EndsWell(s, n), ~Requested(s, n + 1),
           s[n + 1].type \notin {"compaction", "assistant", "toolResult"}
    PROVE  EndsWell(s, n + 1)
<1>1. LastAmong(s, n + 1) = LastAmong(s, n) /\ From(s, n + 1) = From(s, n)
  BY FromNext
<1>2. \A i \in 1..n : i \in 1..(n + 1)
  OBVIOUS
<1>3. LastAmong(s, n + 1) # 0 \/ \E i \in 1..(n + 1) : Requested(s, i) /\ s[i].type # "assistant"
  BY <1>1, <1>2 DEF EndsWell
<1>4. \A a \in 1..(n + 1) : Stopped(s, a) => a \in 1..n
  <2>1. \A a \in 1..(n + 1) : a \in 1..n \/ a = n + 1
    OBVIOUS
  <2> QED
    BY <2>1 DEF Stopped
<1>5. ASSUME NEW a \in 1..(n + 1), a >= From(s, n + 1), TurnOpen(s, a, n + 1)
      PROVE  s[a].calls \subseteq Answered(s, a, n + 1)
  <2>1. a \in 1..n
    BY <1>4, <1>5 DEF TurnOpen
  <2>2. TurnOpen(s, a, n)
    <3>1. \A i \in (a + 1)..n : i \in (a + 1)..(n + 1)
      BY <2>1
    <3> QED
      BY <1>5, <3>1 DEF TurnOpen
  <2>3. Answered(s, a, n + 1) = Answered(s, a, n)
    BY <2>1, AnsweredNext
  <2> QED
    BY <1>1, <1>5, <2>1, <2>2, <2>3 DEF EndsWell
<1>6. ASSUME NEW a \in 1..(n + 1), a >= From(s, n + 1), Stopped(s, a), s[a].calls = {}
      PROVE  \E i \in (a + 1)..(n + 1) : Requested(s, i) /\ s[i].type # "assistant"
  <2>1. a \in 1..n
    BY <1>4, <1>6
  <2>2. PICK i \in (a + 1)..n : Requested(s, i) /\ s[i].type # "assistant"
    BY <1>1, <1>6, <2>1 DEF EndsWell
  <2>3. i \in (a + 1)..(n + 1)
    BY <2>1
  <2> QED
    BY <2>2, <2>3
<1> QED
  BY <1>3, <1>5, <1>6 DEF EndsWell

\* behind an answer that failed, which is left out,
LEMMA EndsWellFailed ==
    ASSUME NEW s, NEW n \in Nat, EndsWell(s, n), s[n + 1].type = "assistant", s[n + 1].stop # "stop"
    PROVE  EndsWell(s, n + 1)
<1>1. LastAmong(s, n + 1) = LastAmong(s, n) /\ From(s, n + 1) = From(s, n)
  BY FromNext
<1>2. \A i \in 1..n : i \in 1..(n + 1)
  OBVIOUS
<1>3. LastAmong(s, n + 1) # 0 \/ \E i \in 1..(n + 1) : Requested(s, i) /\ s[i].type # "assistant"
  BY <1>1, <1>2 DEF EndsWell
<1>4. \A a \in 1..(n + 1) : Stopped(s, a) => a \in 1..n
  <2>1. \A a \in 1..(n + 1) : a \in 1..n \/ a = n + 1
    OBVIOUS
  <2> QED
    BY <2>1 DEF Stopped
<1>5. \A a \in 1..(n + 1) : ~TurnOpen(s, a, n + 1)
  <2> SUFFICES ASSUME NEW a \in 1..(n + 1), TurnOpen(s, a, n + 1) PROVE FALSE
    OBVIOUS
  <2>1. a \in 1..n
    BY <1>4 DEF TurnOpen
  <2>2. n + 1 \in (a + 1)..(n + 1)
    BY <2>1
  <2> QED
    BY <2>2 DEF TurnOpen, Requested, InContext, Messages
<1>6. ASSUME NEW a \in 1..(n + 1), a >= From(s, n + 1), Stopped(s, a), s[a].calls = {}
      PROVE  \E i \in (a + 1)..(n + 1) : Requested(s, i) /\ s[i].type # "assistant"
  <2>1. a \in 1..n
    BY <1>4, <1>6
  <2>2. PICK i \in (a + 1)..n : Requested(s, i) /\ s[i].type # "assistant"
    BY <1>1, <1>6, <2>1 DEF EndsWell
  <2>3. i \in (a + 1)..(n + 1)
    BY <2>1
  <2> QED
    BY <2>2, <2>3
<1> QED
  BY <1>3, <1>5, <1>6 DEF EndsWell

\* and is one behind a user's message.
LEMMA EndsWellUser ==
    ASSUME NEW s, NEW n \in Nat, s[n + 1].type = "user"
    PROVE  EndsWell(s, n + 1)
<1>1. Requested(s, n + 1) /\ n + 1 \in 1..(n + 1)
  BY DEF Requested, InContext, Messages
<1>2. \A a \in 1..(n + 1) : Stopped(s, a) => n + 1 \in (a + 1)..(n + 1)
  <2>1. \A a \in 1..(n + 1) : a = n + 1 \/ n + 1 \in (a + 1)..(n + 1)
    OBVIOUS
  <2> QED
    BY <2>1 DEF Stopped
<1>3. \A a \in 1..(n + 1) : ~TurnOpen(s, a, n + 1)
  BY <1>1, <1>2 DEF TurnOpen
<1> QED
  BY <1>1, <1>2, <1>3 DEF EndsWell

\* Behind the last result of a turn.
LEMMA EndsWellResult ==
    ASSUME NEW s, NEW n \in Nat, s[n + 1].type = "toolResult", NEW a \in 1..n,
           TurnLasts(s, a, n), s[a].calls \subseteq Answered(s, a, n + 1)
    PROVE  EndsWell(s, n + 1)
<1>1. Requested(s, n + 1) /\ n + 1 \in 1..(n + 1)
  BY DEF Requested, InContext, Messages
<1>2. \A o \in 1..(n + 1) : Stopped(s, o) => n + 1 \in (o + 1)..(n + 1)
  <2>1. \A o \in 1..(n + 1) : o = n + 1 \/ n + 1 \in (o + 1)..(n + 1)
    OBVIOUS
  <2> QED
    BY <2>1 DEF Stopped
<1>3. ASSUME NEW o \in 1..(n + 1), TurnOpen(s, o, n + 1) PROVE o = a
  <2>1. CASE o < a
    <3>1. a \in (o + 1)..(n + 1)
      BY <2>1
    <3> QED
      BY <1>3, <3>1 DEF TurnOpen, TurnLasts, Stopped, Requested, InContext, Messages
  <2>2. CASE o > a
    <3>1. s[o].type = "assistant"
      BY <1>3 DEF TurnOpen, Stopped
    <3>2. o \in (a + 1)..n
      <4>1. o # n + 1
        BY <3>1
      <4> QED
        BY <2>2, <4>1
    <3> QED
      BY <3>1, <3>2 DEF TurnLasts
  <2> QED
    BY <2>1, <2>2
<1> QED
  BY <1>1, <1>2, <1>3 DEF EndsWell

LEMMA TurnInit == CompactionInit => TurnInv
<1> SUFFICES ASSUME CompactionInit PROVE TurnInv
  OBVIOUS
<1>1. DOMAIN <<>> = {}
  OBVIOUS
<1> QED
  BY <1>1 DEF CompactionInit, TurnInv, AllPaired

\* What Add makes of the branch.
LEMMA AddedPaired ==
    ASSUME CutInv, TurnInv, NEW e \in PathEntries, Add(e), NEW n, n = Len(path),
           PairedAt(Append(path, e), n + 1)
    PROVE  /\ n \in Nat /\ AllPaired(path') /\ Len(path') = n + 1 /\ path'[n + 1] = e /\ SameUpTo(path, path', n)
           /\ DOMAIN path = 1..n /\ DOMAIN path' = 1..(n + 1)
<1>1. path \in Seq(PathEntries) /\ path' = Append(path, e)
  BY DEF CutInv, Add
<1>2. AllPaired(path')
  BY <1>1, GrownPaired DEF TurnInv
<1> QED
  BY <1>1, <1>2 DEF SameUpTo

\* The turn that goes on is not disturbed by what does not belong to it.
LEMMA OwedKept ==
    ASSUME TurnInv, NEW s, NEW n \in Nat, n = Len(path), SameUpTo(path, s, n), s[n + 1].type = "setting",
           DOMAIN path = 1..n, owed # {}
    PROVE  \E a \in 1..(n + 1) :
               /\ TurnLasts(s, a, n + 1) /\ owed \subseteq s[a].calls
               /\ owed \cap Answered(s, a, n + 1) = {}
               /\ s[a].calls \subseteq owed \cup Answered(s, a, n + 1)
<1>1. PICK a \in 1..n : /\ TurnLasts(path, a, n) /\ owed \subseteq path[a].calls
                        /\ owed \cap Answered(path, a, n) = {}
                        /\ path[a].calls \subseteq owed \cup Answered(path, a, n)
  BY DEF TurnInv
<1>2. n \in 0..n /\ a \in 1..(n + 1)
  OBVIOUS
<1>3. TurnLasts(s, a, n) /\ Answered(s, a, n) = Answered(path, a, n) /\ s[a] = path[a]
  <2>1. s[a] = path[a]
    BY DEF SameUpTo
  <2>2. (TurnLasts(path, a, n) <=> TurnLasts(s, a, n)) /\ Answered(path, a, n) = Answered(s, a, n)
    BY <1>2, TurnSame
  <2> QED
    BY <1>1, <2>1, <2>2
<1>4. Answered(s, a, n + 1) = Answered(s, a, n)
  BY AnsweredNext
<1>5. TurnLasts(s, a, n + 1)
  <2>1. \A i \in (a + 1)..(n + 1) : i \in (a + 1)..n \/ i = n + 1
    OBVIOUS
  <2> QED
    BY <1>3, <2>1 DEF TurnLasts
<1> QED
  BY <1>1, <1>2, <1>3, <1>4, <1>5

\* Whatever follows a compaction that keeps something.
LEMMA CompactedTurns ==
    ASSUME CutInv, TurnInv, CanCompact, Len(path) < MaxLength, ~running, path' = Compacted, UNCHANGED owed,
           NEW n, n = Len(path)
    PROVE  /\ AllPaired(path') /\ owed' = {} /\ n \in Nat /\ n >= 1 /\ Len(path') = n + 1
           /\ SameUpTo(path, path', n)
           /\ path'[n + 1].type = "compaction" /\ path'[n + 1].keeps \in 1..n
           /\ path'[n + 1].keeps > LastAmong(path, n)
<1>1. PICK cut \in 1..Len(path), covers \in SUBSET (1..Len(path)) :
          Compacted = Append(path, [NewEntry("compaction", 0) EXCEPT !.keeps = cut, !.covers = covers])
  BY CompactionAssumption, CompactedCutsWell
<1> DEFINE e == [NewEntry("compaction", 0) EXCEPT !.keeps = cut, !.covers = covers]
<1>2. e \in PathEntries /\ e.type = "compaction" /\ e.keeps = cut /\ e.stop = "none"
  <2>1. Len(path) \in Nat /\ cut \in 0..MaxLength /\ covers \in SUBSET (1..MaxLength)
    BY CompactionAssumption DEF CutInv
  <2> QED
    BY <2>1 DEF NewEntry, PathEntries
<1> HIDE DEF e
<1>3. Compacted = Append(path, e)
  BY <1>1 DEF e
<1>4. Add(e)
  BY <1>3 DEF Add
<1>5. path \in Seq(PathEntries) /\ n \in Nat /\ AllPaired(path) /\ n >= 1
  BY DEF CutInv, TurnInv, CanCompact
<1> DEFINE s == Append(path, e)
<1>6. s[n + 1] = e /\ SameUpTo(path, s, n)
  BY <1>5 DEF SameUpTo
<1> HIDE DEF s
<1>7. CutBetween(path, cut)
  <2>1. CutBetween(path, Compacted[Len(path) + 1].keeps)
    BY CompactionAssumption, CompactedCutsWell
  <2> QED
    BY <1>2, <1>3, <1>6, <2>1 DEF s
<1>8. ASSUME NEW r \in 1..n, r >= cut, s[r].type = "toolResult"
      PROVE  \E a \in 1..(r - 1) : a >= cut /\ Answers(s, r, a)
  <2>1. path[r].type = "toolResult"
    BY <1>6, <1>8 DEF SameUpTo
  <2>2. PICK a \in 1..(r - 1) : a >= cut /\ Answers(path, r, a)
    BY <1>5, <1>7, <1>8, <2>1, CutKeepsTurns
  <2>3. Answers(s, r, a)
    BY <1>5, <1>6, <2>2, AnswersSame
  <2> QED
    BY <2>2, <2>3
<1>9. PairedAt(s, n + 1)
  <2>1. (n + 1) - 1 = n
    BY <1>5
  <2> QED
    BY <1>2, <1>6, <1>8, <2>1 DEF PairedAt
<1>10. /\ AllPaired(path') /\ Len(path') = n + 1 /\ path'[n + 1] = e /\ SameUpTo(path, path', n)
  <2>1. PairedAt(Append(path, e), n + 1)
    BY <1>9 DEF s
  <2> QED
    BY <1>2, <1>4, <2>1, AddedPaired
<1>11. owed' = {}
  BY DEF CutInv
<1>12. cut > LastAmong(path, n)
  <2>1. Compacted[Len(path) + 1].keeps > LastAmong(path, Len(path))
    BY CompactionAssumption, CompactedCutsWell
  <2> QED
    BY <1>2, <1>3, <1>6, <2>1 DEF s
<1> QED
  BY <1>2, <1>5, <1>10, <1>11, <1>12

LEMMA LastAmongBefore ==
    ASSUME NEW s, NEW n \in Nat, NEW m \in 0..n, LastAmong(s, n) <= m
    PROVE  LastAmong(s, m) = LastAmong(s, n) /\ From(s, m) = From(s, n)
<1> DEFINE l == LastAmong(s, n)  k == LastAmong(s, m)
<1>1. /\ l \in Among(s, {"compaction"}, 1..n) \cup {0} /\ l \in 0..n
      /\ \A i \in Among(s, {"compaction"}, 1..n) : l >= i
  BY LastAmongIn
<1>2. /\ k \in Among(s, {"compaction"}, 1..m) \cup {0} /\ k \in 0..m
      /\ \A i \in Among(s, {"compaction"}, 1..m) : k >= i
  <2>1. m \in Nat
    OBVIOUS
  <2> QED
    BY <2>1, LastAmongIn
<1>3. l <= m
  OBVIOUS
<1> HIDE DEF l, k
<1>4. k <= l
  BY <1>1, <1>2 DEF Among
<1>5. l <= k
  BY <1>1, <1>2, <1>3 DEF Among
<1>6. k = l
  BY <1>1, <1>2, <1>4, <1>5
<1> QED
  BY <1>6 DEF k, l, From

\* A compaction that makes room behind an overflow leaves a request to continue from.
LEMMA RecoveredEndsWell ==
    ASSUME CutInv, TurnInv, NEW n \in Nat, n = Len(path), NEW t, SameUpTo(path, t, n),
           t[n + 1].type = "compaction", t[n + 1].keeps \in 1..n, t[n + 1].keeps > LastAmong(path, n),
           LastAnswer # 0, path[LastAnswer].stop = "overflow"
    PROVE  EndsWell(t, n + 1)
<1> DEFINE y == LastAnswer  cut == t[n + 1].keeps  l == LastAmong(path, n)
<1>1. cut \in 1..n /\ cut > l /\ y # 0 /\ path[y].stop = "overflow"
  OBVIOUS
<1>2. l \in Among(path, {"compaction"}, 1..n) \cup {0} /\ l \in 0..n
  BY LastAmongIn
<1>3. From(path, n) \in 1..cut /\ (l # 0 => path[l].keeps \in 1..(l - 1))
  <2>1. CASE l = 0
    BY <1>1, <2>1 DEF From
  <2>2. CASE l # 0
    <3>1. CutWell(path, l)
      BY <1>2, <2>2 DEF CutInv, AllCutWell, Among
    <3>2. path[l].keeps \in 1..(l - 1)
      BY <3>1 DEF CutWell
    <3> HIDE DEF cut
    <3> QED
      BY <1>1, <1>2, <2>2, <3>2 DEF From
  <2> QED
    BY <2>1, <2>2
<1>4. FirstKept = From(path, n)
  BY DEF FirstKept, HasSummary, LastCompaction, From, LastAmong, Of, Among
<1>5. /\ y \in From(path, n)..n /\ path[y].type = "assistant"
      /\ \A i \in From(path, n)..n : path[i].type = "assistant" => i <= y
  <2> DEFINE S == {0} \cup Of({"assistant"}, Shown)
  <2>1. Of({"assistant"}, Shown) = {i \in From(path, n)..n : path[i].type = "assistant"}
    BY <1>4 DEF Of, Shown, InContext, Messages
  <2>2. S \in SUBSET (0..n) /\ S # {}
    BY <1>3, <2>1
  <2>3. y = Max(S)
    BY DEF LastAnswer
  <2> HIDE DEF S, y
  <2>4. y \in S /\ \A i \in S : y >= i
    BY <2>2, <2>3, MaxIn
  <2>5. y \in From(path, n)..n /\ path[y].type = "assistant"
    BY <1>1, <2>1, <2>4 DEF S
  <2>6. ASSUME NEW i \in From(path, n)..n, path[i].type = "assistant" PROVE i <= y
    <3>1. i \in S
      BY <2>1, <2>6 DEF S
    <3> QED
      BY <1>3, <2>4, <2>5, <3>1
  <2> QED
    BY <2>5, <2>6
<1> HIDE DEF y, cut, l
<1>6. \A i \in 1..n : path[i] = t[i]
  BY DEF SameUpTo
<1>7. LastAmong(t, n + 1) = n + 1 /\ From(t, n + 1) = cut
  <2> DEFINE k == LastAmong(t, n + 1)
  <2>1. n + 1 \in Nat
    OBVIOUS
  <2>2. k \in 0..(n + 1) /\ \A i \in Among(t, {"compaction"}, 1..(n + 1)) : k >= i
    BY <2>1, LastAmongIn
  <2>3. n + 1 \in Among(t, {"compaction"}, 1..(n + 1))
    BY DEF Among
  <2> HIDE DEF k
  <2>4. k = n + 1
    BY <2>2, <2>3
  <2> QED
    BY <2>4 DEF k, From, cut
<1>8. ASSUME NEW a \in 1..(n + 1), a >= cut, Stopped(t, a)
      PROVE  a \in 1..n /\ a < y
  <2>1. a \in 1..n
    <3>1. a # n + 1
      BY <1>8 DEF Stopped
    <3> QED
      BY <3>1
  <2>2. a \in From(path, n)..n /\ path[a].type = "assistant" /\ path[a].stop = "stop"
    BY <1>1, <1>3, <1>6, <1>8, <2>1 DEF Stopped
  <2>3. a <= y /\ a # y
    BY <1>1, <1>5, <2>2
  <2> QED
    BY <1>3, <1>5, <2>1, <2>3
<1>9. \A a \in 1..(n + 1) : a >= cut => ~TurnOpen(t, a, n + 1)
  <2> SUFFICES ASSUME NEW a \in 1..(n + 1), a >= cut, TurnOpen(t, a, n + 1) PROVE FALSE
    OBVIOUS
  <2>1. a \in 1..n /\ a < y
    BY <1>8 DEF TurnOpen
  <2>2. y \in 1..n /\ y \in (a + 1)..(n + 1) /\ t[y].type = "assistant"
    BY <1>3, <1>5, <1>6, <2>1
  <2> QED
    BY <2>2 DEF TurnOpen, Requested, InContext, Messages
<1>10. ASSUME NEW a \in 1..(n + 1), a >= cut, Stopped(t, a), t[a].calls = {}
       PROVE  \E i \in (a + 1)..(n + 1) : Requested(t, i) /\ t[i].type # "assistant"
  <2>1. a \in 1..n /\ a < y /\ y \in 1..n
    BY <1>3, <1>5, <1>8, <1>10
  <2>2. EndsWell(path, y - 1)
    BY <1>5, <2>1 DEF TurnInv, AllPaired, PairedAt
  <2>3. y - 1 \in 0..n /\ l <= y - 1 /\ a \in 1..(y - 1)
    BY <1>1, <1>2, <1>10, <2>1
  <2>4. From(path, y - 1) = From(path, n)
    BY <2>3, LastAmongBefore DEF l
  <2>5. a >= From(path, y - 1) /\ Stopped(path, a) /\ path[a].calls = {}
    BY <1>1, <1>3, <1>6, <1>10, <2>1, <2>4 DEF Stopped
  <2>6. PICK i \in (a + 1)..(y - 1) : Requested(path, i) /\ path[i].type # "assistant"
    BY <2>2, <2>3, <2>5 DEF EndsWell
  <2>7. i \in 1..n /\ i \in (a + 1)..(n + 1)
    BY <2>1
  <2> QED
    BY <1>6, <2>6, <2>7 DEF Requested
<1> QED
  BY <1>7, <1>9, <1>10 DEF EndsWell

LEMMA TurnStep == CutInv /\ TurnInv /\ [CompactionNext]_compactionVars => TurnInv'
<1> SUFFICES ASSUME CutInv, TurnInv, [CompactionNext]_compactionVars PROVE TurnInv'
  OBVIOUS
<1> DEFINE n == Len(path)
<1>0. /\ path \in Seq(PathEntries) /\ n \in Nat /\ AllPaired(path) /\ DOMAIN path = 1..n
      /\ ~running => owed = {}
  BY DEF CutInv, TurnInv
<1>a. ASSUME NEW type \in InContext \cup {"setting"}, NEW tokens \in Nat, Add(NewEntry(type, tokens)),
             type \notin {"toolResult", "assistant"}
      PROVE  /\ AllPaired(path') /\ Len(path') = n + 1 /\ path'[n + 1].type = type
             /\ SameUpTo(path, path', n) /\ DOMAIN path' = 1..(n + 1)
  <2> DEFINE e == NewEntry(type, tokens)
  <2>1. e \in PathEntries /\ e.type = type
    BY EntryTypes
  <2>2. e.stop = "none" /\ e.type # "compaction"
    BY <1>a DEF NewEntry, InContext, Messages
  <2>3. Add(e)
    BY <1>a
  <2> HIDE DEF e
  <2>4. Append(path, e)[n + 1] = e
    BY <1>0
  <2> DEFINE s == Append(path, e)
  <2>5. s[n + 1].stop = "none" /\ s[n + 1].type \notin {"toolResult", "assistant", "compaction"}
    BY <1>a, <2>1, <2>2, <2>4
  <2> HIDE DEF s
  <2>6. PairedAt(s, n + 1)
    BY <2>5, PlainPaired
  <2> DEFINE k == n
  <2>7. PairedAt(Append(path, e), n + 1)
    BY <2>6 DEF s
  <2> QED
    BY <2>1, <2>3, <2>7, AddedPaired
<1> HIDE DEF n
<1>1. CASE User
  <2>1. "user" \in InContext \cup {"setting"} /\ 1 \in Nat /\ "user" \notin {"toolResult", "assistant"}
    BY DEF InContext, Messages
  <2>2. AllPaired(path') /\ Len(path') = n + 1 /\ path'[n + 1].type = "user" /\ owed' = {}
    BY <1>1, <1>a, <2>1 DEF User
  <2>3. EndsWell(path', n + 1)
    BY <1>0, <2>2, EndsWellUser
  <2> QED
    BY <2>2, <2>3 DEF TurnInv
<1>2. CASE Halt
  BY <1>2 DEF Halt, TurnInv
<1>3. CASE Setting
  <2>1. "setting" \in InContext \cup {"setting"} /\ 0 \in Nat /\ "setting" \notin {"toolResult", "assistant"}
    OBVIOUS
  <2>2. /\ AllPaired(path') /\ Len(path') = n + 1 /\ path'[n + 1].type = "setting"
        /\ SameUpTo(path, path', n) /\ DOMAIN path' = 1..(n + 1)
    BY <1>3, <1>a, <2>1 DEF Setting
  <2>3. owed' = owed /\ running' = running
    BY <1>3 DEF Setting
  <2>4. owed # {} => \E a \in 1..(n + 1) :
               /\ TurnLasts(path', a, n + 1) /\ owed \subseteq path'[a].calls
               /\ owed \cap Answered(path', a, n + 1) = {}
               /\ path'[a].calls \subseteq owed \cup Answered(path', a, n + 1)
    <3>1. n = Len(path)
      BY DEF n
    <3> QED
      BY <1>0, <2>2, <3>1, OwedKept
  <2>5. running /\ owed = {} => EndsWell(path', n + 1)
    <3> SUFFICES ASSUME running, owed = {} PROVE EndsWell(path', n + 1)
      OBVIOUS
    <3>1. EndsWell(path, n)
      BY DEF TurnInv, n
    <3>2. n \in 0..n
      BY <1>0
    <3>3. EndsWell(path', n)
      BY <1>0, <2>2, <3>1, <3>2, EndsWellSame
    <3>4. ~Requested(path', n + 1)
      BY <2>2 DEF Requested, InContext, Messages
    <3> QED
      BY <1>0, <2>2, <3>3, <3>4, EndsWellUnseen
  <2> QED
    BY <2>2, <2>3, <2>4, <2>5 DEF TurnInv
<1>4. CASE Compact
  <2>1. AllPaired(path') /\ owed' = {} /\ ~running'
    BY <1>4, CompactedTurns DEF Compact
  <2> QED
    BY <2>1 DEF TurnInv
<1>5. CASE Retry
  <2>1. n >= 1 /\ path[n].stop = "error" /\ path' = path /\ owed' = owed /\ owed = {}
    BY <1>0, <1>5 DEF Retry, Last, n
  <2>2. path[n].type = "assistant" /\ EndsWell(path, n - 1)
    BY <1>0, <2>1 DEF AllPaired, PairedAt
  <2>3. EndsWell(path, n)
    <3> DEFINE m == n - 1
    <3>1. m \in Nat /\ m + 1 = n
      BY <1>0, <2>1
    <3>2. path[m + 1].type = "assistant" /\ path[m + 1].stop # "stop" /\ EndsWell(path, m)
      BY <2>1, <2>2, <3>1
    <3> HIDE DEF m
    <3>3. EndsWell(path, m + 1)
      BY <3>1, <3>2, EndsWellFailed
    <3> QED
      BY <3>1, <3>3
  <2> QED
    BY <1>0, <2>1, <2>3 DEF TurnInv, n
<1>6. CASE Recover
  <2>1. /\ AllPaired(path') /\ owed' = {} /\ Len(path') = n + 1
        /\ SameUpTo(path, path', n) /\ path'[n + 1].type = "compaction"
        /\ path'[n + 1].keeps \in 1..n /\ path'[n + 1].keeps > LastAmong(path, n)
    BY <1>6, CompactedTurns DEF Recover, n
  <2>2. LastAnswer # 0 /\ path[LastAnswer].stop = "overflow" /\ n = Len(path)
    BY <1>6 DEF Recover, n
  <2>3. EndsWell(path', n + 1)
    BY <1>0, <2>1, <2>2, RecoveredEndsWell
  <2> QED
    BY <2>1, <2>3 DEF TurnInv
<1>7. ASSUME NEW k \in 0..MaxCalls, NEW stop \in {"stop", "error", "overflow", "aborted"}, Answer(k, stop)
      PROVE  TurnInv'
  <2> DEFINE calls == {<<Len(path) + 1, j>> : j \in 1..k}
             tokens == IF stop = "stop" THEN 1 ELSE 0
             e == [NewEntry("assistant", tokens) EXCEPT !.calls = calls, !.stop = stop]
  <2>1. /\ running /\ owed = {} /\ Add(e) /\ owed' = (IF stop = "stop" THEN calls ELSE {})
        /\ running' = (stop = "stop" /\ k > 0)
    BY <1>7 DEF Answer, Owed
  <2>2. calls \in SUBSET ((1..MaxLength) \X (1..MaxCalls)) /\ (k > 0 => calls # {})
    <3>1. Len(path) + 1 \in 1..MaxLength
      BY <2>1, CompactionAssumption DEF CutInv, Add
    <3>2. 1..k \subseteq 1..MaxCalls /\ (k > 0 => 1 \in 1..k)
      BY CompactionAssumption
    <3>3. calls \in SUBSET ((1..MaxLength) \X (1..MaxCalls))
      BY <3>1, <3>2
    <3>4. k > 0 => <<Len(path) + 1, 1>> \in calls
      BY <3>2
    <3> QED
      BY <3>3, <3>4
  <2> HIDE DEF calls
  <2>3. tokens \in Nat
    OBVIOUS
  <2> HIDE DEF tokens
  <2>4. e \in PathEntries /\ e.type = "assistant" /\ e.calls = calls /\ e.stop = stop
    <3>1. "assistant" \in InContext \cup {"setting", "compaction"}
      BY DEF InContext, Messages
    <3>2. NewEntry("assistant", tokens) \in PathEntries
      BY <2>3, <3>1, EntryTypes
    <3>3. stop \in {"none", "stop", "error", "overflow", "aborted"}
      OBVIOUS
    <3>4. e \in PathEntries
      BY <2>2, <3>2, <3>3 DEF PathEntries
    <3>5. e.type = "assistant" /\ e.calls = calls /\ e.stop = stop
      BY DEF NewEntry
    <3> QED
      BY <3>4, <3>5
  <2> HIDE DEF e
  <2> DEFINE s == Append(path, e)
  <2>5. s[n + 1] = e /\ SameUpTo(path, s, n) /\ n \in 0..n /\ (n + 1) - 1 = n
    BY <1>0 DEF SameUpTo, n
  <2> HIDE DEF s
  <2>6. EndsWell(s, n)
    <3>1. EndsWell(path, n)
      BY <2>1 DEF TurnInv, n
    <3> QED
      BY <1>0, <2>5, <3>1, EndsWellSame
  <2>7. PairedAt(s, n + 1)
    BY <2>4, <2>5, <2>6 DEF PairedAt
  <2>8. /\ AllPaired(path') /\ Len(path') = n + 1 /\ path'[n + 1] = e /\ DOMAIN path' = 1..(n + 1)
    <3>1. PairedAt(Append(path, e), n + 1) /\ n = Len(path)
      BY <2>7 DEF s, n
    <3> QED
      BY <2>1, <2>4, <3>1, AddedPaired
  <2>9. CASE stop = "stop"
    <3>1. TurnLasts(path', n + 1, n + 1) /\ Answered(path', n + 1, n + 1) = {}
      <4>1. ((n + 1) + 1)..(n + 1) = {}
        BY <1>0
      <4>2. Results(path', n + 1, n + 1) = {}
        BY <4>1 DEF Results
      <4> QED
        BY <2>4, <2>8, <2>9, <4>1, <4>2 DEF TurnLasts, Stopped, Answered
    <3>2. owed' = calls /\ path'[n + 1].calls = calls /\ n + 1 \in DOMAIN path'
      BY <1>0, <2>1, <2>4, <2>8, <2>9
    <3>3. ~(running' /\ owed' = {})
      BY <2>1, <2>2, <3>2
    <3> QED
      BY <2>8, <3>1, <3>2, <3>3 DEF TurnInv
  <2>10. CASE stop # "stop"
    BY <2>1, <2>8, <2>10 DEF TurnInv
  <2> QED
    BY <2>9, <2>10
<1>8. ASSUME NEW tokens \in ResultTokens, Result(tokens)
      PROVE  TurnInv'
  <2>1. PICK call \in owed : /\ Add([NewEntry("toolResult", tokens) EXCEPT !.calls = {call}])
                             /\ owed' = owed \ {call}
    BY <1>8 DEF Result
  <2> DEFINE e == [NewEntry("toolResult", tokens) EXCEPT !.calls = {call}]
  <2>2. PICK a \in 1..n : /\ TurnLasts(path, a, n) /\ owed \subseteq path[a].calls
                          /\ owed \cap Answered(path, a, n) = {}
                          /\ path[a].calls \subseteq owed \cup Answered(path, a, n)
    BY <1>0, <2>1 DEF TurnInv, n
  <2>3. call \in (1..MaxLength) \X (1..MaxCalls)
    <3>1. path[a].calls \in SUBSET ((1..MaxLength) \X (1..MaxCalls))
      <4>1. path[a] \in PathEntries
        BY <1>0
      <4> QED
        BY <4>1 DEF PathEntries
    <3> QED
      BY <2>1, <2>2, <3>1
  <2>4. e \in PathEntries /\ e.type = "toolResult" /\ e.calls = {call} /\ e.stop = "none"
    BY <2>3, CompactionAssumption DEF NewEntry, PathEntries, InContext, Messages
  <2>5. Add(e)
    BY <2>1
  <2> HIDE DEF e
  <2> DEFINE s == Append(path, e)
  <2>6. s[n + 1] = e /\ SameUpTo(path, s, n) /\ n \in 0..n /\ (n + 1) - 1 = n
    BY <1>0 DEF SameUpTo, n
  <2> HIDE DEF s
  <2>7. TurnLasts(s, a, n) /\ Answered(s, a, n) = Answered(path, a, n)
    <3>1. (TurnLasts(path, a, n) <=> TurnLasts(s, a, n)) /\ Answered(path, a, n) = Answered(s, a, n)
      BY <1>0, <2>6, TurnSame
    <3> QED
      BY <2>2, <3>1
  <2>8. s[a] = path[a]
    BY <2>6 DEF SameUpTo
  <2>9. PairedAt(s, n + 1)
    <3>1. call \in s[a].calls /\ call \notin Answered(s, a, n)
      BY <2>1, <2>2, <2>7, <2>8
    <3>2. Answers(s, n + 1, a)
      BY <2>4, <2>6, <2>7, <3>1 DEF Answers
    <3> QED
      BY <2>4, <2>6, <3>2 DEF PairedAt
  <2>10. /\ AllPaired(path') /\ Len(path') = n + 1 /\ path' = s /\ DOMAIN path' = 1..(n + 1)
    <3>1. PairedAt(Append(path, e), n + 1) /\ n = Len(path)
      BY <2>9 DEF s, n
    <3>2. path' = s
      BY <2>5 DEF Add, s
    <3> QED
      BY <2>4, <2>5, <3>1, <3>2, AddedPaired
  <2>11. Answered(s, a, n + 1) = Answered(s, a, n) \cup {call}
    BY <1>0, <2>4, <2>6, AnsweredMore
  <2>12. TurnLasts(s, a, n + 1)
    <3>1. \A i \in (a + 1)..(n + 1) : i \in (a + 1)..n \/ i = n + 1
      BY <1>0
    <3> QED
      BY <2>4, <2>6, <2>7, <3>1 DEF TurnLasts
  <2>13. /\ owed' \subseteq s[a].calls /\ owed' \cap Answered(s, a, n + 1) = {}
         /\ s[a].calls \subseteq owed' \cup Answered(s, a, n + 1) /\ a \in 1..(n + 1)
    BY <1>0, <2>1, <2>2, <2>7, <2>8, <2>11
  <2>14. owed' = {} => EndsWell(s, n + 1)
    <3> SUFFICES ASSUME owed' = {} PROVE EndsWell(s, n + 1)
      OBVIOUS
    <3>1. s[a].calls \subseteq Answered(s, a, n + 1) /\ s[n + 1].type = "toolResult"
      BY <2>4, <2>6, <2>13
    <3> QED
      BY <1>0, <2>7, <3>1, EndsWellResult
  <2>15. path'[n + 1] = s[n + 1] /\ path' = s
    BY <2>10
  <2> QED
    BY <2>10, <2>12, <2>13, <2>14 DEF TurnInv
<1>9. ASSUME NEW type \in Asides, Aside(type)
      PROVE  TurnInv'
  <2>1. type \in InContext \cup {"setting"} /\ 1 \in Nat /\ type \notin {"toolResult", "assistant"}
    BY DEF Asides, InContext, Messages
  <2>2. AllPaired(path')
    BY <1>9, <1>a, <2>1 DEF Aside
  <2>3. ~running' /\ owed' = {}
    BY <1>0, <1>9 DEF Aside
  <2> QED
    BY <2>2, <2>3 DEF TurnInv
<1>10. ASSUME NEW to \in 0..Len(path), NEW summarize \in BOOLEAN, Navigate(to, summarize)
       PROVE  TurnInv'
  <2> DEFINE s == SubSeq(path, 1, to)  e == NewEntry("branch_summary", 1)
  <2>1. path' = (IF summarize THEN Append(s, e) ELSE s) /\ owed' = {} /\ ~running'
    BY <1>0, <1>10 DEF Navigate
  <2>2. AllPaired(s) /\ s \in Seq(PathEntries) /\ Len(s) = to
    BY <1>0, PrefixPaired, PrefixWell DEF CutInv
  <2>3. e \in PathEntries /\ e.type = "branch_summary" /\ e.stop = "none"
    <3>1. "branch_summary" \in InContext \cup {"setting", "compaction"} /\ 1 \in Nat
      BY DEF InContext
    <3>2. e \in PathEntries /\ e.type = "branch_summary"
      BY <3>1, EntryTypes
    <3> QED
      BY <3>2 DEF NewEntry
  <2> HIDE DEF s, e
  <2> DEFINE t == Append(s, e)
  <2>4. t[to + 1] = e
    BY <2>2
  <2>5. t[to + 1].stop = "none" /\ t[to + 1].type \notin {"toolResult", "assistant", "compaction"}
    BY <2>3, <2>4
  <2> HIDE DEF t
  <2>6. PairedAt(t, to + 1)
    BY <2>5, PlainPaired
  <2>7. AllPaired(Append(s, e))
    <3>1. PairedAt(Append(s, e), Len(s) + 1)
      BY <2>2, <2>6 DEF t
    <3> QED
      BY <2>2, <2>3, <3>1, GrownPaired
  <2> QED
    BY <2>1, <2>2, <2>7 DEF TurnInv
<1>11. CASE UNCHANGED compactionVars
  BY <1>11 DEF compactionVars, TurnInv
<1> QED
  BY <1>1, <1>2, <1>3, <1>4, <1>5, <1>6, <1>7, <1>8, <1>9, <1>10, <1>11 DEF CompactionNext

-------------------------------------------------------------------------------
(* From the branch to the request: what transformMessages has made of the     *)
(* first messages.                                                            *)

CallsOf == (1..MaxLength) \X (1..MaxCalls)
Sents == [role : {"user", "assistant", "toolResult"}, calls : SUBSET CallsOf]
Accs == [sent : Seq(Sents), pending : SUBSET CallsOf, found : SUBSET CallsOf]

LEMMA CallsFinite == \A P \in SUBSET CallsOf : IsFiniteSet(P)
<1>1. MaxLength \in Int /\ MaxCalls \in Int /\ 1 \in Int
  BY CompactionAssumption
<1>2. IsFiniteSet(1..MaxLength) /\ IsFiniteSet(1..MaxCalls)
  BY <1>1, FS_Interval
<1>3. IsFiniteSet(CallsOf)
  BY <1>2, FS_Product DEF CallsOf
<1> QED
  BY <1>3, FS_Subset

LEMMA SetToSeqOf ==
    ASSUME NEW S, IsFiniteSet(S)
    PROVE  /\ SetToSeq(S) \in Seq(S) /\ Len(SetToSeq(S)) = Cardinality(S) /\ Cardinality(S) \in Nat
           /\ {SetToSeq(S)[k] : k \in 1..Cardinality(S)} = S
<1> DEFINE n == Cardinality(S)  q == SetToSeq(S)
<1>1. n \in Nat /\ ExistsBijection(1..n, S)
  BY FS_CardinalityType
<1> HIDE DEF n
<1>2. PICK g \in [1..n -> S] : g \in Bijection(1..n, S)
  BY <1>1 DEF ExistsBijection, Bijection, Injection
<1>3. IsInjective(g)
  BY <1>2 DEF Bijection, Injection, IsInjective
<1>4. q \in [1..n -> S] /\ IsInjective(q)
  BY <1>3 DEF SetToSeq, n
<1> HIDE DEF q
<1>5. q \in Injection(1..n, S)
  BY <1>4 DEF Injection, IsInjective
<1>6. IsFiniteSet(1..n) /\ Cardinality(1..n) = n
  <2>1. 1 \in Int /\ n \in Int /\ ~(1 > n) => n - 1 + 1 = n
    BY <1>1
  <2>2. IsFiniteSet(1..n) /\ Cardinality(1..n) = (IF 1 > n THEN 0 ELSE n - 1 + 1)
    BY <1>1, FS_Interval
  <2> QED
    BY <1>1, <2>1, <2>2
<1>7. q \in Surjection(1..n, S)
  <2>1. Cardinality(1..n) = Cardinality(S)
    BY <1>6 DEF n
  <2> QED
    BY <1>5, <2>1, FS_Injection
<1>8. {q[k] : k \in 1..n} = S
  BY <1>4, <1>7 DEF Surjection
<1>9. q \in Seq(S) /\ Len(q) = n
  BY <1>1, <1>4
<1> QED
  BY <1>1, <1>8, <1>9 DEF n, q

\* As many results are added as there are calls without one.
ResultsFor(P) == {Sent("toolResult", {call}) : call \in P}

LEMMA ResultsForEach ==
    ASSUME NEW P \in SUBSET CallsOf
    PROVE  /\ IsFiniteSet(ResultsFor(P)) /\ Cardinality(ResultsFor(P)) = Cardinality(P)
           /\ Cardinality(P) \in Nat
<1> DEFINE D == ResultsFor(P)
           f == [call \in P |-> Sent("toolResult", {call})]
<1>1. IsFiniteSet(P)
  BY CallsFinite
<1>2. f \in [P -> D] /\ \A d \in D : \E call \in P : f[call] = d
  BY DEF ResultsFor
<1>3. \A c, d \in P : f[c] = f[d] => c = d
  BY DEF Sent
<1> HIDE DEF D, f
<1>4. f \in Bijection(P, D)
  BY <1>2, <1>3 DEF Bijection, Injection, Surjection, IsInjective
<1>5. ExistsBijection(P, D)
  BY <1>4 DEF ExistsBijection
<1> QED
  BY <1>1, <1>5, FS_Bijection, FS_CardinalityType DEF D

\* An answer's results follow it at once.
Followed(sent, j) ==
    LET m == Cardinality(sent[j].calls)
    IN  /\ j + m <= Len(sent)
        /\ {{call} : call \in sent[j].calls} = {sent[k].calls : k \in (j + 1)..(j + m)}

\* Those of the last answer as far as they have come.
Unfinished(acc, o) ==
    /\ acc.sent[o].role = "assistant" /\ acc.sent[o].calls = acc.pending
    /\ Len(acc.sent) = o + Cardinality(acc.found)
    /\ {{call} : call \in acc.found} = {acc.sent[k].calls : k \in (o + 1)..Len(acc.sent)}

ResultsCalled(sent) ==
    \A j \in 1..Len(sent) : sent[j].role = "toolResult" =>
        \E a \in 1..(j - 1) : sent[a].role = "assistant" /\ sent[j].calls \subseteq sent[a].calls

CompleteBut(acc, o) ==
    /\ o = 0 => acc.pending = {}
    /\ o # 0 => Unfinished(acc, o)
    /\ \A j \in 1..Len(acc.sent) : acc.sent[j].role = "assistant" /\ j # o => Followed(acc.sent, j)

AllComplete(sent) == \A j \in 1..Len(sent) : sent[j].role = "assistant" => Followed(sent, j)

Extends(t, s) == Len(t) >= Len(s) /\ \A k \in 1..Len(s) : t[k] = s[k]

LEMMA CompleteStays ==
    ASSUME NEW s \in Seq(Sents), NEW t \in Seq(Sents), Extends(t, s), NEW j \in 1..Len(s), Followed(s, j)
    PROVE  Followed(t, j)
<1> DEFINE m == Cardinality(s[j].calls)
<1>1. m \in Nat
  <2>1. s[j] \in Sents
    OBVIOUS
  <2>2. s[j].calls \in SUBSET CallsOf
    BY <2>1 DEF Sents
  <2> QED
    BY <2>2, CallsFinite, FS_CardinalityType
<1>2. t[j] = s[j] /\ Len(s) \in Nat /\ Len(t) \in Nat /\ Len(t) >= Len(s)
  BY DEF Extends
<1>3. j + m <= Len(s) /\ {{call} : call \in s[j].calls} = {s[k].calls : k \in (j + 1)..(j + m)}
  BY DEF Followed
<1>4. \A k \in (j + 1)..(j + m) : t[k] = s[k]
  <2>1. \A k \in (j + 1)..(j + m) : k \in 1..Len(s)
    BY <1>1, <1>2, <1>3
  <2> QED
    BY <2>1 DEF Extends
<1>5. {t[k].calls : k \in (j + 1)..(j + m)} = {s[k].calls : k \in (j + 1)..(j + m)}
  BY <1>4
<1>6. j + m <= Len(t)
  BY <1>1, <1>2, <1>3
<1> QED
  BY <1>2, <1>3, <1>5, <1>6 DEF Followed

LEMMA ClosedIs ==
    ASSUME NEW acc \in Accs, acc.found \subseteq acc.pending, NEW o \in 0..Len(acc.sent),
           CompleteBut(acc, o), ResultsCalled(acc.sent), NEW c, c = Closed(acc)
    PROVE  /\ c \in Seq(Sents) /\ Extends(c, acc.sent) /\ AllComplete(c) /\ ResultsCalled(c)
           /\ \/ c = acc.sent /\ acc.pending = acc.found
              \/ Len(c) > 0 /\ c[Len(c)].role = "toolResult"
<1> DEFINE s == acc.sent  P == acc.pending \ acc.found  D == ResultsFor(P)  q == SetToSeq(D)  n == Cardinality(P)
<1>1. s \in Seq(Sents) /\ acc.pending \in SUBSET CallsOf /\ acc.found \in SUBSET CallsOf
  BY DEF Accs
<1>2. P \in SUBSET CallsOf
  BY <1>1
<1>3. IsFiniteSet(D) /\ Cardinality(D) = n /\ n \in Nat
  BY <1>2, ResultsForEach
<1>4. q \in Seq(D) /\ Len(q) = n /\ {q[k] : k \in 1..n} = D
  BY <1>3, SetToSeqOf
<1>5. D \subseteq Sents /\ \A d \in D : d.role = "toolResult" /\ \E call \in P : d.calls = {call}
  BY <1>2 DEF ResultsFor, Sent, Sents
<1>6. ASSUME NEW call \in P PROVE \E d \in D : d.calls = {call}
  <2>1. Sent("toolResult", {call}) \in D
    BY DEF ResultsFor
  <2>2. Sent("toolResult", {call}).calls = {call}
    BY DEF Sent
  <2> HIDE DEF D
  <2> QED
    BY <2>1, <2>2
<1>7. c = s \o q
  BY DEF Closed, ResultsFor
<1> HIDE DEF D, q, n
<1>8. q \in Seq(Sents)
  BY <1>4, <1>5
<1> DEFINE l == Len(s)
<1>9. /\ l \in Nat /\ c \in Seq(Sents) /\ Len(c) = l + n
      /\ \A k \in 1..l : c[k] = s[k]
      /\ \A k \in 1..n : c[l + k] = q[k]
  <2>1. /\ s \o q \in Seq(Sents) /\ Len(s \o q) = Len(s) + Len(q)
        /\ \A k \in 1..(Len(s) + Len(q)) : (s \o q)[k] = IF k <= Len(s) THEN s[k] ELSE q[k - Len(s)]
    BY <1>1, <1>8, ConcatProperties
  <2>2. l \in Nat /\ Len(s) = l /\ Len(q) = n
    BY <1>1, <1>4
  <2> HIDE DEF s, l
  <2>3. \A k \in 1..(l + n) : c[k] = IF k <= l THEN s[k] ELSE q[k - l]
    BY <1>7, <2>1, <2>2
  <2>4. \A k \in 1..l : c[k] = s[k]
    BY <1>3, <2>2, <2>3
  <2>5. \A k \in 1..n : c[l + k] = q[k]
    <3> SUFFICES ASSUME NEW k \in 1..n PROVE c[l + k] = q[k]
      OBVIOUS
    <3>1. l + k \in 1..(l + n) /\ ~(l + k <= l) /\ (l + k) - l = k
      BY <1>3, <2>2
    <3> QED
      BY <2>3, <3>1
  <2> QED
    BY <1>7, <2>1, <2>2, <2>4, <2>5
<1>10. Extends(c, s)
  BY <1>3, <1>9 DEF Extends
<1> HIDE DEF s, l
<1>11. \A k \in 1..n : q[k] \in D
  BY <1>4
<1>12. \A k \in 1..Len(c) : k \in 1..l \/ (k - l \in 1..n /\ k = l + (k - l))
  BY <1>3, <1>9
<1>13. ResultsCalled(c)
  <2> SUFFICES ASSUME NEW j \in 1..Len(c), c[j].role = "toolResult"
               PROVE  \E a \in 1..(j - 1) : c[a].role = "assistant" /\ c[j].calls \subseteq c[a].calls
    BY DEF ResultsCalled
  <2>1. CASE j \in 1..l
    <3>1. s[j].role = "toolResult"
      BY <1>9, <2>1
    <3>2. PICK a \in 1..(j - 1) : s[a].role = "assistant" /\ s[j].calls \subseteq s[a].calls
      BY <2>1, <3>1 DEF ResultsCalled, s, l
    <3>3. a \in 1..l
      BY <1>9, <2>1
    <3> QED
      BY <1>9, <2>1, <3>2, <3>3
  <2>2. CASE j \notin 1..l
    <3>1. j - l \in 1..n /\ c[j] = q[j - l]
      BY <1>9, <1>12, <2>2
    <3>2. PICK call \in P : c[j].calls = {call}
      BY <1>5, <1>11, <3>1
    <3>3. o # 0 /\ Unfinished(acc, o)
      BY <3>2 DEF CompleteBut
    <3>4. s[o].role = "assistant" /\ call \in s[o].calls /\ o \in 1..l
      BY <3>2, <3>3 DEF Unfinished, s, l
    <3>5. o \in 1..(j - 1) /\ c[o] = s[o]
      BY <1>9, <1>12, <2>2, <3>4
    <3> QED
      BY <3>2, <3>4, <3>5
  <2> QED
    BY <2>1, <2>2
<1>14. ASSUME o # 0 PROVE Followed(c, o)
  <2> DEFINE m == Cardinality(acc.found)
  <2>1. /\ s[o].role = "assistant" /\ s[o].calls = acc.pending /\ l = o + m /\ o \in 1..l
        /\ {{call} : call \in acc.found} = {s[k].calls : k \in (o + 1)..l}
    <3>1. Unfinished(acc, o)
      BY <1>14 DEF CompleteBut
    <3>2. o \in 1..l
      BY <1>9, <1>14 DEF s, l
    <3> QED
      BY <3>1, <3>2 DEF Unfinished, s, l
  <2>2. Cardinality(acc.pending) = m + n /\ m \in Nat
    <3>1. IsFiniteSet(acc.pending) /\ IsFiniteSet(acc.found) /\ IsFiniteSet(P)
      BY <1>1, <1>2, CallsFinite
    <3>2. acc.pending = acc.found \cup P /\ acc.found \cap P = {}
      OBVIOUS
    <3>3. m \in Nat /\ Cardinality({}) = 0
      BY <3>1, FS_CardinalityType, FS_EmptySet
    <3>4. Cardinality(acc.found \cup P) = m + n - Cardinality(acc.found \cap P)
      BY <3>1, FS_Union DEF n
    <3>5. Cardinality(acc.found \cap P) = 0
      BY <3>2, <3>3
    <3>6. Cardinality(acc.pending) = Cardinality(acc.found \cup P)
      BY <3>2, Zenon
    <3> QED
      BY <1>3, <3>3, <3>4, <3>5, <3>6
  <2> HIDE DEF m
  <2>3. c[o] = s[o] /\ c[o].calls = acc.pending
    BY <1>9, <2>1
  <2>4. o + (m + n) = Len(c)
    BY <1>3, <1>9, <2>1, <2>2
  <2>5. {c[k].calls : k \in (o + 1)..Len(c)} = {{call} : call \in acc.pending}
    <3>1. \A k : k \in (o + 1)..Len(c) <=> k \in (o + 1)..l \/ (k - l \in 1..n /\ k = l + (k - l) /\ k \in Int)
      BY <1>3, <1>9, <2>1, <2>2
    <3>2. \A k \in (o + 1)..l : c[k] = s[k] /\ k \in (o + 1)..Len(c)
      BY <1>3, <1>9, <2>1
    <3>3. \A k \in 1..n : c[l + k] = q[k] /\ l + k \in (o + 1)..Len(c)
      BY <1>3, <1>9, <2>1, <2>2
    <3>4. ASSUME NEW k \in (o + 1)..Len(c) PROVE \E call \in acc.pending : c[k].calls = {call}
      <4>1. CASE k \in (o + 1)..l
        <5>1. s[k].calls \in {{call} : call \in acc.found}
          BY <2>1, <4>1
        <5> QED
          BY <3>2, <4>1, <5>1
      <4>2. CASE k \notin (o + 1)..l
        <5>1. k - l \in 1..n /\ c[k] = q[k - l]
          BY <3>1, <3>3, <4>2
        <5> QED
          BY <1>5, <1>11, <5>1
      <4> QED
        BY <4>1, <4>2
    <3>5. ASSUME NEW call \in acc.pending PROVE \E k \in (o + 1)..Len(c) : c[k].calls = {call}
      <4>1. CASE call \in acc.found
        <5>1. {call} \in {s[k].calls : k \in (o + 1)..l}
          BY <2>1, <4>1
        <5>2. PICK k \in (o + 1)..l : s[k].calls = {call}
          BY <5>1
        <5> QED
          BY <3>2, <5>2
      <4>2. CASE call \notin acc.found
        <5>2. PICK d \in D : d.calls = {call}
          BY <1>6, <4>2
        <5>3. PICK k \in 1..n : q[k] = d
          BY <1>4
        <5> QED
          BY <3>3, <5>2, <5>3
      <4> QED
        BY <4>1, <4>2
    <3>6. {c[k].calls : k \in (o + 1)..Len(c)} \subseteq {{call} : call \in acc.pending}
      BY <3>4
    <3>7. {{call} : call \in acc.pending} \subseteq {c[k].calls : k \in (o + 1)..Len(c)}
      BY <3>5
    <3> QED
      BY <3>6, <3>7
  <2>6. o + Cardinality(c[o].calls) = Len(c) /\ Len(c) \in Nat
    BY <1>3, <1>9, <2>2, <2>3, <2>4
  <2> DEFINE u == Cardinality(c[o].calls)
  <2>7. o + u = Len(c)
    BY <2>6
  <2>8. {{call} : call \in c[o].calls} = {c[k].calls : k \in (o + 1)..(o + u)}
    <3> HIDE DEF u
    <3> QED
      BY <2>3, <2>5, <2>7
  <2>9. o + u <= Len(c)
    BY <2>6
  <2> QED
    BY <2>8, <2>9 DEF Followed
<1>15. AllComplete(c)
  <2> SUFFICES ASSUME NEW j \in 1..Len(c), c[j].role = "assistant" PROVE Followed(c, j)
    BY DEF AllComplete
  <2>1. j \in 1..l
    <3> SUFFICES ASSUME j \notin 1..l PROVE FALSE
      OBVIOUS
    <3>1. c[j] \in D
      BY <1>9, <1>11, <1>12
    <3> QED
      BY <1>5, <3>1
  <2>2. s[j].role = "assistant"
    BY <1>9, <2>1
  <2>3. CASE j = o
    BY <1>9, <1>14, <2>1, <2>3
  <2>4. CASE j # o
    <3>1. Followed(s, j) /\ j \in 1..Len(s)
      BY <2>1, <2>2, <2>4 DEF CompleteBut, s, l
    <3>2. s \in Seq(Sents)
      BY <1>1
    <3> QED
      BY <1>9, <1>10, <3>1, <3>2, CompleteStays
  <2> QED
    BY <2>3, <2>4
<1>16. \/ c = s /\ acc.pending = acc.found
       \/ Len(c) > 0 /\ c[Len(c)].role = "toolResult"
  <2>1. CASE n = 0
    <3>1. P = {}
      BY <1>2, <2>1, CallsFinite, FS_EmptySet DEF n
    <3>2. c = s
      <4>1. Len(c) = Len(s) /\ s \in Seq(Sents)
        BY <1>1, <1>9, <2>1 DEF l
      <4> QED
        BY <1>9, <2>1, <4>1, SeqEqual DEF l
    <3> QED
      BY <3>1, <3>2
  <2>2. CASE n # 0
    <3>1. n \in 1..n /\ Len(c) = l + n
      BY <1>3, <1>9, <2>2
    <3>2. c[Len(c)] = q[n] /\ q[n] \in D
      BY <1>9, <1>11, <3>1
    <3> QED
      BY <1>3, <1>5, <1>9, <2>2, <3>2
  <2> QED
    BY <2>1, <2>2
<1> QED
  BY <1>9, <1>10, <1>13, <1>15, <1>16 DEF s

-------------------------------------------------------------------------------
(* The request as the last of the steps that make it.                         *)

Begin == [sent |-> IF HasSummary THEN <<Sent("user", {})>> ELSE <<>>, pending |-> {}, found |-> {}]
Taken(acc, i) == IF i \in Converted THEN Transform(acc, i) ELSE acc
Sending(h, n) == [i \in 0..n |-> IF i = 0 THEN Begin ELSE Taken(h[i - 1], i)]

LEMMA SendingExists ==
    ASSUME NEW n \in Nat
    PROVE  \E h : h = Sending(h, n)
<1> DEFINE G == {k \in Nat : \E h : h = Sending(h, k - 1)}
<1>1. 1 \in G
  <2> DEFINE h == [i \in 0..(1 - 1) |-> Begin]
  <2>1. h = Sending(h, 1 - 1)
    BY DEF Sending
  <2> QED
    BY <2>1
<1>2. ASSUME NEW k \in 1..n, k \in G PROVE k + 1 \in G
  <2>1. PICK h : h = Sending(h, k - 1)
    BY <1>2
  <2> DEFINE e == Taken(h[k - 1], k)
             g == [i \in 0..k |-> IF i = k THEN e ELSE h[i]]
             t == Sending(g, k)
  <2>2. (k + 1) - 1 = k /\ k \in Nat /\ k + 1 \in Nat /\ k # 0
    BY <1>2
  <2>3. \A i \in 0..k : i # k => i \in 0..(k - 1)
    BY <2>2
  <2>4. \A i \in 0..k : i # 0 => i - 1 \in 0..(k - 1) /\ i - 1 # k /\ i - 1 \in 0..k
    BY <2>2
  <2>5. \A i \in 0..(k - 1) : h[i] = IF i = 0 THEN Begin ELSE Taken(h[i - 1], i)
    <3> DEFINE u == Sending(h, k - 1)
    <3>1. \A i \in 0..(k - 1) : u[i] = IF i = 0 THEN Begin ELSE Taken(h[i - 1], i)
      BY DEF Sending
    <3> HIDE DEF u
    <3>2. h = u
      BY <2>1 DEF u
    <3> QED
      BY <3>1, <3>2
  <2>6. g[k] = e /\ \A i \in 0..(k - 1) : g[i] = h[i]
    BY <2>2
  <2>7. \A i \in 0..k : t[i] = IF i = 0 THEN Begin ELSE Taken(g[i - 1], i)
    BY DEF Sending
  <2>8. g = [i \in 0..k |-> g[i]] /\ t = [i \in 0..k |-> t[i]]
    BY DEF Sending
  <2> HIDE DEF g, t, e
  <2>9. \A i \in 0..k : g[i] = t[i]
    <3> SUFFICES ASSUME NEW i \in 0..k PROVE g[i] = t[i]
      OBVIOUS
    <3>1. CASE i = k
      <4>1. g[k - 1] = h[k - 1]
        BY <2>2, <2>4, <2>6, <3>1
      <4>2. t[k] = Taken(g[k - 1], k)
        BY <2>2, <2>7, <3>1
      <4> QED
        BY <2>6, <3>1, <4>1, <4>2 DEF e
    <3>2. CASE i # k /\ i = 0
      BY <2>3, <2>5, <2>6, <2>7, <3>2
    <3>3. CASE i # k /\ i # 0
      <4>1. i \in 0..(k - 1) /\ i - 1 \in 0..(k - 1)
        BY <2>3, <2>4, <3>3
      <4>2. g[i - 1] = h[i - 1] /\ g[i] = h[i]
        BY <2>6, <4>1
      <4>3. h[i] = Taken(h[i - 1], i) /\ t[i] = Taken(g[i - 1], i)
        BY <2>5, <2>7, <3>3, <4>1
      <4> QED
        BY <4>2, <4>3
    <3> QED
      BY <3>1, <3>2, <3>3
  <2>10. g = t
    BY <2>8, <2>9
  <2>11. \E x : x = Sending(x, (k + 1) - 1)
    BY <2>2, <2>10 DEF t
  <2> QED
    BY <2>2, <2>11
<1>3. n + 1 \in G
  <2> HIDE DEF G
  <2>1. \A i \in 1..n : i \in G => i + 1 \in G
    BY <1>2
  <2>2. 1..(n + 1) \subseteq G
    BY <1>1, <2>1, Climb
  <2> QED
    BY <2>2
<1>4. (n + 1) - 1 = n
  OBVIOUS
<1> QED
  BY <1>3, <1>4

LEMMA RequestIs ==
    ASSUME NEW n \in Nat, n = Len(path)
    PROVE  \E h : /\ h[0] = Begin /\ \A i \in 1..n : h[i] = Taken(h[i - 1], i)
                  /\ Request = h[n].sent
<1> DEFINE h == CHOOSE x : x = Sending(x, n)
<1>1. Request = h[n].sent
  BY DEF Request, Sending, Taken, Begin
<1>2. h = Sending(h, n)
  BY SendingExists
<1> HIDE DEF h
<1> DEFINE u == Sending(h, n)
<1>3. \A i \in 0..n : u[i] = IF i = 0 THEN Begin ELSE Taken(h[i - 1], i)
  BY DEF Sending
<1> HIDE DEF u
<1>4. h = u
  BY <1>2 DEF u
<1>5. \A i \in 1..n : i \in 0..n /\ i # 0
  OBVIOUS
<1>6. h[0] = Begin
  BY <1>3, <1>4
<1>7. \A i \in 1..n : h[i] = Taken(h[i - 1], i)
  BY <1>3, <1>4, <1>5
<1> QED
  BY <1>1, <1>6, <1>7

\* The first i entries have become acc: of at most one answer, of a turn that is
\* open there, the results have not all come.
Good(F, acc, i) ==
    /\ acc \in Accs /\ acc.found \subseteq acc.pending /\ ResultsCalled(acc.sent)
    /\ \E o \in 0..Len(acc.sent) :
           CompleteBut(acc, o) /\ (o # 0 => \E a \in 1..i : a >= F /\ TurnOpen(path, a, i))
    /\ \A a \in 1..i : a >= F /\ TurnOpen(path, a, i) =>
           acc.pending = path[a].calls /\ acc.found = Answered(path, a, i)

\* Where it ends with an answer, only failed ones came after that.
Trailing(F, sent, i) ==
    Len(sent) > 0 /\ sent[Len(sent)].role = "assistant" =>
        \E a \in 1..i :
            /\ a >= F /\ Stopped(path, a) /\ path[a].calls = sent[Len(sent)].calls
            /\ \A k \in (a + 1)..i : Requested(path, k) =>
                   path[k].type = "assistant" /\ path[k].stop # "stop" /\ path[a].calls = {}

Begun(F, sent, i) ==
    HasSummary \/ (\E k \in 1..i : k >= F /\ Requested(path, k) /\ path[k].type # "assistant") => Len(sent) > 0

LEMMA KeptAnswers ==
    ASSUME CutInv, AllPaired(path), NEW n, n = Len(path), NEW p \in 1..n,
           p >= FirstKept, path[p].type = "toolResult"
    PROVE  \E a \in 1..(p - 1) : a >= FirstKept /\ Answers(path, p, a)
<1> DEFINE L == LastAmong(path, n)
<1>1. n \in Nat /\ DOMAIN path = 1..n
  BY DEF CutInv
<1>2. FirstKept = From(path, n)
  BY DEF FirstKept, HasSummary, LastCompaction, From, LastAmong, Among, Of
<1>3. L \in Among(path, {"compaction"}, 1..n) \cup {0} /\ L \in 0..n
  BY <1>1, LastAmongIn
<1>4. PICK a \in 1..(p - 1) : Answers(path, p, a)
  BY <1>1 DEF AllPaired, PairedAt
<1>5. CASE L = 0
  <2>1. FirstKept = 1
    BY <1>2, <1>5 DEF From
  <2> QED
    BY <1>4, <2>1
<1>6. CASE L # 0
  <2>1. L \in 1..n /\ path[L].type = "compaction" /\ FirstKept = path[L].keeps
    BY <1>2, <1>3, <1>6 DEF Among, From
  <2> HIDE DEF L
  <2>2. FirstKept \in 1..(L - 1)
    <3>1. L \in Among(path, {"compaction"}, DOMAIN path)
      BY <1>1, <2>1 DEF Among
    <3>2. CutWell(path, L)
      BY <3>1 DEF CutInv, AllCutWell
    <3> QED
      BY <2>1, <3>2 DEF CutWell
  <2>3. p # L
    BY <2>1
  <2>4. CASE p < L
    <3>1. p \in 1..(L - 1)
      BY <1>1, <2>1, <2>4
    <3>2. PairedAt(path, L)
      BY <1>1, <2>1 DEF AllPaired
    <3> QED
      BY <2>1, <3>1, <3>2 DEF PairedAt
  <2>5. CASE p > L
    <3>1. \A k \in (a + 1)..(p - 1) : path[k].type \in {"toolResult", "setting"}
      BY <1>4 DEF Answers, TurnLasts
    <3>2. ~(L \in (a + 1)..(p - 1))
      BY <2>1, <3>1
    <3>3. a >= L
      BY <1>1, <2>1, <2>5, <3>2
    <3>4. a >= FirstKept
      BY <2>1, <2>2, <3>3
    <3> QED
      BY <1>4, <3>4
  <2> QED
    BY <1>1, <2>1, <2>3, <2>4, <2>5
<1> QED
  BY <1>5, <1>6

\* What goes into the request, and as what.
AfterUser(acc) == [sent |-> Append(Closed(acc), Sent("user", {})), pending |-> {}, found |-> {}]
AfterResult(acc, calls) ==
    [acc EXCEPT !.sent = Append(@, Sent("toolResult", calls)), !.found = @ \cup calls]
AfterAnswer(acc, calls) ==
    [sent |-> Append(Closed(acc), Sent("assistant", calls)), pending |-> calls, found |-> {}]
AfterFailure(acc) == [sent |-> Closed(acc), pending |-> {}, found |-> {}]

LEMMA TakenIs ==
    ASSUME NEW n, n = Len(path), path \in Seq(PathEntries), NEW p \in 1..n, NEW acc
    PROVE  /\ ~(p >= FirstKept) \/ ~Requested(path, p) => Taken(acc, p) = acc
           /\ p >= FirstKept /\ Requested(path, p) /\ path[p].type = "toolResult" =>
                  Taken(acc, p) = AfterResult(acc, path[p].calls)
           /\ p >= FirstKept /\ Stopped(path, p) => Taken(acc, p) = AfterAnswer(acc, path[p].calls)
           /\ p >= FirstKept /\ path[p].type = "assistant" /\ path[p].stop # "stop" =>
                  Taken(acc, p) = AfterFailure(acc)
           /\ p >= FirstKept /\ Requested(path, p) /\ path[p].type \notin {"assistant", "toolResult"} =>
                  Taken(acc, p) = AfterUser(acc)
<1>1. FirstKept \in Int => (p \in Converted <=> p >= FirstKept /\ Requested(path, p))
  BY DEF Converted, Shown, Of, Requested
<1>2. FirstKept \in Int
  <2>1. LastCompaction(n) = LastAmong(path, n) /\ n \in Nat
    BY DEF LastCompaction, LastAmong, Among, Of
  <2>2. LastCompaction(n) \in 0..n
    BY <2>1, LastAmongIn
  <2>3. \A q \in 1..n : path[q].keeps \in Int
    <3>1. \A q \in 1..n : path[q] \in PathEntries
      OBVIOUS
    <3>2. MaxLength \in Nat
      BY CompactionAssumption
    <3> QED
      BY <3>1, <3>2 DEF PathEntries
  <2> HIDE DEF LastCompaction
  <2> QED
    BY <2>1, <2>2, <2>3 DEF FirstKept, HasSummary
<1>3. path[p].type = "assistant" => Requested(path, p)
  BY DEF Requested, InContext, Messages
<1>4. p # 0
  OBVIOUS
<1>5. ASSUME path[p].type = "toolResult"
      PROVE  Transform(acc, p) = AfterResult(acc, path[p].calls)
  BY <1>4, <1>5 DEF Transform, Role, AfterResult
<1>6. ASSUME Stopped(path, p)
      PROVE  Transform(acc, p) = AfterAnswer(acc, path[p].calls)
  BY <1>4, <1>6 DEF Transform, Role, AfterAnswer, Stopped
<1>7. ASSUME path[p].type = "assistant", path[p].stop # "stop"
      PROVE  Transform(acc, p) = AfterFailure(acc)
  BY <1>4, <1>7 DEF Transform, Role, AfterFailure
<1>8. ASSUME path[p].type \notin {"assistant", "toolResult"}
      PROVE  Transform(acc, p) = AfterUser(acc)
  BY <1>4, <1>8 DEF Transform, Role, AfterUser
<1>9. Stopped(path, p) => path[p].type = "assistant"
  BY DEF Stopped
<1> HIDE DEF Transform
<1> QED
  BY <1>1, <1>2, <1>3, <1>5, <1>6, <1>7, <1>8, <1>9 DEF Taken

\* A turn that is open goes on being so.
LEMMA OpenNext ==
    ASSUME NEW s, NEW i \in Nat, NEW a \in 1..i
    PROVE  TurnOpen(s, a, i + 1) <=> TurnOpen(s, a, i) /\ (Requested(s, i + 1) => s[i + 1].type = "toolResult")
<1>1. \A k : k \in (a + 1)..(i + 1) <=> k \in (a + 1)..i \/ k = i + 1
  OBVIOUS
<1> QED
  BY <1>1 DEF TurnOpen

\* What is left out changes nothing.
LEMMA NothingTaken ==
    ASSUME NEW F \in Nat, NEW acc, NEW i \in Nat, Good(F, acc, i), Trailing(F, acc.sent, i), Begun(F, acc.sent, i),
           ~(i + 1 >= F) \/ ~Requested(path, i + 1)
    PROVE  Good(F, acc, i + 1) /\ Trailing(F, acc.sent, i + 1) /\ Begun(F, acc.sent, i + 1)
<1> DEFINE p == i + 1
<1>1. path[p].type \in {"assistant", "toolResult"} => Requested(path, p)
  BY DEF Requested, InContext, Messages
<1>2. ASSUME NEW a \in 1..p, a >= F
      PROVE  /\ a = p => ~TurnOpen(path, a, p)
             /\ a # p => /\ a \in 1..i /\ (TurnOpen(path, a, p) <=> TurnOpen(path, a, i))
                         /\ Answered(path, a, p) = Answered(path, a, i)
  <2>1. p >= F
    BY <1>2
  <2>2. ~Requested(path, p)
    BY <2>1
  <2>3. a = p => ~TurnOpen(path, a, p)
    BY <1>1, <2>2 DEF TurnOpen, Stopped
  <2>4. ASSUME a # p
        PROVE  /\ a \in 1..i /\ (TurnOpen(path, a, p) <=> TurnOpen(path, a, i))
               /\ Answered(path, a, p) = Answered(path, a, i)
    <3>1. a \in 1..i
      BY <2>4
    <3>2. TurnOpen(path, a, p) <=> TurnOpen(path, a, i)
      BY <2>2, <3>1, OpenNext
    <3>3. Answered(path, a, p) = Answered(path, a, i)
      BY <1>1, <2>2, <3>1, AnsweredNext
    <3> QED
      BY <3>1, <3>2, <3>3
  <2> QED
    BY <2>3, <2>4
<1>3. \A a \in 1..i : a \in 1..p /\ a # p
  OBVIOUS
<1>4. Good(F, acc, p)
  <2>1. PICK o \in 0..Len(acc.sent) :
           CompleteBut(acc, o) /\ (o # 0 => \E a \in 1..i : a >= F /\ TurnOpen(path, a, i))
    BY DEF Good
  <2>2. o # 0 => \E a \in 1..p : a >= F /\ TurnOpen(path, a, p)
    BY <1>2, <1>3, <2>1
  <2>3. \A a \in 1..p : a >= F /\ TurnOpen(path, a, p) =>
           acc.pending = path[a].calls /\ acc.found = Answered(path, a, p)
    BY <1>2 DEF Good
  <2> QED
    BY <2>1, <2>2, <2>3 DEF Good
<1>5. Trailing(F, acc.sent, p)
  <2> SUFFICES ASSUME Len(acc.sent) > 0 /\ acc.sent[Len(acc.sent)].role = "assistant"
               PROVE  \E a \in 1..p :
                          /\ a >= F /\ Stopped(path, a) /\ path[a].calls = acc.sent[Len(acc.sent)].calls
                          /\ \A k \in (a + 1)..p : Requested(path, k) =>
                                 path[k].type = "assistant" /\ path[k].stop # "stop" /\ path[a].calls = {}
    BY DEF Trailing
  <2>1. PICK a \in 1..i :
            /\ a >= F /\ Stopped(path, a) /\ path[a].calls = acc.sent[Len(acc.sent)].calls
            /\ \A k \in (a + 1)..i : Requested(path, k) =>
                   path[k].type = "assistant" /\ path[k].stop # "stop" /\ path[a].calls = {}
    BY DEF Trailing
  <2>2. p >= F
    BY <2>1
  <2>3. \A k \in (a + 1)..p : k \in (a + 1)..i \/ k = p
    OBVIOUS
  <2> QED
    BY <1>3, <2>1, <2>2, <2>3
<1>6. Begun(F, acc.sent, p)
  <2>1. \A k \in 1..p : k >= F /\ Requested(path, k) => k \in 1..i
    OBVIOUS
  <2> QED
    BY <2>1 DEF Begun
<1> QED
  BY <1>4, <1>5, <1>6

LEMMA AppendedWell ==
    ASSUME NEW c \in Seq(Sents), ResultsCalled(c), NEW e \in Sents,
           e.role = "toolResult" =>
               \E a \in 1..Len(c) : c[a].role = "assistant" /\ e.calls \subseteq c[a].calls,
           NEW t, t = Append(c, e)
    PROVE  /\ t \in Seq(Sents) /\ Extends(t, c) /\ ResultsCalled(t)
           /\ Len(c) \in Nat /\ Len(t) = Len(c) + 1 /\ t[Len(c) + 1] = e
           /\ \A j \in 1..Len(c) : t[j] = c[j] /\ (Followed(c, j) => Followed(t, j))
<1>1. /\ Len(c) \in Nat /\ t \in Seq(Sents) /\ Len(t) = Len(c) + 1 /\ t[Len(c) + 1] = e
      /\ \A j \in 1..Len(c) : t[j] = c[j]
  OBVIOUS
<1>2. Extends(t, c)
  BY <1>1 DEF Extends
<1>3. \A j \in 1..Len(c) : Followed(c, j) => Followed(t, j)
  BY <1>1, <1>2, CompleteStays
<1>4. ResultsCalled(t)
  <2> SUFFICES ASSUME NEW j \in 1..Len(t), t[j].role = "toolResult"
               PROVE  \E a \in 1..(j - 1) : t[a].role = "assistant" /\ t[j].calls \subseteq t[a].calls
    BY DEF ResultsCalled
  <2>1. CASE j \in 1..Len(c)
    <3>1. PICK a \in 1..(j - 1) : c[a].role = "assistant" /\ c[j].calls \subseteq c[a].calls
      BY <1>1, <2>1 DEF ResultsCalled
    <3>2. a \in 1..Len(c)
      BY <1>1, <2>1
    <3> QED
      BY <1>1, <2>1, <3>1, <3>2
  <2>2. CASE j \notin 1..Len(c)
    <3>1. j = Len(c) + 1
      BY <1>1, <2>2
    <3>2. PICK a \in 1..Len(c) : c[a].role = "assistant" /\ e.calls \subseteq c[a].calls
      BY <1>1, <3>1
    <3>3. a \in 1..(j - 1)
      BY <1>1, <3>1
    <3> QED
      BY <1>1, <3>1, <3>2, <3>3
  <2> QED
    BY <2>1, <2>2
<1> QED
  BY <1>1, <1>2, <1>3, <1>4

LEMMA GoodCloses ==
    ASSUME NEW F, NEW acc, NEW i, Good(F, acc, i), NEW c, c = Closed(acc)
    PROVE  /\ c \in Seq(Sents) /\ Extends(c, acc.sent) /\ AllComplete(c) /\ ResultsCalled(c)
           /\ \/ c = acc.sent /\ acc.pending = acc.found
              \/ Len(c) > 0 /\ c[Len(c)].role = "toolResult"
<1>1. acc \in Accs /\ acc.found \subseteq acc.pending /\ ResultsCalled(acc.sent)
  BY DEF Good
<1>2. PICK o \in 0..Len(acc.sent) : CompleteBut(acc, o)
  BY DEF Good
<1> QED
  BY <1>1, <1>2, ClosedIs

\* What a user says, or what is shown as such, ends the turn.
LEMMA UserTaken ==
    ASSUME NEW F \in Nat, NEW acc, NEW i \in Nat, Good(F, acc, i),
           Requested(path, i + 1), path[i + 1].type \notin {"assistant", "toolResult"},
           NEW d, d = AfterUser(acc)
    PROVE  Good(F, d, i + 1) /\ Trailing(F, d.sent, i + 1) /\ Begun(F, d.sent, i + 1)
<1> DEFINE c == Closed(acc)  e == Sent("user", {})  t == Append(c, e)
<1>1. c \in Seq(Sents) /\ AllComplete(c) /\ ResultsCalled(c)
  BY GoodCloses
<1>2. e \in Sents /\ e.role = "user"
  BY DEF Sent, Sents
<1> HIDE DEF c, e
<1>3. /\ t \in Seq(Sents) /\ ResultsCalled(t)
      /\ Len(c) \in Nat /\ Len(t) = Len(c) + 1 /\ t[Len(c) + 1] = e
      /\ \A j \in 1..Len(c) : t[j] = c[j] /\ (Followed(c, j) => Followed(t, j))
  BY <1>1, <1>2, AppendedWell
<1>4. d.sent = t /\ d.pending = {} /\ d.found = {} /\ d = [sent |-> t, pending |-> {}, found |-> {}]
  BY DEF c, e, AfterUser
<1> HIDE DEF t
<1>5. ASSUME NEW j \in 1..Len(t), t[j].role = "assistant" PROVE Followed(t, j)
  <2>1. j \in 1..Len(c)
    BY <1>2, <1>3, <1>5
  <2> QED
    BY <1>1, <1>3, <1>5, <2>1 DEF AllComplete
<1>6. CompleteBut(d, 0)
  BY <1>4, <1>5 DEF CompleteBut
<1>7. ASSUME NEW a \in 1..(i + 1) PROVE ~TurnOpen(path, a, i + 1)
  <2>1. a = i + 1 \/ i + 1 \in (a + 1)..(i + 1)
    OBVIOUS
  <2> QED
    BY <2>1 DEF TurnOpen, Stopped
<1>8. d \in Accs /\ 0 \in 0..Len(d.sent)
  <2>1. d \in Accs
    BY <1>3, <1>4 DEF Accs
  <2> QED
    BY <1>3, <1>4, <2>1
<1>9. Good(F, d, i + 1)
  <2>1. \E o \in 0..Len(d.sent) :
           CompleteBut(d, o) /\ (o # 0 => \E a \in 1..(i + 1) : a >= F /\ TurnOpen(path, a, i + 1))
    BY <1>6, <1>8
  <2> QED
    BY <1>3, <1>4, <1>7, <1>8, <2>1 DEF Good
<1>10. Trailing(F, d.sent, i + 1)
  BY <1>2, <1>3, <1>4 DEF Trailing
<1> QED
  BY <1>3, <1>4, <1>9, <1>10 DEF Begun

\* An answer that did not fail opens a turn.
LEMMA AnswerTaken ==
    ASSUME NEW F \in Nat, NEW acc, NEW i \in Nat, Good(F, acc, i), i + 1 >= F, Stopped(path, i + 1),
           NEW C \in SUBSET CallsOf, C = path[i + 1].calls,
           NEW d, d = AfterAnswer(acc, C)
    PROVE  Good(F, d, i + 1) /\ Trailing(F, d.sent, i + 1) /\ Begun(F, d.sent, i + 1)
<1> DEFINE c == Closed(acc)  e == Sent("assistant", C)  t == Append(c, e)  p == i + 1
<1>1. c \in Seq(Sents) /\ AllComplete(c) /\ ResultsCalled(c)
  BY GoodCloses
<1>2. e \in Sents /\ e.role = "assistant" /\ e.calls = C
  BY DEF Sent, Sents
<1> HIDE DEF c, e
<1>3. /\ t \in Seq(Sents) /\ ResultsCalled(t)
      /\ Len(c) \in Nat /\ Len(t) = Len(c) + 1 /\ t[Len(c) + 1] = e
      /\ \A j \in 1..Len(c) : t[j] = c[j] /\ (Followed(c, j) => Followed(t, j))
  BY <1>1, <1>2, AppendedWell
<1>4. d.sent = t /\ d.pending = C /\ d.found = {} /\ d = [sent |-> t, pending |-> C, found |-> {}]
  BY DEF c, e, AfterAnswer
<1> HIDE DEF t
<1> DEFINE o == Len(t)
<1>5. ASSUME NEW j \in 1..o, t[j].role = "assistant", j # o PROVE Followed(t, j)
  <2>1. j \in 1..Len(c)
    BY <1>2, <1>3, <1>5
  <2> QED
    BY <1>1, <1>3, <1>5, <2>1 DEF AllComplete
<1>6. CompleteBut(d, o)
  <2>1. Cardinality(d.found) = 0
    BY <1>4, FS_EmptySet
  <2>2. {{call} : call \in d.found} = {} /\ {d.sent[k].calls : k \in (o + 1)..o} = {}
    BY <1>3, <1>4
  <2>3. Unfinished(d, o)
    BY <1>2, <1>3, <1>4, <2>1, <2>2 DEF Unfinished
  <2>4. o # 0
    BY <1>3
  <2> QED
    BY <1>4, <1>5, <2>3, <2>4 DEF CompleteBut
<1>7. p \in 1..p /\ p \in Nat /\ \A k : ~(k \in (p + 1)..p)
  OBVIOUS
<1>8. TurnOpen(path, p, p) /\ Answered(path, p, p) = {}
  BY <1>7 DEF TurnOpen, Answered, Results
<1>9. ASSUME NEW a \in 1..p, TurnOpen(path, a, p) PROVE a = p
  <2> SUFFICES ASSUME a # p PROVE FALSE
    OBVIOUS
  <2>1. p \in (a + 1)..p
    OBVIOUS
  <2>2. Requested(path, p) /\ path[p].type # "toolResult"
    BY DEF Requested, Stopped, InContext, Messages
  <2> QED
    BY <1>9, <2>1, <2>2 DEF TurnOpen
<1>10. d \in Accs /\ o \in 0..Len(d.sent)
  <2>1. d \in Accs
    BY <1>3, <1>4 DEF Accs
  <2> QED
    BY <1>3, <1>4, <2>1
<1>11. Good(F, d, p)
  <2>1. \E a \in 1..p : a >= F /\ TurnOpen(path, a, p)
    BY <1>7, <1>8
  <2>2. \A a \in 1..p : a >= F /\ TurnOpen(path, a, p) =>
           d.pending = path[a].calls /\ d.found = Answered(path, a, p)
    BY <1>4, <1>8, <1>9
  <2> QED
    BY <1>3, <1>4, <1>6, <1>10, <2>1, <2>2 DEF Good
<1>12. Trailing(F, d.sent, p)
  BY <1>2, <1>3, <1>4, <1>7 DEF Trailing
<1> QED
  BY <1>3, <1>4, <1>11, <1>12 DEF Begun

\* One that failed is left out, and with it what it would have called.
LEMMA FailedTaken ==
    ASSUME NEW F \in Nat, NEW acc, NEW i \in Nat, Good(F, acc, i), Trailing(F, acc.sent, i), Begun(F, acc.sent, i),
           path[i + 1].type = "assistant", path[i + 1].stop # "stop",
           NEW d, d = AfterFailure(acc)
    PROVE  Good(F, d, i + 1) /\ Trailing(F, d.sent, i + 1) /\ Begun(F, d.sent, i + 1)
<1> DEFINE c == Closed(acc)  p == i + 1
<1>1. /\ c \in Seq(Sents) /\ Extends(c, acc.sent) /\ AllComplete(c) /\ ResultsCalled(c)
      /\ \/ c = acc.sent /\ acc.pending = acc.found
         \/ Len(c) > 0 /\ c[Len(c)].role = "toolResult"
  BY GoodCloses
<1>2. d.sent = c /\ d.pending = {} /\ d.found = {} /\ d = [sent |-> c, pending |-> {}, found |-> {}]
  BY DEF AfterFailure
<1> HIDE DEF c
<1>3. CompleteBut(d, 0)
  BY <1>1, <1>2 DEF CompleteBut, AllComplete
<1>4. Requested(path, p)
  BY DEF Requested, InContext, Messages
<1>5. ASSUME NEW a \in 1..p PROVE ~TurnOpen(path, a, p)
  <2>1. a = p \/ p \in (a + 1)..p
    OBVIOUS
  <2> QED
    BY <1>4, <2>1 DEF TurnOpen, Stopped
<1>6. Len(c) \in Nat
  BY <1>1
<1>7. d \in Accs /\ 0 \in 0..Len(d.sent)
  BY <1>1, <1>2, <1>6 DEF Accs
<1>8. Good(F, d, p)
  <2>1. \E o \in 0..Len(d.sent) :
           CompleteBut(d, o) /\ (o # 0 => \E a \in 1..p : a >= F /\ TurnOpen(path, a, p))
    BY <1>3, <1>7
  <2> QED
    BY <1>1, <1>2, <1>5, <1>7, <2>1 DEF Good
<1>9. Trailing(F, c, p)
  <2> SUFFICES ASSUME Len(c) > 0, c[Len(c)].role = "assistant"
               PROVE  \E a \in 1..p :
                          /\ a >= F /\ Stopped(path, a) /\ path[a].calls = c[Len(c)].calls
                          /\ \A k \in (a + 1)..p : Requested(path, k) =>
                                 path[k].type = "assistant" /\ path[k].stop # "stop" /\ path[a].calls = {}
    BY DEF Trailing
  <2>1. c = acc.sent /\ acc.pending = acc.found
    BY <1>1
  <2>2. PICK a \in 1..i :
            /\ a >= F /\ Stopped(path, a) /\ path[a].calls = c[Len(c)].calls
            /\ \A k \in (a + 1)..i : Requested(path, k) =>
                   path[k].type = "assistant" /\ path[k].stop # "stop" /\ path[a].calls = {}
    BY <2>1 DEF Trailing
  <2> DEFINE l == Len(c)
  <2>3. l \in 1..l /\ l \in Nat
    BY <1>6
  <2>4. c[l].calls = {}
    <3>1. Followed(c, l)
      BY <1>1, <2>3 DEF AllComplete
    <3> DEFINE m == Cardinality(c[l].calls)
    <3>2. c[l].calls \in SUBSET CallsOf
      <4>1. c[l] \in Sents
        BY <1>1, <2>3
      <4> QED
        BY <4>1 DEF Sents
    <3>3. IsFiniteSet(c[l].calls)
      BY <3>2, CallsFinite
    <3>4. m \in Nat /\ (m = 0 <=> c[l].calls = {})
      BY <3>3, FS_CardinalityType, FS_EmptySet
    <3>5. l + m <= l
      BY <3>1 DEF Followed
    <3> HIDE DEF m, l
    <3> QED
      BY <2>3, <3>4, <3>5
  <2>5. path[a].calls = {}
    BY <2>2, <2>4
  <2>6. \A k \in (a + 1)..p : k \in (a + 1)..i \/ k = p
    OBVIOUS
  <2>7. a \in 1..p
    OBVIOUS
  <2> QED
    BY <2>2, <2>5, <2>6, <2>7
<1>10. Begun(F, c, p)
  <2>1. Len(acc.sent) > 0 => Len(c) > 0
    <3>1. acc.sent \in Seq(Sents)
      BY DEF Good, Accs
    <3> QED
      BY <1>1, <3>1 DEF Extends
  <2>2. \A k \in 1..p : path[k].type # "assistant" => k \in 1..i
    OBVIOUS
  <2> QED
    BY <2>1, <2>2 DEF Begun
<1> QED
  BY <1>2, <1>8, <1>9, <1>10

\* A result comes behind the call it is for.
LEMMA ResultTaken ==
    ASSUME NEW F \in Nat, NEW acc, NEW i \in Nat, Good(F, acc, i),
           path[i + 1].type = "toolResult", path[i + 1].calls \in SUBSET CallsOf,
           \E a \in 1..i : a >= F /\ Answers(path, i + 1, a),
           NEW d, d = AfterResult(acc, path[i + 1].calls)
    PROVE  Good(F, d, i + 1) /\ Trailing(F, d.sent, i + 1) /\ Begun(F, d.sent, i + 1)
<1> DEFINE p == i + 1  C == path[p].calls  e == Sent("toolResult", C)  s == acc.sent  t == Append(s, e)
           found == acc.found \cup C
<1>1. PICK a0 \in 1..i : a0 >= F /\ Answers(path, p, a0)
  OBVIOUS
<1>2. p - 1 = i
  OBVIOUS
<1>3. TurnLasts(path, a0, i) /\ \E call \in path[a0].calls : C = {call} /\ call \notin Answered(path, a0, i)
  BY <1>1, <1>2 DEF Answers
<1>4. TurnOpen(path, a0, i)
  <2>1. \A k : path[k].type = "setting" => ~Requested(path, k)
    BY DEF Requested, InContext, Messages
  <2> QED
    BY <1>3, <2>1 DEF TurnLasts, TurnOpen
<1>5. acc.pending = path[a0].calls /\ acc.found = Answered(path, a0, i)
  BY <1>1, <1>4 DEF Good
<1>6. PICK call \in acc.pending : C = {call} /\ call \notin acc.found
  BY <1>3, <1>5
<1>7. /\ acc \in Accs /\ acc.found \subseteq acc.pending /\ ResultsCalled(s)
      /\ s \in Seq(Sents) /\ acc.pending \in SUBSET CallsOf /\ acc.found \in SUBSET CallsOf
  BY DEF Good, Accs
<1>8. PICK o \in 0..Len(s) : CompleteBut(acc, o)
  BY DEF Good
<1>9. o # 0 /\ Unfinished(acc, o) /\ Len(s) \in Nat /\ o \in 1..Len(s)
  BY <1>6, <1>7, <1>8 DEF CompleteBut
<1>10. s[o].role = "assistant" /\ s[o].calls = acc.pending
  BY <1>9 DEF Unfinished
<1>11. e \in Sents /\ e.role = "toolResult" /\ e.calls = C /\ C \subseteq s[o].calls
  BY <1>6, <1>10 DEF Sent, Sents
<1>12. d.sent = t /\ d.pending = acc.pending /\ d.found = found /\ d = [sent |-> t, pending |-> acc.pending, found |-> found]
  BY <1>7 DEF Accs, AfterResult
<1> HIDE DEF C, e, s
<1>13. /\ t \in Seq(Sents) /\ ResultsCalled(t)
      /\ Len(s) \in Nat /\ Len(t) = Len(s) + 1 /\ t[Len(s) + 1] = e
      /\ \A j \in 1..Len(s) : t[j] = s[j] /\ (Followed(s, j) => Followed(t, j))
  BY <1>7, <1>9, <1>10, <1>11, AppendedWell
<1> HIDE DEF t
<1>14. ASSUME NEW j \in 1..Len(t), t[j].role = "assistant", j # o PROVE Followed(t, j)
  <2>1. j \in 1..Len(s)
    BY <1>11, <1>13, <1>14
  <2> QED
    BY <1>8, <1>13, <1>14, <2>1 DEF CompleteBut, s
<1>15. Unfinished(d, o)
  <2> DEFINE l == Len(s)  m == Cardinality(acc.found)
  <2>1. l = o + m /\ {{c} : c \in acc.found} = {s[k].calls : k \in (o + 1)..l}
    BY <1>9 DEF Unfinished, s
  <2>2. IsFiniteSet(acc.found)
    BY <1>7, CallsFinite
  <2>3. m \in Nat /\ Cardinality(found) = m + 1
    <3>1. found = acc.found \cup {call}
      BY <1>6
    <3>2. m \in Nat
      BY <2>2, FS_CardinalityType
    <3>3. Cardinality(acc.found \cup {call}) = m + 1
      BY <1>6, <2>2, FS_AddElement
    <3> HIDE DEF found, m
    <3> QED
      BY <3>1, <3>2, <3>3
  <2>4. o \in Nat
    BY <1>9
  <2> HIDE DEF m, l
  <2>5. Len(t) = o + Cardinality(found)
    BY <1>13, <2>1, <2>3, <2>4 DEF l
  <2>6. \A k : k \in (o + 1)..(l + 1) <=> k \in (o + 1)..l \/ k = l + 1
    BY <2>1, <2>3, <2>4
  <2>7. \A k \in (o + 1)..l : t[k].calls = s[k].calls
    <3>1. \A k \in (o + 1)..l : k \in 1..l
      BY <2>1, <2>3, <2>4
    <3> QED
      BY <1>13, <3>1 DEF l
  <2>8. t[l + 1].calls = {call}
    BY <1>6, <1>11, <1>13 DEF l
  <2>9. {t[k].calls : k \in (o + 1)..(l + 1)} = {t[k].calls : k \in (o + 1)..l} \cup {{call}}
    BY <2>6, <2>8
  <2>10. {t[k].calls : k \in (o + 1)..l} = {{c} : c \in acc.found}
    BY <2>1, <2>7
  <2>11. {{c} : c \in found} = {{c} : c \in acc.found} \cup {{call}}
    BY <1>6
  <2>12. {{c} : c \in found} = {t[k].calls : k \in (o + 1)..Len(t)}
    <3>1. Len(t) = l + 1
      BY <1>13 DEF l
    <3> HIDE DEF found
    <3> QED
      BY <2>9, <2>10, <2>11, <3>1
  <2>13. t[o].role = "assistant" /\ t[o].calls = acc.pending
    BY <1>9, <1>10, <1>13 DEF s
  <2> HIDE DEF found
  <2>14. d.sent = t /\ d.found = found /\ d.pending = acc.pending
    BY <1>12
  <2>15. Len(d.sent) = o + Cardinality(d.found)
    BY <2>5, <2>14
  <2>16. {{c} : c \in d.found} = {d.sent[k].calls : k \in (o + 1)..Len(d.sent)}
    BY <2>12, <2>14, Zenon
  <2>17. d.sent[o].role = "assistant" /\ d.sent[o].calls = d.pending
    BY <2>13, <2>14
  <2> QED
    BY <2>15, <2>16, <2>17 DEF Unfinished
<1>16. CompleteBut(d, o)
  BY <1>9, <1>12, <1>14, <1>15 DEF CompleteBut
<1>17. d \in Accs /\ o \in 0..Len(d.sent) /\ d.found \subseteq d.pending
  BY <1>6, <1>7, <1>9, <1>12, <1>13 DEF Accs
<1>18. a0 \in 1..p /\ TurnOpen(path, a0, p)
  <2>1. TurnOpen(path, a0, i + 1)
    <3>1. TurnOpen(path, a0, i + 1) <=> TurnOpen(path, a0, i) /\ (Requested(path, i + 1) => path[i + 1].type = "toolResult")
      BY OpenNext
    <3> QED
      BY <1>4, <3>1, Zenon
  <2>2. a0 \in 1..p
    OBVIOUS
  <2> QED
    BY <2>1, <2>2, Zenon
<1>19. ASSUME NEW a \in 1..p, a >= F, TurnOpen(path, a, p)
       PROVE  d.pending = path[a].calls /\ d.found = Answered(path, a, p)
  <2>1. a # p
    BY <1>19 DEF TurnOpen, Stopped
  <2>2. a \in 1..i
    BY <2>1
  <2>3. TurnOpen(path, a, i)
    BY <1>19, <2>2, OpenNext
  <2>4. acc.pending = path[a].calls /\ acc.found = Answered(path, a, i)
    BY <1>19, <2>2, <2>3 DEF Good
  <2>5. Answered(path, a, p) = Answered(path, a, i) \cup path[p].calls
    BY <2>2, AnsweredMore
  <2> QED
    BY <1>12, <2>4, <2>5 DEF C
<1>20. Good(F, d, p)
  <2>1. \E oo \in 0..Len(d.sent) :
           CompleteBut(d, oo) /\ (oo # 0 => \E a \in 1..p : a >= F /\ TurnOpen(path, a, p))
    BY <1>1, <1>16, <1>17, <1>18
  <2> QED
    BY <1>12, <1>13, <1>17, <1>19, <2>1 DEF Good
<1>21. Trailing(F, d.sent, p)
  BY <1>11, <1>12, <1>13 DEF Trailing
<1> QED
  BY <1>12, <1>13, <1>20, <1>21 DEF Begun

LEMMA FirstKeptIs ==
    ASSUME CutInv
    PROVE  FirstKept = From(path, Len(path)) /\ FirstKept \in Nat \ {0}
           /\ (HasSummary <=> LastAmong(path, Len(path)) # 0)
<1> DEFINE n == Len(path)  L == LastAmong(path, n)
<1>1. n \in Nat /\ DOMAIN path = 1..n
  BY DEF CutInv
<1>2. LastCompaction(n) = L
  BY DEF LastCompaction, LastAmong, Among, Of
<1>3. L \in Among(path, {"compaction"}, 1..n) \cup {0}
  BY <1>1, LastAmongIn
<1> HIDE DEF L
<1>4. L # 0 => path[L].keeps \in Nat \ {0}
  <2> SUFFICES ASSUME L # 0 PROVE path[L].keeps \in Nat \ {0}
    OBVIOUS
  <2>1. L \in Among(path, {"compaction"}, DOMAIN path)
    BY <1>1, <1>3
  <2>2. L \in 1..n
    BY <1>3 DEF Among
  <2>3. CutWell(path, L)
    BY <2>1 DEF CutInv, AllCutWell
  <2> QED
    BY <1>1, <2>2, <2>3 DEF CutWell
<1> QED
  BY <1>2, <1>4 DEF FirstKept, HasSummary, From, L

LEMMA BeginGood ==
    ASSUME NEW F
    PROVE  Good(F, Begin, 0) /\ Trailing(F, Begin.sent, 0) /\ Begun(F, Begin.sent, 0)
<1> DEFINE s == Begin.sent  e == Sent("user", {})
<1>1. e \in Sents /\ e.role = "user"
  BY DEF Sent, Sents
<1>2. Begin.pending = {} /\ Begin.found = {} /\ Begin = [sent |-> s, pending |-> {}, found |-> {}]
      /\ s = IF HasSummary THEN <<e>> ELSE <<>>
  BY DEF Begin
<1> HIDE DEF s, e
<1>3. /\ s \in Seq(Sents) /\ Len(s) \in Nat /\ \A j \in 1..Len(s) : s[j].role = "user"
      /\ (HasSummary => Len(s) > 0)
  <2>1. CASE HasSummary
    <3>1. s = <<e>>
      BY <1>2, <2>1
    <3> QED
      BY <1>1, <3>1
  <2>2. CASE ~HasSummary
    <3>1. s = <<>>
      BY <1>2, <2>2
    <3> QED
      BY <2>2, <3>1
  <2> QED
    BY <2>1, <2>2
<1>4. ResultsCalled(s)
  BY <1>3 DEF ResultsCalled
<1>5. CompleteBut(Begin, 0)
  BY <1>2, <1>3 DEF CompleteBut
<1>6. Begin \in Accs /\ 0 \in 0..Len(s)
  BY <1>2, <1>3 DEF Accs
<1>7. Good(F, Begin, 0)
  BY <1>2, <1>4, <1>5, <1>6 DEF Good, s
<1>8. Trailing(F, s, 0)
  BY <1>3 DEF Trailing
<1>9. Begun(F, s, 0)
  BY <1>3 DEF Begun
<1> QED
  BY <1>7, <1>8, <1>9 DEF s

LEMMA TakenGood ==
    ASSUME CutInv, AllPaired(path), NEW n, n = Len(path), NEW i \in 0..(n - 1), NEW acc, NEW F, F = FirstKept,
           Good(F, acc, i), Trailing(F, acc.sent, i), Begun(F, acc.sent, i),
           NEW d, d = Taken(acc, i + 1)
    PROVE  Good(F, d, i + 1) /\ Trailing(F, d.sent, i + 1) /\ Begun(F, d.sent, i + 1)
<1> DEFINE p == i + 1  C == path[p].calls
<1>1. path \in Seq(PathEntries) /\ n \in Nat /\ i \in Nat /\ p \in 1..n /\ F \in Nat
  BY FirstKeptIs DEF CutInv
<1>2. C \in SUBSET CallsOf
  <2>1. path[p] \in PathEntries
    BY <1>1
  <2> QED
    BY <2>1 DEF PathEntries, CallsOf
<1>10. d = Taken(acc, p) /\ p = i + 1
  OBVIOUS
<1> HIDE DEF p, C
<1>3. CASE ~(p >= F) \/ ~Requested(path, p)
  <2>1. d = acc
    BY <1>1, <1>3, <1>10, TakenIs
  <2> QED
    BY <1>1, <1>3, <1>10, <2>1, NothingTaken
<1>4. CASE p >= F /\ Requested(path, p) /\ path[p].type = "toolResult"
  <2>1. d = AfterResult(acc, C)
    BY <1>1, <1>4, <1>10, TakenIs DEF C
  <2>2. \E a \in 1..(p - 1) : a >= F /\ Answers(path, p, a)
    BY <1>1, <1>4, KeptAnswers
  <2>3. p - 1 = i
    BY <1>1, <1>10
  <2>4. \E a \in 1..i : a >= F /\ Answers(path, p, a)
    BY <2>2, <2>3
  <2> QED
    BY <1>1, <1>2, <1>4, <1>10, <2>1, <2>4, ResultTaken DEF C
<1>5. CASE p >= F /\ Stopped(path, p)
  <2>1. d = AfterAnswer(acc, C)
    BY <1>1, <1>5, <1>10, TakenIs DEF C
  <2>2. C = path[i + 1].calls
    BY <1>10 DEF C
  <2> QED
    BY <1>1, <1>2, <1>5, <1>10, <2>1, <2>2, AnswerTaken
<1>6. CASE p >= F /\ path[p].type = "assistant" /\ path[p].stop # "stop"
  <2>1. d = AfterFailure(acc)
    BY <1>1, <1>6, <1>10, TakenIs DEF C
  <2> QED
    BY <1>1, <1>6, <1>10, <2>1, FailedTaken
<1>7. CASE p >= F /\ Requested(path, p) /\ path[p].type \notin {"assistant", "toolResult"}
  <2>1. d = AfterUser(acc)
    BY <1>1, <1>7, <1>10, TakenIs DEF C
  <2> QED
    BY <1>1, <1>7, <1>10, <2>1, UserTaken
<1> QED
  BY <1>3, <1>4, <1>5, <1>6, <1>7, <1>10 DEF Stopped

\* The request itself.
LEMMA RequestGood ==
    ASSUME CutInv, AllPaired(path), NEW n, n = Len(path), NEW F, F = FirstKept
    PROVE  \E acc : /\ Good(F, acc, n) /\ Trailing(F, acc.sent, n) /\ Begun(F, acc.sent, n)
                    /\ Request = acc.sent
<1>1. n \in Nat
  BY DEF CutInv
<1>2. PICK h : h[0] = Begin /\ (\A i \in 1..n : h[i] = Taken(h[i - 1], i)) /\ Request = h[n].sent
  BY <1>1, RequestIs
<1> DEFINE Fits(i) == Good(F, h[i], i) /\ Trailing(F, h[i].sent, i) /\ Begun(F, h[i].sent, i)
           G == {k \in Nat : Fits(k - 1)}
<1>3. 1 \in G
  <2>1. 1 - 1 = 0
    OBVIOUS
  <2>2. Fits(0)
    BY <1>2, BeginGood
  <2> HIDE DEF Fits
  <2> QED
    BY <2>1, <2>2
<1>4. ASSUME NEW k \in 1..n, k \in G PROVE k + 1 \in G
  <2>1. k - 1 \in 0..(n - 1) /\ (k - 1) + 1 = k /\ (k + 1) - 1 = k /\ k + 1 \in Nat
    BY <1>1
  <2>2. Fits(k - 1)
    BY <1>4
  <2> DEFINE i == k - 1
  <2>3. h[k] = Taken(h[i], i + 1) /\ i \in 0..(n - 1) /\ i + 1 = k
    BY <1>2, <2>1
  <2> HIDE DEF i
  <2>4. Good(F, h[i], i) /\ Trailing(F, h[i].sent, i) /\ Begun(F, h[i].sent, i)
    BY <2>2 DEF i
  <2>5. Good(F, h[k], i + 1) /\ Trailing(F, h[k].sent, i + 1) /\ Begun(F, h[k].sent, i + 1)
    BY <2>3, <2>4, TakenGood
  <2>6. Fits(k)
    BY <2>3, <2>5
  <2> HIDE DEF Fits
  <2> QED
    BY <2>1, <2>6
<1>5. n + 1 \in G
  <2> HIDE DEF G
  <2>1. \A i \in 1..n : i \in G => i + 1 \in G
    BY <1>4
  <2>2. 1..(n + 1) \subseteq G
    BY <1>1, <1>3, <2>1, Climb
  <2> QED
    BY <1>1, <2>2
<1>6. (n + 1) - 1 = n
  BY <1>1
<1>7. Fits(n)
  <2> HIDE DEF Fits
  <2> QED
    BY <1>5, <1>6
<1> QED
  BY <1>2, <1>7

LEMMA RequestExact == CutInv /\ TurnInv => RequestsPaired
<1> SUFFICES ASSUME CutInv, TurnInv, running, owed = {}
             PROVE  /\ Request # <<>> /\ Last(Request).role # "assistant"
                    /\ AllComplete(Request) /\ ResultsCalled(Request)
                    /\ DOMAIN Request = 1..Len(Request)
  <2> SUFFICES ASSUME Request # <<>> /\ Last(Request).role # "assistant",
                      AllComplete(Request), ResultsCalled(Request), DOMAIN Request = 1..Len(Request)
               PROVE  RequestsPaired
    BY DEF RequestsPaired
  <2> DEFINE R == Request
  <2>1. \A i \in DOMAIN R : R[i].role = "assistant" => Followed(R, i)
    BY DEF AllComplete
  <2>2. \A i \in DOMAIN R : R[i].role = "toolResult" =>
            \E a \in 1..(i - 1) : R[a].role = "assistant" /\ R[i].calls \subseteq R[a].calls
    BY DEF ResultsCalled
  <2> QED
    BY <2>1, <2>2 DEF RequestsPaired, Followed
<1> DEFINE n == Len(path)  F == FirstKept
<1>1. n \in Nat /\ AllPaired(path) /\ EndsWell(path, n)
  BY DEF CutInv, TurnInv
<1>2. F = From(path, n) /\ F \in Nat \ {0} /\ (HasSummary <=> LastAmong(path, n) # 0)
  BY FirstKeptIs
<1>3. PICK acc : /\ Good(F, acc, n) /\ Trailing(F, acc.sent, n) /\ Begun(F, acc.sent, n)
                 /\ Request = acc.sent
  BY <1>1, RequestGood
<1> HIDE DEF n, F
<1> DEFINE s == acc.sent
<1>4. s \in Seq(Sents) /\ Len(s) \in Nat /\ ResultsCalled(s) /\ acc.found \subseteq acc.pending
  BY <1>3 DEF Good, Accs
<1>5. Len(s) > 0
  <2>1. CASE LastAmong(path, n) # 0
    BY <1>2, <1>3, <2>1 DEF Begun
  <2>2. CASE LastAmong(path, n) = 0
    <3>1. F = 1
      BY <1>2, <2>2 DEF From
    <3>2. PICK i \in 1..n : Requested(path, i) /\ path[i].type # "assistant"
      BY <1>1, <2>2 DEF EndsWell
    <3> QED
      BY <1>3, <3>1, <3>2 DEF Begun
  <2> QED
    BY <2>1, <2>2
<1>6. s[Len(s)].role # "assistant"
  <2> SUFFICES ASSUME s[Len(s)].role = "assistant" PROVE FALSE
    OBVIOUS
  <2>1. PICK a \in 1..n :
            /\ a >= F /\ Stopped(path, a)
            /\ \A k \in (a + 1)..n : Requested(path, k) =>
                   path[k].type = "assistant" /\ path[k].stop # "stop" /\ path[a].calls = {}
    BY <1>3, <1>5 DEF Trailing
  <2>2. CASE path[a].calls = {}
    <3>1. \E i \in (a + 1)..n : Requested(path, i) /\ path[i].type # "assistant"
      BY <1>1, <1>2, <2>1, <2>2 DEF EndsWell
    <3> QED
      BY <2>1, <3>1
  <2>3. CASE path[a].calls # {}
    <3>1. \A k \in (a + 1)..n : ~Requested(path, k)
      BY <2>1, <2>3
    <3>2. TurnOpen(path, a, n)
      BY <2>1, <3>1 DEF TurnOpen
    <3>3. path[a].calls \subseteq Answered(path, a, n)
      BY <1>1, <1>2, <2>1, <3>2 DEF EndsWell
    <3>4. Results(path, a, n) = {}
      BY <3>1 DEF Results, Requested, InContext, Messages
    <3>5. Answered(path, a, n) = {}
      BY <3>4 DEF Answered
    <3> QED
      BY <2>3, <3>3, <3>5
  <2> QED
    BY <2>2, <2>3
<1>7. AllComplete(s)
  <2>1. PICK o \in 0..Len(s) :
           CompleteBut(acc, o) /\ (o # 0 => \E a \in 1..n : a >= F /\ TurnOpen(path, a, n))
    BY <1>3 DEF Good
  <2>2. ASSUME o # 0 PROVE Followed(s, o)
    <3>1. PICK a \in 1..n : a >= F /\ TurnOpen(path, a, n)
      BY <2>1, <2>2
    <3>2. acc.pending = path[a].calls /\ acc.found = Answered(path, a, n)
      BY <1>3, <3>1 DEF Good
    <3>3. path[a].calls \subseteq Answered(path, a, n)
      BY <1>1, <1>2, <3>1 DEF EndsWell
    <3>4. acc.found = acc.pending
      BY <1>4, <3>2, <3>3
    <3>5. Unfinished(acc, o)
      BY <2>1, <2>2 DEF CompleteBut
    <3> DEFINE m == Cardinality(s[o].calls)
    <3>6. s[o].calls = acc.found
      BY <3>4, <3>5 DEF Unfinished
    <3>7. Len(s) = o + m /\ {{call} : call \in s[o].calls} = {s[k].calls : k \in (o + 1)..Len(s)}
      BY <3>5, <3>6 DEF Unfinished
    <3> HIDE DEF m, s
    <3>8. {{call} : call \in s[o].calls} = {s[k].calls : k \in (o + 1)..(o + m)}
      BY <3>7, Zenon
    <3>9. o + m <= Len(s)
      BY <1>4, <3>7
    <3> QED
      BY <3>8, <3>9 DEF Followed, m
  <2> QED
    BY <2>1, <2>2 DEF CompleteBut, AllComplete
<1>8. s # <<>>
  <2>1. Len(<<>>) = 0
    OBVIOUS
  <2> QED
    BY <1>5, <2>1
<1>9. DOMAIN s = 1..Len(s)
  BY <1>4
<1> QED
  BY <1>3, <1>4, <1>6, <1>7, <1>8, <1>9 DEF Last

\* Whenever the LLM is asked for an answer, whatever was cut, killed, left behind
\* or compacted before (agent-session.ts:1394-1502, 1530-1574, 1684-1697), what
\* transform-messages.ts:93-167 makes of the branch has every tool call followed
\* at once by its results, no result without its call, and something at the end
\* to answer.
THEOREM RequestsStayPaired == CompactionSpec => []RequestsPaired
<1>1. CompactionInit => CutInv /\ TurnInv
  BY CutInit, TurnInit
<1>2. CutInv /\ TurnInv /\ [CompactionNext]_compactionVars => CutInv' /\ TurnInv'
  BY CutStep, TurnStep
<1>3. CutInv /\ TurnInv => RequestsPaired
  BY RequestExact
<1> QED
  BY <1>1, <1>2, <1>3, PTL DEF CompactionSpec

-------------------------------------------------------------------------------
(* The prompt editor, for every number of keys, characters and pastes.        *)

Prompts == {chars \in Seq(Glyphs) : Len(chars) <= MaxText}
Snapshots == {s \in [text : Prompts, cursor : Nat] : s.cursor <= Len(s.text)}

EditorTypes ==
    /\ text \in Prompts /\ cursor \in 0..Len(text)
    /\ undoStack \in Seq(Snapshots)
    /\ killRing \in Seq(Seq(Glyphs) \ {<<>>})
    /\ lastAction \in {"kill", "yank", "type-word", "none"}
    /\ history \in Seq(Prompts) /\ historyIndex \in 0..Len(history)
    /\ whole \in Seq(Glyphs)

\* What the newest snapshot of the undo stack and a word typed behind it make.
WordTyped(last) ==
    /\ last.cursor < cursor
    /\ Space \notin ToSet(Tail(SubSeq(text, last.cursor + 1, cursor)))
    /\ text = SubSeq(last.text, 1, last.cursor) \o SubSeq(text, last.cursor + 1, cursor)
              \o SubSeq(last.text, last.cursor + 1, Len(last.text))

\* The undo stack begins at the empty editor, and is empty only there.
UndoInv ==
    /\ undoStack = <<>> => text = <<>> /\ historyIndex = 0 /\ lastAction # "type-word"
    /\ undoStack # <<>> => undoStack[1].text = <<>>
    /\ lastAction = "type-word" => WordTyped(Last(undoStack))

\* What was yanked last stands before the cursor.
RingInv ==
    /\ lastAction \in {"kill", "yank"} => killRing # <<>>
    /\ lastAction = "yank" => Len(Last(killRing)) <= cursor
    /\ KillRingTrue

\* Characters of this prompt, now or by undo, and those kept beyond it.
Recorded == UNION {ToSet(s.text) : s \in ToSet(undoStack)}
Written == ToSet(text) \cup Recorded
Characters(texts) == UNION {ToSet(chars) : chars \in texts}
Saved == Characters(ToSet(killRing) \cup ToSet(history))

Plain == {Letter, Space, LineEnd}

\* Made for a paste of another prompt.
Stale(chars) == \E char \in chars : char.paste \notin Range(pastes) \cup {0}

\* A marker that belongs to this prompt shows the place of its paste, and one of
\* another prompt came from the kill ring or the history, where it still is.
PasteInv ==
    /\ pasted \in 0..MaxPastes /\ pastes \in Seq(1..pasted) /\ Len(pastes) <= pasted
    /\ \A char \in Written \cup Saved :
           /\ char.paste <= pasted
           /\ \A i \in DOMAIN pastes : pastes[i] = char.paste => char.shows = i
    /\ Stale(Written) => Stale(Saved)

EditorInv == EditorTypes /\ UndoInv /\ RingInv /\ PasteInv

-------------------------------------------------------------------------------
(* Parts of a text. *)

\* What is up to a place and what follows it make the whole.
LEMMA PartsJoin ==
    ASSUME NEW S, NEW s \in Seq(S), NEW a \in 0..Len(s), NEW b \in a..Len(s), NEW c \in b..Len(s)
    PROVE  SubSeq(s, a + 1, b) \o SubSeq(s, b + 1, c) = SubSeq(s, a + 1, c)
<1>1. a + 1 \in 1..(Len(s) + 1) /\ b \in ((a + 1) - 1)..Len(s) /\ c \in b..Len(s)
  OBVIOUS
<1> QED
  BY <1>1, ConcatAdjacentSubSeq

LEMMA HalvesJoin ==
    ASSUME NEW S, NEW s \in Seq(S), NEW a \in 0..Len(s)
    PROVE  /\ SubSeq(s, 1, a) \o SubSeq(s, a + 1, Len(s)) = s
           /\ SubSeq(s, 1, a) \in Seq(S) /\ Len(SubSeq(s, 1, a)) = a
           /\ SubSeq(s, a + 1, Len(s)) \in Seq(S) /\ Len(SubSeq(s, a + 1, Len(s))) = Len(s) - a
           /\ ToSet(SubSeq(s, 1, a)) \subseteq ToSet(s)
           /\ ToSet(SubSeq(s, a + 1, Len(s))) \subseteq ToSet(s)
<1>1. Len(s) \in Nat /\ 0 \in 0..Len(s) /\ a \in 0..Len(s) /\ Len(s) \in a..Len(s) /\ 0 + 1 = 1 /\ a - 0 = a
  OBVIOUS
<1>2. SubSeq(s, 0 + 1, a) \o SubSeq(s, a + 1, Len(s)) = SubSeq(s, 0 + 1, Len(s))
  BY <1>1, PartsJoin
<1>3. SubSeq(s, 1, Len(s)) = s
  BY SubSeqFull
<1>4. /\ SubSeq(s, 0 + 1, a) \in Seq(S) /\ Len(SubSeq(s, 0 + 1, a)) = a - 0
      /\ ToSet(SubSeq(s, 0 + 1, a)) \subseteq ToSet(s)
  BY <1>1, PartOf
<1>5. /\ SubSeq(s, a + 1, Len(s)) \in Seq(S) /\ Len(SubSeq(s, a + 1, Len(s))) = Len(s) - a
      /\ ToSet(SubSeq(s, a + 1, Len(s))) \subseteq ToSet(s)
  BY <1>1, PartOf
<1> QED
  BY <1>1, <1>2, <1>3, <1>4, <1>5

LEMMA JoinHalves ==
    ASSUME NEW S, NEW p \in Seq(S), NEW q \in Seq(S)
    PROVE  /\ p \o q \in Seq(S) /\ Len(p \o q) = Len(p) + Len(q)
           /\ SubSeq(p \o q, 1, Len(p)) = p
           /\ SubSeq(p \o q, Len(p) + 1, Len(p) + Len(q)) = q
           /\ ToSet(p \o q) = ToSet(p) \cup ToSet(q)
<1> DEFINE u == p \o q  m == Len(p)  n == Len(q)
<1>1. /\ u \in Seq(S) /\ Len(u) = m + n /\ m \in Nat /\ n \in Nat
      /\ \A i \in 1..m : u[i] = p[i]
      /\ \A i \in 1..n : u[m + i] = q[i]
  OBVIOUS
<1> HIDE DEF u, m, n
<1>2. 0 \in 0..Len(u) /\ m \in 0..Len(u) /\ m \in m..Len(u) /\ Len(u) \in m..Len(u) /\ m - 0 = m /\ (m + n) - m = n
  BY <1>1
<1>3. SubSeq(u, 1, m) = p
  <2> DEFINE a == SubSeq(u, 0 + 1, m)
  <2>1. a \in Seq(S) /\ Len(a) = m /\ \A i \in 1..m : a[i] = u[0 + i]
    BY <1>1, <1>2, PartOf
  <2> HIDE DEF a
  <2>2. \A i \in 1..Len(a) : a[i] = p[i]
    BY <1>1, <2>1
  <2>3. a = p
    BY <2>1, <2>2, SeqEqual DEF m
  <2> QED
    BY <2>3 DEF a
<1>4. SubSeq(u, m + 1, m + n) = q
  <2> DEFINE a == SubSeq(u, m + 1, m + n)
  <2>1. a \in Seq(S) /\ Len(a) = n /\ \A i \in 1..n : a[i] = u[m + i]
    BY <1>1, <1>2, PartOf
  <2> HIDE DEF a
  <2>2. \A i \in 1..Len(a) : a[i] = q[i]
    BY <1>1, <2>1
  <2>3. a = q
    BY <2>1, <2>2, SeqEqual DEF n
  <2> QED
    BY <2>3 DEF a
<1>5. ToSet(u) = ToSet(p) \cup ToSet(q)
  <2>1. /\ ToSet(u) = {u[i] : i \in 1..(m + n)} /\ ToSet(p) = {p[i] : i \in 1..m}
        /\ ToSet(q) = {q[i] : i \in 1..n}
    BY <1>1, ToSetOfSeq DEF m, n
  <2>2. ASSUME NEW i \in 1..(m + n) PROVE u[i] \in ToSet(p) \cup ToSet(q)
    <3>1. CASE i <= m
      BY <1>1, <2>1, <3>1
    <3>2. CASE i > m
      <4>1. i - m \in 1..n /\ m + (i - m) = i
        BY <1>1, <3>2
      <4>2. u[i] = q[i - m]
        BY <1>1, <4>1
      <4> QED
        BY <2>1, <4>1, <4>2
    <3> QED
      BY <1>1, <3>1, <3>2
  <2>3. ASSUME NEW i \in 1..m PROVE p[i] \in ToSet(u)
    <3>1. i \in 1..(m + n)
      BY <1>1
    <3> QED
      BY <1>1, <2>1, <3>1
  <2>4. ASSUME NEW i \in 1..n PROVE q[i] \in ToSet(u)
    <3>1. m + i \in 1..(m + n)
      BY <1>1
    <3> QED
      BY <1>1, <2>1, <3>1
  <2>5. ToSet(u) \subseteq ToSet(p) \cup ToSet(q)
    BY <2>1, <2>2
  <2>6. ToSet(p) \subseteq ToSet(u) /\ ToSet(q) \subseteq ToSet(u)
    BY <2>1, <2>3, <2>4
  <2> QED
    BY <2>5, <2>6
<1> QED
  BY <1>1, <1>3, <1>4, <1>5 DEF u, m, n

\* Something between two parts.
JoinedThree(S, p, q, r) ==
    LET u == (p \o q) \o r
    IN  /\ u \in Seq(S) /\ Len(u) = Len(p) + Len(q) + Len(r)
        /\ SubSeq(u, 1, Len(p)) = p
        /\ SubSeq(u, Len(p) + 1, Len(p) + Len(q)) = q
        /\ SubSeq(u, 1, Len(p) + Len(q)) = p \o q
        /\ SubSeq(u, (Len(p) + Len(q)) + 1, (Len(p) + Len(q)) + Len(r)) = r
        /\ ToSet(u) = ToSet(p) \cup ToSet(q) \cup ToSet(r)

LEMMA JoinThree ==
    ASSUME NEW S, NEW p \in Seq(S), NEW q \in Seq(S), NEW r \in Seq(S)
    PROVE  JoinedThree(S, p, q, r)
<1> DEFINE pq == p \o q  qr == q \o r  u == pq \o r  m == Len(p)  n == Len(q)  k == Len(r)
<1>1. /\ pq \in Seq(S) /\ Len(pq) = m + n /\ ToSet(pq) = ToSet(p) \cup ToSet(q)
      /\ qr \in Seq(S) /\ Len(qr) = n + k /\ SubSeq(qr, 1, n) = q
      /\ m \in Nat /\ n \in Nat /\ k \in Nat
  BY JoinHalves
<1>2. u = p \o qr
  BY ConcatAssociative
<1>3. /\ u \in Seq(S) /\ Len(u) = m + (n + k) /\ SubSeq(u, 1, m) = p
      /\ SubSeq(u, m + 1, m + (n + k)) = qr
  <2> HIDE DEF qr, u, n, k
  <2>1. /\ p \o qr \in Seq(S) /\ Len(p \o qr) = Len(p) + Len(qr)
        /\ SubSeq(p \o qr, 1, Len(p)) = p
        /\ SubSeq(p \o qr, Len(p) + 1, Len(p) + Len(qr)) = qr
    <3>1. qr \in Seq(S)
      BY <1>1
    <3> QED
      BY <3>1, JoinHalves
  <2> QED
    BY <1>1, <1>2, <2>1
<1>4. /\ SubSeq(u, 1, m + n) = pq /\ SubSeq(u, (m + n) + 1, (m + n) + k) = r
      /\ ToSet(u) = ToSet(pq) \cup ToSet(r)
  <2> HIDE DEF pq, m, n
  <2>1. /\ SubSeq(pq \o r, 1, Len(pq)) = pq
        /\ SubSeq(pq \o r, Len(pq) + 1, Len(pq) + Len(r)) = r
        /\ ToSet(pq \o r) = ToSet(pq) \cup ToSet(r)
    BY <1>1, JoinHalves
  <2> QED
    BY <1>1, <2>1
<1>5. SubSeq(u, m + 1, m + n) = q
  <2> HIDE DEF pq, qr, u, m, n, k
  <2>1. m \in 0..Len(u) /\ m + n \in m..Len(u) /\ n = (m + n) - m
    BY <1>1, <1>3
  <2>2. /\ SubSeq(u, m + 1, m + n) \in Seq(S) /\ Len(SubSeq(u, m + 1, m + n)) = n
        /\ \A i \in 1..n : SubSeq(u, m + 1, m + n)[i] = u[m + i]
    BY <1>3, <2>1, PartOf
  <2>3. Len(u) \in m..Len(u) /\ Len(u) - m = n + k
    BY <1>1, <1>3
  <2>4. \A i \in 1..(n + k) : SubSeq(u, m + 1, Len(u))[i] = u[m + i]
    BY <1>3, <2>1, <2>3, PartOf
  <2>5. \A i \in 1..n : qr[i] = u[m + i]
    BY <1>1, <1>3, <2>4
  <2>6. 0 \in 0..Len(qr) /\ n \in 0..Len(qr) /\ n - 0 = n
    BY <1>1
  <2>7. \A i \in 1..n : SubSeq(qr, 0 + 1, n)[i] = qr[0 + i]
    BY <1>1, <2>6, PartOf
  <2>8. \A i \in 1..n : q[i] = qr[i]
    BY <1>1, <2>7
  <2>9. \A i \in 1..n : SubSeq(u, m + 1, m + n)[i] = q[i]
    BY <2>2, <2>5, <2>8
  <2> DEFINE a == SubSeq(u, m + 1, m + n)
  <2>10. a \in Seq(S) /\ Len(a) = Len(q) /\ \A i \in 1..Len(a) : a[i] = q[i]
    BY <2>2, <2>9 DEF n
  <2> HIDE DEF a
  <2>11. a = q
    BY <2>10, SeqEqual
  <2> QED
    BY <2>11 DEF a
<1>6. m + (n + k) = m + n + k
  BY <1>1
<1>7. Len(u) = m + n + k /\ ToSet(u) = ToSet(p) \cup ToSet(q) \cup ToSet(r)
  BY <1>1, <1>3, <1>4, <1>6
<1>8. /\ u \in Seq(S) /\ SubSeq(u, 1, m) = p /\ SubSeq(u, m + 1, m + n) = q
      /\ SubSeq(u, 1, m + n) = pq /\ SubSeq(u, (m + n) + 1, (m + n) + k) = r
  BY <1>3, <1>4, <1>5, Zenon
<1> QED
  BY <1>7, <1>8, Zenon DEF JoinedThree

-------------------------------------------------------------------------------
(* Places in a text. *)

LEMMA GreatestPlace ==
    ASSUME NEW n \in Nat, NEW S \in SUBSET (0..n), S # {}
    PROVE  Max(S) \in S
<1> DEFINE T == {n - i : i \in S}
<1>1. T \in SUBSET Nat /\ T # {}
  <2>1. PICK i \in S : TRUE
    OBVIOUS
  <2>2. n - i \in T
    BY <2>1
  <2>3. \A k \in S : n - k \in Nat
    OBVIOUS
  <2> QED
    BY <2>2, <2>3
<1>2. PICK x \in T : \A y \in T : x <= y
  BY <1>1, LeastExists
<1>3. n - x \in S /\ \A i \in S : n - x >= i
  BY <1>2
<1> QED
  BY <1>3 DEF Max

LEMMA LeastPlace ==
    ASSUME NEW S \in SUBSET Nat, S # {}
    PROVE  Min(S) \in S
<1>1. PICK x \in S : \A y \in S : x <= y
  BY LeastExists
<1> QED
  BY <1>1 DEF Min

\* The beginning and the end of a line and of a word are around the cursor.
LEMMA PlacesAround ==
    ASSUME text \in Seq(Glyphs), cursor \in 0..Len(text)
    PROVE  /\ LineStart \in 0..cursor /\ WordStart \in 0..cursor /\ Max({0, cursor - 1}) \in 0..cursor
           /\ LineStop \in cursor..Len(text) /\ WordStop \in cursor..Len(text)
           /\ Min({Len(text), cursor + 1}) \in cursor..Len(text)
<1>1. Len(text) \in Nat /\ cursor \in Nat /\ cursor <= Len(text) /\ DOMAIN text = 1..Len(text)
  OBVIOUS
<1>2. LineStart \in 0..cursor
  <2> DEFINE S == {0} \cup {i \in LineEnds : i <= cursor}
  <2>1. S \in SUBSET (0..cursor) /\ S # {}
    BY <1>1 DEF LineEnds
  <2> HIDE DEF S
  <2>2. Max(S) \in 0..cursor
    BY <1>1, <2>1, GreatestPlace
  <2> QED
    BY <2>2 DEF S, LineStart
<1>3. LineStop \in cursor..Len(text)
  <2> DEFINE S == {Len(text)} \cup {i - 1 : i \in {j \in LineEnds : j > cursor}}
  <2>1. S \in SUBSET (cursor..Len(text)) /\ S # {}
    BY <1>1 DEF LineEnds
  <2>2. cursor..Len(text) \subseteq Nat
    BY <1>1
  <2> HIDE DEF S
  <2>3. S \in SUBSET Nat
    BY <2>1, <2>2
  <2>4. Min(S) \in cursor..Len(text)
    BY <2>1, <2>3, LeastPlace
  <2> QED
    BY <2>4 DEF S, LineStop
<1>4. WordStart \in 0..cursor
  <2> DEFINE S == {cursor} \cup {i \in LineStart..cursor :
                 \E j \in i..cursor : /\ \A k \in (i + 1)..j : text[k] # Space
                                      /\ \A k \in (j + 1)..cursor : text[k] = Space}
  <2>1. LineStart..cursor \subseteq 0..cursor /\ 0..cursor \subseteq Nat /\ cursor \in 0..cursor
    BY <1>1, <1>2
  <2>2. S \in SUBSET (0..cursor) /\ S # {}
    BY <2>1
  <2> HIDE DEF S
  <2>3. S \in SUBSET Nat
    BY <2>1, <2>2
  <2>4. Min(S) \in 0..cursor
    BY <2>2, <2>3, LeastPlace
  <2> QED
    BY <2>4 DEF S, WordStart
<1>5. WordStop \in cursor..Len(text)
  <2> DEFINE S == {cursor} \cup {i \in cursor..LineStop :
                 \E j \in cursor..i : /\ \A k \in (cursor + 1)..j : text[k] = Space
                                      /\ \A k \in (j + 1)..i : text[k] # Space}
  <2>1. /\ cursor..LineStop \subseteq cursor..Len(text) /\ cursor..Len(text) \subseteq 0..Len(text)
        /\ cursor \in cursor..Len(text)
    BY <1>1, <1>3
  <2>2. S \in SUBSET (cursor..Len(text)) /\ S # {}
    BY <2>1
  <2> HIDE DEF S
  <2>3. S \in SUBSET (0..Len(text))
    BY <2>1, <2>2
  <2>4. Max(S) \in cursor..Len(text)
    BY <1>1, <2>2, <2>3, GreatestPlace
  <2> QED
    BY <2>4 DEF S, WordStop
<1>6. Max({0, cursor - 1}) \in 0..cursor
  <2> DEFINE S == IF cursor = 0 THEN {0} ELSE {0, cursor - 1}
  <2>1. S \in SUBSET (0..cursor) /\ S # {}
    BY <1>1
  <2>2. CASE cursor > 0
    <3>1. {0, cursor - 1} \in SUBSET (0..cursor) /\ {0, cursor - 1} # {}
      BY <1>1, <2>2
    <3> DEFINE U == {0, cursor - 1}
    <3> HIDE DEF U
    <3>2. U \in SUBSET (0..cursor) /\ U # {}
      BY <3>1 DEF U
    <3>3. Max(U) \in 0..cursor
      BY <1>1, <3>2, GreatestPlace
    <3> QED
      BY <3>3 DEF U
  <2>3. CASE cursor = 0
    <3>1. 0 \in {0, -1} /\ \A y \in {0, -1} : 0 >= y
      OBVIOUS
    <3>2. Max({0, -1}) = 0
      BY <3>1 DEF Max
    <3> QED
      BY <2>3, <3>2
  <2> QED
    BY <1>1, <2>2, <2>3
<1>7. Min({Len(text), cursor + 1}) \in cursor..Len(text)
  <2> DEFINE U == {Len(text), cursor + 1}
  <2>1. U \in SUBSET Nat /\ U # {} /\ (\A x \in U : x >= cursor) /\ Len(text) \in U
    BY <1>1
  <2>2. Min(U) \in U /\ Min(U) <= Len(text)
    <3> HIDE DEF U
    <3>1. PICK x \in U : \A y \in U : x <= y
      BY <2>1, LeastExists
    <3>2. Min(U) \in U /\ \A y \in U : Min(U) <= y
      BY <3>1 DEF Min
    <3> QED
      BY <2>1, <3>2
  <2> DEFINE m == Min(U)
  <2> HIDE DEF U
  <2>3. m \in Nat /\ m >= cursor /\ m <= Len(text)
    <3> HIDE DEF m
    <3>1. m \in U /\ m <= Len(text)
      BY <2>2 DEF m
    <3>2. U \subseteq Nat /\ \A x \in U : x >= cursor
      BY <2>1
    <3> QED
      BY <3>1, <3>2
  <2>4. m \in cursor..Len(text)
    <3> HIDE DEF m
    <3> QED
      BY <1>1, <2>3
  <2> QED
    BY <2>4 DEF U
<1> QED
  BY <1>2, <1>3, <1>4, <1>5, <1>6, <1>7

-------------------------------------------------------------------------------
(* Putting in and taking out. *)

\* The state's own facts.
LEMMA TextParts ==
    ASSUME EditorTypes
    PROVE  /\ Before \in Seq(Glyphs) /\ Len(Before) = cursor /\ ToSet(Before) \subseteq ToSet(text)
           /\ Behind \in Seq(Glyphs) /\ Len(Behind) = Len(text) - cursor /\ ToSet(Behind) \subseteq ToSet(text)
           /\ Before \o Behind = text
           /\ text \in Seq(Glyphs) /\ Len(text) \in Nat /\ cursor \in Nat /\ cursor <= Len(text)
           /\ Len(text) <= MaxText
<1>1. text \in Seq(Glyphs) /\ cursor \in 0..Len(text) /\ Len(text) <= MaxText
  BY DEF EditorTypes, Prompts
<1>2. /\ SubSeq(text, 1, cursor) \o SubSeq(text, cursor + 1, Len(text)) = text
      /\ SubSeq(text, 1, cursor) \in Seq(Glyphs) /\ Len(SubSeq(text, 1, cursor)) = cursor
      /\ SubSeq(text, cursor + 1, Len(text)) \in Seq(Glyphs)
      /\ Len(SubSeq(text, cursor + 1, Len(text))) = Len(text) - cursor
      /\ ToSet(SubSeq(text, 1, cursor)) \subseteq ToSet(text)
      /\ ToSet(SubSeq(text, cursor + 1, Len(text))) \subseteq ToSet(text)
  BY <1>1, HalvesJoin
<1>3. Before = SubSeq(text, 1, cursor) /\ Behind = SubSeq(text, cursor + 1, Len(text))
  BY DEF Before, Behind
<1>4. Len(text) \in Nat /\ cursor \in Nat /\ cursor <= Len(text)
  BY <1>1
<1> QED
  BY <1>1, <1>2, <1>3, <1>4, Zenon

LEMMA Inserted ==
    ASSUME EditorTypes, NEW chars \in Seq(Glyphs), Insert(chars)
    PROVE  /\ text' \in Prompts /\ cursor' \in 0..Len(text') /\ cursor' = cursor + Len(chars)
           /\ text' = (Before \o chars) \o Behind
           /\ Before' = Before \o chars /\ Behind' = Behind
           /\ SubSeq(text', 1, cursor) = Before
           /\ SubSeq(text', cursor + 1, cursor + Len(chars)) = chars
           /\ ToSet(text') = ToSet(text) \cup ToSet(chars)
<1> DEFINE p == Before  r == Behind
<1>1. /\ p \in Seq(Glyphs) /\ Len(p) = cursor /\ ToSet(p) \subseteq ToSet(text)
      /\ r \in Seq(Glyphs) /\ Len(r) = Len(text) - cursor /\ ToSet(r) \subseteq ToSet(text)
      /\ Len(text) \in Nat /\ cursor \in Nat /\ cursor <= Len(text)
  BY TextParts
<1>2. text = p \o r
  BY TextParts
<1>3. ToSet(text) = ToSet(p) \cup ToSet(r)
  <2> HIDE DEF p, r
  <2>1. ToSet(p \o r) = ToSet(p) \cup ToSet(r)
    BY <1>1, JoinHalves
  <2> QED
    BY <1>2, <2>1
<1>4. text' = (p \o chars) \o r /\ cursor' = cursor + Len(chars) /\ Len(text) + Len(chars) <= MaxText
  BY DEF Insert
<1> HIDE DEF p, r
<1>5. /\ (p \o chars) \o r \in Seq(Glyphs) /\ Len((p \o chars) \o r) = Len(p) + Len(chars) + Len(r)
      /\ SubSeq((p \o chars) \o r, 1, Len(p)) = p
      /\ SubSeq((p \o chars) \o r, Len(p) + 1, Len(p) + Len(chars)) = chars
      /\ SubSeq((p \o chars) \o r, 1, Len(p) + Len(chars)) = p \o chars
      /\ SubSeq((p \o chars) \o r, (Len(p) + Len(chars)) + 1, (Len(p) + Len(chars)) + Len(r)) = r
      /\ ToSet((p \o chars) \o r) = ToSet(p) \cup ToSet(chars) \cup ToSet(r)
  <2>1. p \in Seq(Glyphs) /\ r \in Seq(Glyphs)
    BY <1>1
  <2>2. JoinedThree(Glyphs, p, chars, r)
    BY <2>1, JoinThree
  <2> QED
    BY <2>2 DEF JoinedThree
<1>6. Len(chars) \in Nat /\ Len(p) + Len(chars) + Len(r) = Len(text) + Len(chars)
  BY <1>1
<1>7. text' \in Seq(Glyphs) /\ Len(text') = Len(text) + Len(chars)
  BY <1>4, <1>5, <1>6
<1>8. text' \in Prompts
  BY <1>4, <1>7 DEF Prompts
<1>9. cursor' \in 0..Len(text')
  BY <1>1, <1>4, <1>6, <1>7
<1>10. SubSeq(text', 1, cursor') = p \o chars
  BY <1>1, <1>4, <1>5
<1>11. (Len(p) + Len(chars)) + Len(r) = Len(text')
  BY <1>1, <1>6, <1>7
<1>12. SubSeq(text', cursor' + 1, Len(text')) = r
  BY <1>1, <1>4, <1>5, <1>11
<1>13. SubSeq(text', 1, cursor) = p /\ SubSeq(text', cursor + 1, cursor + Len(chars)) = chars
  BY <1>1, <1>4, <1>5
<1>14. ToSet(text') = ToSet(text) \cup ToSet(chars)
  BY <1>3, <1>4, <1>5
<1>15. Before' = p \o chars /\ Behind' = r
  BY <1>10, <1>12 DEF Before, Behind
<1> QED
  BY <1>4, <1>8, <1>9, <1>13, <1>14, <1>15 DEF p, r

LEMMA TakenOut ==
    ASSUME EditorTypes, NEW from \in 0..Len(text), NEW to \in from..Len(text), Take(from, to)
    PROVE  /\ text' \in Prompts /\ cursor' \in 0..Len(text')
           /\ Before' = SubSeq(text, 1, from) /\ Behind' = SubSeq(text, to + 1, Len(text))
           /\ ToSet(text') \subseteq ToSet(text)
<1> DEFINE p == SubSeq(text, 1, from)  r == SubSeq(text, to + 1, Len(text))
<1>1. text \in Seq(Glyphs) /\ Len(text) <= MaxText /\ to \in 0..Len(text) /\ Len(text) \in Nat
  BY DEF EditorTypes, Prompts
<1>2. p \in Seq(Glyphs) /\ Len(p) = from /\ ToSet(p) \subseteq ToSet(text)
  BY <1>1, HalvesJoin
<1>3. r \in Seq(Glyphs) /\ Len(r) = Len(text) - to /\ ToSet(r) \subseteq ToSet(text)
  BY <1>1, HalvesJoin
<1>4. text' = p \o r /\ cursor' = from
  BY DEF Take
<1> HIDE DEF p, r
<1>5. /\ p \o r \in Seq(Glyphs) /\ Len(p \o r) = Len(p) + Len(r)
      /\ SubSeq(p \o r, 1, Len(p)) = p
      /\ SubSeq(p \o r, Len(p) + 1, Len(p) + Len(r)) = r
      /\ ToSet(p \o r) = ToSet(p) \cup ToSet(r)
  <2>1. p \in Seq(Glyphs) /\ r \in Seq(Glyphs)
    BY <1>2, <1>3
  <2> QED
    BY <2>1, JoinHalves
<1>6. text' \in Seq(Glyphs) /\ Len(text') = Len(p) + Len(r)
  BY <1>4, <1>5
<1>7. Len(text') <= MaxText
  BY <1>1, <1>2, <1>3, <1>6, EditorAssumption
<1>8. cursor' \in 0..Len(text')
  BY <1>1, <1>2, <1>3, <1>4, <1>6
<1>9. SubSeq(text', 1, cursor') = p /\ SubSeq(text', cursor' + 1, Len(text')) = r
  BY <1>2, <1>4, <1>5, <1>6
<1>10. ToSet(text') \subseteq ToSet(text)
  BY <1>2, <1>3, <1>4, <1>5
<1>11. Before' = p /\ Behind' = r
  BY <1>9 DEF Before, Behind
<1>12. text' \in Prompts
  BY <1>6, <1>7 DEF Prompts
<1> QED
  BY <1>8, <1>10, <1>11, <1>12 DEF p, r

-------------------------------------------------------------------------------
(* What the steps have in common. *)

LEMMA SnapshotTypes ==
    ASSUME EditorTypes
    PROVE  /\ Snapshot \in Snapshots /\ Snapshot.text = text /\ Snapshot.cursor = cursor
           /\ \A s \in Snapshots : /\ s.text \in Prompts /\ s.text \in Seq(Glyphs) /\ s.cursor \in Nat
                                   /\ s.cursor <= Len(s.text) /\ s.cursor \in 0..Len(s.text)
<1>1. text \in Prompts /\ cursor \in Nat /\ cursor <= Len(text)
  BY TextParts DEF EditorTypes
<1>2. Snapshot \in [text : Prompts, cursor : Nat] /\ Snapshot.text = text /\ Snapshot.cursor = cursor
  BY <1>1 DEF Snapshot
<1>3. ASSUME NEW s \in Snapshots
      PROVE  /\ s.text \in Prompts /\ s.text \in Seq(Glyphs) /\ s.cursor \in Nat
             /\ s.cursor <= Len(s.text) /\ s.cursor \in 0..Len(s.text)
  <2>1. s.text \in Prompts /\ s.cursor \in Nat /\ s.cursor <= Len(s.text)
    BY DEF Snapshots
  <2>2. s.text \in Seq(Glyphs)
    BY <2>1 DEF Prompts
  <2>3. Len(s.text) \in Nat
    BY <2>2
  <2> QED
    BY <2>1, <2>2, <2>3
<1>4. Snapshot \in Snapshots
  BY <1>1, <1>2 DEF Snapshots
<1> QED
  BY <1>2, <1>3, <1>4

\* A snapshot is put on the stack.
LEMMA Pushed ==
    ASSUME EditorTypes, UndoInv, pushUndoSnapshot
    PROVE  /\ undoStack' \in Seq(Snapshots) /\ undoStack' # <<>> /\ undoStack'[1].text = <<>>
           /\ Last(undoStack') = Snapshot
           /\ Recorded' = Recorded \cup ToSet(text)
<1> DEFINE e == Snapshot
<1>1. undoStack \in Seq(Snapshots) /\ e \in Snapshots /\ e.text = text /\ undoStack' = Append(undoStack, e)
  BY SnapshotTypes DEF EditorTypes, pushUndoSnapshot
<1>2. undoStack = <<>> \/ undoStack[1].text = <<>>
  BY DEF UndoInv
<1>3. undoStack = <<>> => text = <<>>
  BY DEF UndoInv
<1> HIDE DEF e
<1>4. /\ Append(undoStack, e) \in Seq(Snapshots) /\ Len(Append(undoStack, e)) = Len(undoStack) + 1
      /\ Append(undoStack, e)[Len(undoStack) + 1] = e
      /\ \A i \in 1..Len(undoStack) : Append(undoStack, e)[i] = undoStack[i]
      /\ Len(undoStack) \in Nat
  BY <1>1, AppendProperties
<1>5. undoStack' # <<>>
  <2>1. Len(undoStack') # 0
    BY <1>1, <1>4
  <2> QED
    BY <2>1
<1>6. Last(undoStack') = e
  BY <1>1, <1>4 DEF Last
<1>7. undoStack'[1].text = <<>>
  <2>1. CASE undoStack = <<>>
    <3>1. Len(undoStack) = 0
      BY <2>1
    <3>2. undoStack'[1] = e
      BY <1>1, <1>4, <3>1
    <3> QED
      BY <1>1, <1>3, <2>1, <3>2
  <2>2. CASE undoStack # <<>>
    <3>1. 1 \in 1..Len(undoStack)
      BY <1>1, <2>2, EmptySeq
    <3>2. undoStack'[1] = undoStack[1]
      BY <1>1, <1>4, <3>1
    <3> QED
      BY <1>2, <2>2, <3>2
  <2> QED
    BY <2>1, <2>2
<1>8. ToSet(undoStack') = ToSet(undoStack) \cup {e}
  <2>1. ToSet(Append(undoStack, e)) = {Append(undoStack, e)[i] : i \in 1..(Len(undoStack) + 1)}
    BY <1>4, ToSetOfSeq
  <2>2. ToSet(undoStack) = {undoStack[i] : i \in 1..Len(undoStack)}
    BY <1>1, ToSetOfSeq
  <2>3. 1..(Len(undoStack) + 1) = 1..Len(undoStack) \cup {Len(undoStack) + 1}
    BY <1>4
  <2> QED
    BY <1>1, <1>4, <2>1, <2>2, <2>3
<1>9. Recorded' = Recorded \cup ToSet(text)
  BY <1>1, <1>8 DEF Recorded
<1> QED
  BY <1>1, <1>4, <1>5, <1>6, <1>7, <1>9 DEF e

\* Characters that have no paste.
LEMMA PlainHasNone ==
    /\ Plain \subseteq Glyphs
    /\ \A char \in Plain : char.paste = 0
    /\ \A char \in Glyphs : char.paste \in 0..MaxPastes /\ (char.c = "[" => char.paste \in 1..MaxPastes)
    /\ \A i, j \in 1..MaxPastes : /\ Marker(i, j) \in Seq(Glyphs) /\ Len(Marker(i, j)) = 2
                                  /\ ToSet(Marker(i, j)) = {Character("[", i, j), Character("]", i, j)}
<1>1. ASSUME NEW i \in 1..MaxPastes, NEW j \in 1..MaxPastes
      PROVE  /\ Len(Marker(i, j)) = 2 /\ ToSet(Marker(i, j)) = {Character("[", i, j), Character("]", i, j)}
             /\ ToSet(Marker(i, j)) \subseteq Glyphs /\ Marker(i, j) \in Seq(Glyphs)
  <2> DEFINE a == Character("[", i, j)  b == Character("]", i, j)
  <2>1. Marker(i, j) = <<a, b>>
    BY DEF Marker
  <2>2. ToSet(Marker(i, j)) \subseteq Glyphs
    <3>1. ToSet(Marker(i, j)) \in {ToSet(Marker(x, y)) : x, y \in 1..MaxPastes}
      OBVIOUS
    <3> QED
      BY <3>1 DEF Glyphs
  <2> HIDE DEF a, b
  <2>3. Len(<<a, b>>) = 2 /\ DOMAIN <<a, b>> = {1, 2} /\ <<a, b>>[1] = a /\ <<a, b>>[2] = b
    OBVIOUS
  <2>4. ToSet(<<a, b>>) = {a, b}
    BY <2>3 DEF ToSet
  <2>5. a \in Glyphs /\ b \in Glyphs
    BY <2>1, <2>2, <2>4
  <2>6. <<a, b>> \in Seq(Glyphs)
    BY <2>5
  <2> QED
    BY <2>1, <2>2, <2>3, <2>4, <2>6 DEF a, b
<1>2. Plain \subseteq Glyphs
  BY DEF Plain, Glyphs
<1>3. \A char \in Plain : char.paste = 0 /\ char.c # "["
  <2>1. "a" # "[" /\ " " # "[" /\ "\n" # "["
    OBVIOUS
  <2>2. Letter.paste = 0 /\ Letter.c = "a"
    BY DEF Letter, Character
  <2>3. Space.paste = 0 /\ Space.c = " "
    BY DEF Space, Character
  <2>4. LineEnd.paste = 0 /\ LineEnd.c = "\n"
    BY DEF LineEnd, Character
  <2> QED
    BY <2>1, <2>2, <2>3, <2>4 DEF Plain
<1>4. ASSUME NEW char \in Glyphs
      PROVE  char.paste \in 0..MaxPastes /\ (char.c = "[" => char.paste \in 1..MaxPastes)
  <2>1. CASE char \in Plain
    BY <1>3, <2>1, EditorAssumption
  <2>2. CASE char \notin Plain
    <3>1. PICK i \in 1..MaxPastes, j \in 1..MaxPastes : char \in ToSet(Marker(i, j))
      BY <2>2 DEF Glyphs, Plain
    <3>2. char = Character("[", i, j) \/ char = Character("]", i, j)
      BY <1>1, <3>1
    <3>3. char.paste = j
      BY <3>2 DEF Character
    <3>4. j \in 0..MaxPastes
      OBVIOUS
    <3> QED
      BY <3>3, <3>4
  <2> QED
    BY <2>1, <2>2
<1> QED
  BY <1>1, <1>2, <1>3, <1>4

\* All that was ever written is made of glyphs.
LEMMA WrittenTypes ==
    ASSUME EditorTypes
    PROVE  Written \subseteq Glyphs /\ Saved \subseteq Glyphs
<1>1. /\ text \in Seq(Glyphs) /\ undoStack \in Seq(Snapshots) /\ killRing \in Seq(Seq(Glyphs) \ {<<>>})
      /\ history \in Seq(Prompts)
  BY DEF EditorTypes, Prompts
<1>2. /\ ToSet(undoStack) \subseteq Snapshots /\ ToSet(killRing) \subseteq Seq(Glyphs) \ {<<>>}
      /\ ToSet(history) \subseteq Prompts /\ ToSet(text) \subseteq Glyphs
  BY <1>1, ToSetOfSeq
<1>3. ASSUME NEW s \in ToSet(undoStack) PROVE ToSet(s.text) \subseteq Glyphs
  <2>1. s.text \in Seq(Glyphs)
    BY <1>2, SnapshotTypes
  <2> QED
    BY <2>1, ToSetOfSeq
<1>4. ASSUME NEW chars \in ToSet(killRing) \cup ToSet(history) PROVE ToSet(chars) \subseteq Glyphs
  <2>1. chars \in Seq(Glyphs)
    BY <1>2 DEF Prompts
  <2> QED
    BY <2>1, ToSetOfSeq
<1> QED
  BY <1>2, <1>3, <1>4 DEF Written, Recorded, Saved, Characters

\* No paste comes or goes: what is written and what is kept was so before.
LEMMA PastesKept ==
    ASSUME PasteInv, UNCHANGED <<pastes, pasted>>,
           Written' \subseteq Written \cup Saved \cup Plain,
           Saved \subseteq Saved', Saved' \subseteq Saved \cup Written \cup Plain
    PROVE  PasteInv'
<1>1. pastes' = pastes /\ pasted' = pasted
  OBVIOUS
<1>2. pasted \in 0..MaxPastes /\ pastes \in Seq(1..pasted) /\ Len(pastes) <= pasted
  BY DEF PasteInv
<1>3. \A char \in Written \cup Saved :
          char.paste <= pasted /\ \A i \in DOMAIN pastes : pastes[i] = char.paste => char.shows = i
  BY DEF PasteInv
<1>4. \A char \in Plain : char.paste = 0
  BY PlainHasNone
<1>5. \A i \in DOMAIN pastes : pastes[i] # 0
  BY <1>2
<1>6. ASSUME NEW char \in Written' \cup Saved'
      PROVE  char.paste <= pasted /\ \A i \in DOMAIN pastes : pastes[i] = char.paste => char.shows = i
  <2>1. CASE char \in Written \cup Saved
    BY <1>3, <2>1
  <2>2. CASE char \in Plain
    <3>1. char.paste = 0
      BY <1>4, <2>2
    <3>2. 0 <= pasted
      BY <1>2
    <3> QED
      BY <1>5, <3>1, <3>2
  <2> QED
    BY <2>1, <2>2
<1>7. Stale(Written') => Stale(Saved')
  <2> SUFFICES ASSUME Stale(Written') PROVE Stale(Saved')
    OBVIOUS
  <2>1. PICK char \in Written' : char.paste \notin Range(pastes) \cup {0}
    BY DEF Stale
  <2>2. CASE char \in Written
    <3>1. Stale(Written)
      BY <2>1, <2>2 DEF Stale
    <3>2. PICK other \in Saved : other.paste \notin Range(pastes) \cup {0}
      BY <3>1 DEF PasteInv, Stale
    <3> QED
      BY <3>2 DEF Stale
  <2>3. CASE char \in Saved
    BY <2>1, <2>3 DEF Stale
  <2>4. CASE char \in Plain
    BY <1>4, <2>1, <2>4
  <2> QED
    BY <2>2, <2>3, <2>4
<1>8. Stale(Written)' <=> Stale(Written')
  BY <1>1 DEF Stale
<1>9. Stale(Saved)' <=> Stale(Saved')
  BY <1>1 DEF Stale
<1> QED
  BY <1>1, <1>2, <1>6, <1>7, <1>8, <1>9 DEF PasteInv

\* Only kills and yanks have a say in the kill ring.
LEMMA RingIdle ==
    ASSUME lastAction' \notin {"kill", "yank"}
    PROVE  RingInv'
BY DEF RingInv, KillRingTrue

\* A step that is recorded, or that there is nothing to undo of, and that ends
\* every series.
LEMMA Quiet ==
    ASSUME EditorInv, text' \in Prompts, cursor' \in 0..Len(text'),
           pushUndoSnapshot \/ (undoStack' = undoStack /\ (undoStack = <<>> => text' = <<>> /\ historyIndex' = 0)),
           lastAction' = "none", historyIndex' \in 0..Len(history),
           ToSet(text') \subseteq Written \cup Saved \cup Plain,
           UNCHANGED <<killRing, history, pastes, pasted, whole>>
    PROVE  EditorInv'
<1>1. EditorTypes /\ UndoInv /\ PasteInv
  BY DEF EditorInv
<1>2. /\ undoStack' \in Seq(Snapshots) /\ Recorded' \subseteq Recorded \cup ToSet(text)
      /\ undoStack' # <<>> => undoStack'[1].text = <<>>
      /\ undoStack' = <<>> => text' = <<>> /\ historyIndex' = 0
  <2>1. CASE pushUndoSnapshot
    BY <1>1, <2>1, Pushed
  <2>2. CASE undoStack' = undoStack /\ (undoStack = <<>> => text' = <<>> /\ historyIndex' = 0)
    BY <1>1, <2>2 DEF EditorTypes, UndoInv, Recorded
  <2> QED
    BY <2>1, <2>2
<1>3. EditorTypes'
  BY <1>1, <1>2 DEF EditorTypes
<1>4. UndoInv'
  BY <1>2 DEF UndoInv
<1>5. RingInv'
  BY RingIdle
<1>6. PasteInv'
  <2>1. Saved' = Saved
    BY DEF Saved
  <2>2. Written' \subseteq Written \cup Saved \cup Plain
    BY <1>2 DEF Written
  <2> QED
    BY <1>1, <2>1, <2>2, PastesKept
<1> QED
  BY <1>3, <1>4, <1>5, <1>6 DEF EditorInv

-------------------------------------------------------------------------------
(* The keys. *)

LEMMA PlainTexts ==
    /\ \A char \in Plain : <<char>> \in Seq(Glyphs) /\ Len(<<char>>) = 1 /\ ToSet(<<char>>) = {char}
    /\ Letter \in Plain /\ Space \in Plain /\ LineEnd \in Plain
    /\ <<Letter, LineEnd>> \in Seq(Glyphs) /\ Len(<<Letter, LineEnd>>) = 2
    /\ ToSet(<<Letter, LineEnd>>) = {Letter, LineEnd}
    /\ <<>> \in Prompts /\ Len(<<>>) = 0 /\ ToSet(<<>>) = {}
<1>1. Letter \in Plain /\ Space \in Plain /\ LineEnd \in Plain /\ Plain \subseteq Glyphs
  BY PlainHasNone DEF Plain
<1>2. ASSUME NEW char \in Plain
      PROVE  <<char>> \in Seq(Glyphs) /\ Len(<<char>>) = 1 /\ ToSet(<<char>>) = {char}
  <2>1. char \in Glyphs
    BY <1>1
  <2>2. <<char>> \in Seq(Glyphs) /\ Len(<<char>>) = 1 /\ DOMAIN <<char>> = {1} /\ <<char>>[1] = char
    BY <2>1
  <2> QED
    BY <2>2 DEF ToSet
<1>3. <<Letter, LineEnd>> \in Seq(Glyphs) /\ Len(<<Letter, LineEnd>>) = 2
      /\ ToSet(<<Letter, LineEnd>>) = {Letter, LineEnd}
  <2> DEFINE a == Letter  b == LineEnd
  <2>1. a \in Glyphs /\ b \in Glyphs
    BY <1>1
  <2> HIDE DEF a, b
  <2>2. <<a, b>> \in Seq(Glyphs) /\ Len(<<a, b>>) = 2 /\ DOMAIN <<a, b>> = {1, 2}
        /\ <<a, b>>[1] = a /\ <<a, b>>[2] = b
    BY <2>1
  <2>3. ToSet(<<a, b>>) = {a, b}
    BY <2>2 DEF ToSet
  <2> QED
    BY <2>2, <2>3 DEF a, b
<1>4. <<>> \in Prompts /\ Len(<<>>) = 0 /\ ToSet(<<>>) = {}
  <2>1. Len(<<>>) = 0 /\ <<>> \in Seq(Glyphs) /\ DOMAIN <<>> = {}
    OBVIOUS
  <2>2. ToSet(<<>>) = {}
    BY <2>1 DEF ToSet
  <2>3. <<>> \in Prompts
    BY <2>1, EditorAssumption DEF Prompts
  <2> QED
    BY <2>1, <2>2, <2>3
<1> QED
  BY <1>1, <1>2, <1>3, <1>4

LEMMA InsertTextKeeps ==
    ASSUME EditorInv, NEW chars \in Seq(Glyphs), ToSet(chars) \subseteq Plain, InsertText(chars)
    PROVE  EditorInv'
<1>1. EditorTypes
  BY DEF EditorInv
<1>2. Insert(chars)
  BY DEF InsertText
<1>3. /\ pushUndoSnapshot /\ lastAction' = "none" /\ historyIndex' = 0
      /\ UNCHANGED <<killRing, history, pastes, pasted, whole>>
  BY DEF InsertText, Edit
<1>4. text' \in Prompts /\ cursor' \in 0..Len(text') /\ ToSet(text') = ToSet(text) \cup ToSet(chars)
  BY <1>1, <1>2, Inserted
<1>5. ToSet(text') \subseteq Written \cup Saved \cup Plain
  BY <1>4 DEF Written
<1>6. historyIndex' \in 0..Len(history)
  BY <1>1, <1>3 DEF EditorTypes
<1> QED
  BY <1>3, <1>4, <1>5, <1>6, Quiet

LEMMA CompleteKeeps ==
    ASSUME EditorInv, Complete
    PROVE  EditorInv'
<1>1. EditorTypes
  BY DEF EditorInv
<1>2. /\ Insert(<<Letter>>) /\ pushUndoSnapshot /\ lastAction' = "none" /\ historyIndex' = historyIndex
      /\ UNCHANGED <<killRing, history, pastes, pasted, whole>>
  BY DEF Complete
<1>3. <<Letter>> \in Seq(Glyphs) /\ ToSet(<<Letter>>) = {Letter} /\ Letter \in Plain
  BY PlainTexts
<1>4. text' \in Prompts /\ cursor' \in 0..Len(text') /\ ToSet(text') = ToSet(text) \cup ToSet(<<Letter>>)
  BY <1>1, <1>2, <1>3, Inserted
<1>5. ToSet(text') \subseteq Written \cup Saved \cup Plain
  BY <1>3, <1>4 DEF Written
<1>6. historyIndex' \in 0..Len(history)
  BY <1>1, <1>2 DEF EditorTypes
<1> QED
  BY <1>2, <1>4, <1>5, <1>6, Quiet

LEMMA DeleteCharacterKeeps ==
    ASSUME EditorInv, NEW from \in Int, DeleteCharacter(from)
    PROVE  EditorInv'
<1>1. EditorTypes
  BY DEF EditorInv
<1>2. /\ from >= 0 /\ from < Len(text) /\ Take(from, from + 1) /\ pushUndoSnapshot /\ lastAction' = "none"
      /\ historyIndex' = 0 /\ UNCHANGED <<killRing, history, pastes, pasted, whole>>
  BY DEF DeleteCharacter, Edit
<1>3. from \in 0..Len(text) /\ from + 1 \in from..Len(text)
  BY <1>1, <1>2, TextParts
<1>4. text' \in Prompts /\ cursor' \in 0..Len(text') /\ ToSet(text') \subseteq ToSet(text)
  BY <1>1, <1>2, <1>3, TakenOut
<1>5. ToSet(text') \subseteq Written \cup Saved \cup Plain
  BY <1>4 DEF Written
<1>6. historyIndex' \in 0..Len(history)
  BY <1>1, <1>2 DEF EditorTypes
<1> QED
  BY <1>2, <1>4, <1>5, <1>6, Quiet

LEMMA SetTextKeeps ==
    ASSUME EditorInv, NEW chars \in Seq(Glyphs), ToSet(chars) \subseteq Plain, SetText(chars)
    PROVE  EditorInv'
<1>1. EditorTypes /\ UndoInv
  BY DEF EditorInv
<1>2. /\ Len(chars) <= MaxText /\ text' = chars /\ cursor' = Len(chars) /\ lastAction' = "none"
      /\ historyIndex' = 0 /\ UNCHANGED <<killRing, history, pastes, pasted, whole>>
  BY DEF SetText
<1>3. pushUndoSnapshot \/ (undoStack' = undoStack /\ text' = text)
  BY DEF SetText
<1>4. text' \in Prompts /\ cursor' \in 0..Len(text')
  BY <1>2 DEF Prompts
<1>5. ToSet(text') \subseteq Written \cup Saved \cup Plain
  BY <1>2
<1>6. historyIndex' \in 0..Len(history)
  BY <1>1, <1>2 DEF EditorTypes
<1>7. pushUndoSnapshot \/ (undoStack' = undoStack /\ (undoStack = <<>> => text' = <<>> /\ historyIndex' = 0))
  BY <1>1, <1>2, <1>3 DEF UndoInv
<1> QED
  BY <1>2, <1>4, <1>5, <1>6, <1>7, Quiet

LEMMA MoveToKeeps ==
    ASSUME EditorInv, NEW to \in 0..Len(text), MoveTo(to)
    PROVE  EditorInv'
<1>1. EditorTypes /\ UndoInv
  BY DEF EditorInv
<1>2. /\ text' = text /\ cursor' = to /\ undoStack' = undoStack /\ lastAction' = "none"
      /\ historyIndex' = historyIndex /\ UNCHANGED <<killRing, history, pastes, pasted, whole>>
  BY DEF MoveTo
<1>3. text' \in Prompts /\ cursor' \in 0..Len(text') /\ historyIndex' \in 0..Len(history)
  BY <1>1, <1>2 DEF EditorTypes
<1>4. ToSet(text') \subseteq Written \cup Saved \cup Plain
  BY <1>2 DEF Written
<1>5. undoStack = <<>> => text' = <<>> /\ historyIndex' = 0
  BY <1>1, <1>2 DEF UndoInv
<1> QED
  BY <1>2, <1>3, <1>4, <1>5, Quiet

LEMMA BrowseKeeps ==
    ASSUME EditorInv, NEW to, Browse(to)
    PROVE  EditorInv'
<1>1. EditorTypes /\ UndoInv
  BY DEF EditorInv
<1>2. /\ to \in 0..Len(history) /\ historyIndex' = to /\ lastAction' = "none"
      /\ text' = (IF to = 0 THEN <<>> ELSE history[to]) /\ cursor' = Len(text')
      /\ UNCHANGED <<killRing, history, pastes, pasted, whole>>
  BY DEF Browse
<1>3. IF historyIndex = 0 THEN pushUndoSnapshot ELSE UNCHANGED undoStack
  BY DEF Browse
<1>4. history \in Seq(Prompts)
  BY <1>1 DEF EditorTypes
<1>5. text' \in Prompts /\ ToSet(text') \subseteq Saved
  <2>1. CASE to = 0
    BY <1>2, <2>1, PlainTexts
  <2>2. CASE to # 0
    <3>1. to \in 1..Len(history)
      BY <1>2, <2>2
    <3>2. history[to] \in Prompts /\ history[to] \in ToSet(history)
      BY <1>4, <3>1, ToSetOfSeq
    <3> QED
      BY <1>2, <2>2, <3>2 DEF Saved, Characters
  <2> QED
    BY <2>1, <2>2
<1>6. cursor' \in 0..Len(text')
  <2>1. Len(text') \in Nat
    BY <1>5 DEF Prompts
  <2> QED
    BY <1>2, <2>1
<1>7. pushUndoSnapshot \/ (undoStack' = undoStack /\ (undoStack = <<>> => text' = <<>> /\ historyIndex' = 0))
  BY <1>1, <1>3 DEF UndoInv
<1>8. ToSet(text') \subseteq Written \cup Saved \cup Plain /\ historyIndex' \in 0..Len(history)
  BY <1>2, <1>5
<1> QED
  BY <1>2, <1>5, <1>6, <1>7, <1>8, Quiet

\* Nothing but a series or a browsing ends.
LEMMA InVainKeeps ==
    ASSUME EditorInv, InVain
    PROVE  EditorInv'
<1>1. EditorTypes /\ UndoInv /\ RingInv /\ PasteInv
  BY DEF EditorInv
<1>2. /\ text' = text /\ cursor' = cursor /\ undoStack' = undoStack
      /\ UNCHANGED <<killRing, history, pastes, pasted, whole>>
      /\ lastAction' = lastAction \/ lastAction' = "none"
      /\ historyIndex' = historyIndex \/ historyIndex' = 0
  BY DEF InVain, shown
<1>3. EditorTypes'
  BY <1>1, <1>2 DEF EditorTypes
<1>4. UndoInv'
  BY <1>1, <1>2 DEF UndoInv, WordTyped
<1>5. RingInv'
  BY <1>1, <1>2 DEF RingInv, KillRingTrue, Before, Behind
<1>6. PasteInv'
  BY <1>1, <1>2 DEF PasteInv, Stale, Written, Recorded, Saved
<1> QED
  BY <1>3, <1>4, <1>5, <1>6 DEF EditorInv

LEMMA UndoKeeps ==
    ASSUME EditorInv, Undo
    PROVE  EditorInv'
<1>1. EditorTypes /\ UndoInv /\ PasteInv
  BY DEF EditorInv
<1>2. /\ undoStack # <<>> /\ text' = Last(undoStack).text /\ cursor' = Last(undoStack).cursor
      /\ undoStack' = Front(undoStack) /\ lastAction' = "none" /\ historyIndex' = 0
      /\ UNCHANGED <<killRing, history, pastes, pasted, whole>>
  BY DEF Undo
<1>3. undoStack \in Seq(Snapshots)
  BY <1>1 DEF EditorTypes
<1> DEFINE n == Len(undoStack)
<1>4. /\ Front(undoStack) \in Seq(Snapshots) /\ Len(Front(undoStack)) = n - 1
      /\ Last(undoStack) \in Snapshots
      /\ \A i \in 1..(n - 1) : Front(undoStack)[i] = undoStack[i]
  BY <1>2, <1>3, FrontLast
<1>5. n \in Nat \ {0}
  BY <1>2, <1>3, EmptySeq
<1>6. Last(undoStack) = undoStack[n]
  BY DEF Last
<1>7. text' \in Prompts /\ cursor' \in 0..Len(text')
  BY <1>1, <1>2, <1>4, SnapshotTypes
<1>8. EditorTypes'
  BY <1>1, <1>2, <1>4, <1>7 DEF EditorTypes
<1>9. UndoInv'
  <2>1. undoStack[1].text = <<>>
    BY <1>1, <1>2 DEF UndoInv
  <2>2. ASSUME undoStack' = <<>> PROVE text' = <<>>
    <3>1. n = 1
      BY <1>2, <1>4, <1>5, <2>2
    <3> QED
      BY <1>2, <1>6, <2>1, <3>1
  <2>3. ASSUME undoStack' # <<>> PROVE undoStack'[1].text = <<>>
    <3>1. Len(Front(undoStack)) # 0
      BY <1>2, <1>4, <2>3, EmptySeq
    <3>2. 1 \in 1..(n - 1)
      BY <1>4, <1>5, <3>1
    <3> QED
      BY <1>2, <1>4, <2>1, <3>2
  <2> QED
    BY <1>2, <2>2, <2>3 DEF UndoInv
<1>10. PasteInv'
  <2>1. Saved' = Saved
    BY <1>2 DEF Saved
  <2>2. Last(undoStack) \in ToSet(undoStack) /\ ToSet(Front(undoStack)) \subseteq ToSet(undoStack)
    <3>1. ToSet(undoStack) = {undoStack[i] : i \in 1..n}
      BY <1>3, ToSetOfSeq
    <3>2. ToSet(Front(undoStack)) = {Front(undoStack)[i] : i \in 1..(n - 1)}
      BY <1>4, ToSetOfSeq
    <3>3. n \in 1..n /\ 1..(n - 1) \subseteq 1..n
      BY <1>5
    <3> QED
      BY <1>4, <1>6, <3>1, <3>2, <3>3
  <2>3. Written' \subseteq Written
    BY <1>2, <2>2 DEF Written, Recorded
  <2> QED
    BY <1>1, <1>2, <2>1, <2>3, PastesKept
<1> QED
  BY <1>2, <1>8, <1>9, <1>10, RingIdle DEF EditorInv

LEMMA TailTyped ==
    ASSUME NEW S, NEW s \in Seq(S), s # <<>>, NEW e \in S
    PROVE  s \o <<e>> \in Seq(S) /\ Len(s \o <<e>>) = Len(s) + 1
           /\ ToSet(Tail(s \o <<e>>)) \subseteq ToSet(Tail(s)) \cup {e}
<1> DEFINE u == s \o <<e>>  n == Len(s)
<1>1. /\ u \in Seq(S) /\ Len(u) = n + 1 /\ (\A i \in 1..n : u[i] = s[i]) /\ u[n + 1] = e
      /\ n \in Nat \ {0}
  BY EmptySeq
<1>2. /\ Tail(s) \in Seq(S) /\ Len(Tail(s)) = n - 1 /\ \A i \in 1..(n - 1) : Tail(s)[i] = s[i + 1]
  BY HeadTailProperties
<1> HIDE DEF u
<1>3. u # <<>>
  BY <1>1
<1>4. /\ Tail(u) \in Seq(S) /\ Len(Tail(u)) = n /\ \A i \in 1..n : Tail(u)[i] = u[i + 1]
  BY <1>1, <1>3, HeadTailProperties
<1>5. ToSet(Tail(s)) = {Tail(s)[i] : i \in 1..(n - 1)} /\ ToSet(Tail(u)) = {Tail(u)[i] : i \in 1..n}
  BY <1>2, <1>4, ToSetOfSeq
<1>6. ASSUME NEW i \in 1..n PROVE Tail(u)[i] \in ToSet(Tail(s)) \cup {e}
  <2>1. CASE i = n
    BY <1>1, <1>4, <2>1
  <2>2. CASE i # n
    <3>1. i \in 1..(n - 1) /\ i + 1 \in 1..n
      BY <1>1, <2>2
    <3>2. Tail(u)[i] = Tail(s)[i]
      BY <1>1, <1>2, <1>4, <3>1
    <3> QED
      BY <1>5, <3>1, <3>2
  <2> QED
    BY <2>1, <2>2
<1> QED
  BY <1>1, <1>5, <1>6 DEF u

\* The first character of what is undone at once.
LEMMA FirstTyped ==
    ASSUME EditorInv, NEW char \in Plain, Insert(<<char>>), pushUndoSnapshot
    PROVE  WordTyped(Last(undoStack))'
<1>1. EditorTypes /\ UndoInv
  BY DEF EditorInv
<1>2. <<char>> \in Seq(Glyphs) /\ Len(<<char>>) = 1
  BY PlainTexts
<1>3. /\ text' = (Before \o <<char>>) \o Behind /\ cursor' = cursor + Len(<<char>>)
      /\ SubSeq(text', cursor + 1, cursor + Len(<<char>>)) = <<char>>
  BY <1>1, <1>2, Inserted
<1>4. Last(undoStack') = Snapshot /\ Snapshot.text = text /\ Snapshot.cursor = cursor
  BY <1>1, Pushed, SnapshotTypes
<1>5. cursor' = cursor + 1 /\ SubSeq(text', cursor + 1, cursor') = <<char>> /\ cursor < cursor'
  BY <1>1, <1>2, <1>3, TextParts
<1>6. Tail(<<char>>) = <<>> /\ Space \notin ToSet(<<>>)
  BY PlainTexts
<1>7. text' = SubSeq(text, 1, cursor) \o SubSeq(text', cursor + 1, cursor') \o SubSeq(text, cursor + 1, Len(text))
  BY <1>3, <1>5 DEF Before, Behind
<1>8. Space \notin ToSet(Tail(SubSeq(text', cursor + 1, cursor')))
  BY <1>5, <1>6
<1> DEFINE last == Snapshot
<1>9. /\ last.cursor < cursor'
      /\ Space \notin ToSet(Tail(SubSeq(text', last.cursor + 1, cursor')))
      /\ text' = SubSeq(last.text, 1, last.cursor) \o SubSeq(text', last.cursor + 1, cursor')
                 \o SubSeq(last.text, last.cursor + 1, Len(last.text))
  BY <1>4, <1>5, <1>7, <1>8
<1> HIDE DEF last
<1> QED
  BY <1>4, <1>9 DEF WordTyped, last

\* One more character of it.
LEMMA NextTyped ==
    ASSUME EditorInv, NEW char \in Plain, char # Space, Insert(<<char>>), lastAction = "type-word",
           undoStack' = undoStack
    PROVE  undoStack # <<>> /\ WordTyped(Last(undoStack))'
<1> DEFINE last == Last(undoStack)
           a == SubSeq(last.text, 1, last.cursor)
           t == SubSeq(text, last.cursor + 1, cursor)
           b == SubSeq(last.text, last.cursor + 1, Len(last.text))
           u == t \o <<char>>
<1>1. EditorTypes /\ UndoInv
  BY DEF EditorInv
<1>2. undoStack # <<>> /\ WordTyped(last)
  BY <1>1 DEF UndoInv
<1>3. undoStack \in Seq(Snapshots)
  BY <1>1 DEF EditorTypes
<1>4. last \in Snapshots
  BY <1>2, <1>3, FrontLast
<1>5. last.text \in Seq(Glyphs) /\ last.cursor \in 0..Len(last.text) /\ last.cursor \in Nat
  BY <1>1, <1>4, SnapshotTypes
<1> HIDE DEF last
<1>6. last.cursor < cursor /\ Space \notin ToSet(Tail(t)) /\ text = (a \o t) \o b
  BY <1>2 DEF WordTyped
<1>7. text \in Seq(Glyphs) /\ Len(text) \in Nat /\ cursor \in Nat /\ cursor <= Len(text)
  BY <1>1, TextParts
<1>8. a \in Seq(Glyphs) /\ Len(a) = last.cursor /\ b \in Seq(Glyphs)
  BY <1>5, HalvesJoin
<1>9. t \in Seq(Glyphs) /\ Len(t) = cursor - last.cursor
  <2>1. last.cursor \in 0..Len(text) /\ cursor \in last.cursor..Len(text)
    BY <1>5, <1>6, <1>7
  <2> QED
    BY <1>7, <2>1, PartOf
<1>10. t # <<>>
  <2>1. Len(t) # 0
    BY <1>5, <1>6, <1>7, <1>9
  <2> HIDE DEF t
  <2> QED
    BY <2>1
<1>11. <<char>> \in Seq(Glyphs) /\ Len(<<char>>) = 1 /\ char \in Glyphs
  BY PlainTexts, PlainHasNone
<1> HIDE DEF a, b, t
<1>12. u \in Seq(Glyphs) /\ Len(u) = Len(t) + 1 /\ ToSet(Tail(u)) \subseteq ToSet(Tail(t)) \cup {char}
  BY <1>9, <1>10, <1>11, TailTyped
<1>13. JoinedThree(Glyphs, a, t, b)
  BY <1>8, <1>9, JoinThree
<1>14. /\ Len(text) = Len(a) + Len(t) + Len(b) /\ SubSeq(text, 1, Len(a) + Len(t)) = a \o t
       /\ SubSeq(text, (Len(a) + Len(t)) + 1, (Len(a) + Len(t)) + Len(b)) = b
  BY <1>6, <1>13 DEF JoinedThree
<1>15. Len(b) \in Nat /\ Len(a) + Len(t) = cursor /\ cursor + Len(b) = Len(text)
  <2>1. Len(b) \in Nat
    BY <1>8
  <2>2. Len(a) + Len(t) = cursor
    <3>1. last.cursor \in Nat /\ cursor \in Nat /\ Len(a) = last.cursor /\ Len(t) = cursor - last.cursor
      BY <1>5, <1>7, <1>8, <1>9
    <3> QED
      BY <3>1
  <2>3. Len(text) = Len(a) + Len(t) + Len(b)
    BY <1>14
  <2> QED
    BY <2>1, <2>2, <2>3
<1>16. Before = a \o t /\ Behind = b
  BY <1>14, <1>15 DEF Before, Behind
<1>17. text' = (Before \o <<char>>) \o Behind /\ cursor' = cursor + 1
  <2>1. text' = (Before \o <<char>>) \o Behind /\ cursor' = cursor + Len(<<char>>)
    BY <1>1, <1>11, Inserted
  <2> QED
    BY <1>11, <2>1
<1>18. (a \o t) \o <<char>> = a \o u
  BY <1>8, <1>9, <1>11, ConcatAssociative
<1>19. text' = (a \o u) \o b
  BY <1>16, <1>17, <1>18
<1> HIDE DEF u
<1>20. JoinedThree(Glyphs, a, u, b)
  BY <1>8, <1>12, JoinThree
<1>21. SubSeq(text', Len(a) + 1, Len(a) + Len(u)) = u
  BY <1>19, <1>20 DEF JoinedThree
<1>22. Len(a) + Len(u) = cursor' /\ last.cursor < cursor'
  <2>1. last.cursor \in Nat /\ cursor \in Nat /\ Len(a) = last.cursor /\ Len(t) = cursor - last.cursor
    BY <1>5, <1>7, <1>8, <1>9
  <2>2. Len(u) = Len(t) + 1 /\ cursor' = cursor + 1 /\ last.cursor < cursor
    BY <1>6, <1>12, <1>17
  <2> QED
    BY <2>1, <2>2
<1>23. SubSeq(text', last.cursor + 1, cursor') = u
  BY <1>8, <1>21, <1>22
<1>24. Space \notin ToSet(Tail(SubSeq(text', last.cursor + 1, cursor')))
  BY <1>6, <1>12, <1>23
<1>25. text' = SubSeq(last.text, 1, last.cursor) \o SubSeq(text', last.cursor + 1, cursor')
               \o SubSeq(last.text, last.cursor + 1, Len(last.text))
  BY <1>19, <1>23 DEF a, b
<1>26. Last(undoStack') = last
  BY DEF last
<1> QED
  BY <1>2, <1>22, <1>24, <1>25, <1>26 DEF WordTyped

LEMMA InsertCharacterKeeps ==
    ASSUME EditorInv, NEW char \in {Letter, Space}, InsertCharacter(char)
    PROVE  EditorInv'
<1>1. EditorTypes /\ UndoInv /\ PasteInv
  BY DEF EditorInv
<1>2. char \in Plain
  BY DEF Plain
<1>3. /\ Insert(<<char>>) /\ lastAction' = "type-word" /\ historyIndex' = 0
      /\ UNCHANGED <<killRing, history, pastes, pasted, whole>>
  BY DEF InsertCharacter
<1>4. <<char>> \in Seq(Glyphs) /\ ToSet(<<char>>) = {char}
  BY <1>2, PlainTexts
<1>5. text' \in Prompts /\ cursor' \in 0..Len(text') /\ ToSet(text') = ToSet(text) \cup {char}
  BY <1>1, <1>3, <1>4, Inserted
<1>6. /\ undoStack' \in Seq(Snapshots) /\ undoStack' # <<>> /\ undoStack'[1].text = <<>>
      /\ Recorded' \subseteq Recorded \cup ToSet(text) /\ WordTyped(Last(undoStack))'
  <2>1. CASE Coalesced(char)
    <3>1. undoStack' = undoStack /\ char # Space /\ lastAction = "type-word"
      BY <2>1 DEF InsertCharacter, Coalesced
    <3>2. undoStack # <<>> /\ WordTyped(Last(undoStack))'
      BY <1>2, <1>3, <3>1, NextTyped
    <3> QED
      BY <1>1, <3>1, <3>2 DEF UndoInv, Recorded, EditorTypes
  <2>2. CASE ~Coalesced(char)
    <3>1. pushUndoSnapshot
      BY <2>2 DEF InsertCharacter
    <3>2. WordTyped(Last(undoStack))'
      BY <1>2, <1>3, <3>1, FirstTyped
    <3> QED
      BY <1>1, <3>1, <3>2, Pushed
  <2> QED
    BY <2>1, <2>2
<1>7. EditorTypes'
  BY <1>1, <1>3, <1>5, <1>6 DEF EditorTypes
<1>8. UndoInv'
  BY <1>6 DEF UndoInv
<1>9. PasteInv'
  <2>1. Saved' = Saved
    BY <1>3 DEF Saved
  <2>2. Written' \subseteq Written \cup Saved \cup Plain
    BY <1>2, <1>5, <1>6 DEF Written
  <2> QED
    BY <1>1, <1>3, <2>1, <2>2, PastesKept
<1> QED
  BY <1>3, <1>7, <1>8, <1>9, RingIdle DEF EditorInv

LEMMA PasteLargeKeeps ==
    ASSUME EditorInv, PasteLarge
    PROVE  EditorInv'
<1> DEFINE id == Len(pastes) + 1  chars == Marker(id, pasted + 1)
<1>1. EditorTypes /\ UndoInv /\ PasteInv
  BY DEF EditorInv
<1>2. pasted \in 0..MaxPastes /\ pastes \in Seq(1..pasted) /\ Len(pastes) <= pasted /\ pasted \in Nat
  BY <1>1 DEF PasteInv
<1>3. Cardinality(DOMAIN pastes) = Len(pastes) /\ Len(pastes) \in Nat /\ DOMAIN pastes = 1..Len(pastes)
  <2>1. DOMAIN pastes = 1..Len(pastes) /\ Len(pastes) \in Nat
    BY <1>2
  <2>2. Cardinality(1..Len(pastes)) = IF 1 > Len(pastes) THEN 0 ELSE Len(pastes) - 1 + 1
    BY <2>1, FS_Interval
  <2> QED
    BY <2>1, <2>2
<1>4. /\ pasted < MaxPastes /\ Edit /\ Insert(chars) /\ pasted' = pasted + 1
      /\ pastes' = [i \in 1..id |-> IF i = id THEN pasted' ELSE pastes[i]]
  BY <1>3, Zenon DEF PasteLarge
<1>5. /\ pushUndoSnapshot /\ lastAction' = "none" /\ historyIndex' = 0
      /\ UNCHANGED <<killRing, history, whole>>
  BY <1>4 DEF Edit
<1>6. id \in 1..MaxPastes /\ pasted + 1 \in 1..MaxPastes /\ pasted + 1 \in 0..MaxPastes
  BY <1>2, <1>3, <1>4, EditorAssumption
<1>7. chars \in Seq(Glyphs) /\ ToSet(chars) = {Character("[", id, pasted + 1), Character("]", id, pasted + 1)}
  BY <1>6, PlainHasNone
<1> HIDE DEF chars
<1>8. text' \in Prompts /\ cursor' \in 0..Len(text') /\ ToSet(text') = ToSet(text) \cup ToSet(chars)
  BY <1>1, <1>4, <1>7, Inserted
<1>9. /\ undoStack' \in Seq(Snapshots) /\ undoStack' # <<>> /\ undoStack'[1].text = <<>>
      /\ Recorded' = Recorded \cup ToSet(text)
  BY <1>1, <1>5, Pushed
<1>10. EditorTypes'
  BY <1>1, <1>5, <1>8, <1>9 DEF EditorTypes
<1>11. UndoInv'
  BY <1>5, <1>9 DEF UndoInv
<1>12. /\ Written' \subseteq Written \cup ToSet(chars) /\ Saved' = Saved
  BY <1>5, <1>8, <1>9 DEF Written, Saved
<1>13. /\ pastes' \in Seq(1..(pasted + 1)) /\ Len(pastes') = id /\ DOMAIN pastes' = 1..id
       /\ pastes'[id] = pasted + 1 /\ \A i \in 1..Len(pastes) : pastes'[i] = pastes[i]
  <2>1. \A i \in 1..Len(pastes) : pastes[i] \in 1..pasted
    BY <1>2
  <2>2. \A i \in 1..id : (IF i = id THEN pasted + 1 ELSE pastes[i]) \in 1..(pasted + 1)
    BY <1>2, <1>3, <2>1
  <2>3. pastes' = [i \in 1..id |-> IF i = id THEN pasted + 1 ELSE pastes[i]] /\ id \in Nat
    BY <1>3, <1>4
  <2> QED
    BY <1>3, <2>2, <2>3
<1>14. \A i \in 1..id : i = id \/ i \in 1..Len(pastes)
  BY <1>3
<1>15. \A char \in ToSet(chars) : char.paste = pasted + 1 /\ char.shows = id
  BY <1>7 DEF Character
<1>16. \A char \in Written \cup Saved :
          char.paste <= pasted /\ \A i \in DOMAIN pastes : pastes[i] = char.paste => char.shows = i
  BY <1>1 DEF PasteInv
<1>17. Written \subseteq Glyphs /\ Saved \subseteq Glyphs
  BY <1>1, WrittenTypes
<1>18. \A char \in Written \cup Saved : char.paste \in Nat
  BY <1>17, PlainHasNone
<1>19. ASSUME NEW char \in Written' \cup Saved'
       PROVE  char.paste <= pasted + 1 /\ \A i \in 1..id : pastes'[i] = char.paste => char.shows = i
  <2>1. CASE char \in ToSet(chars)
    <3>1. \A i \in 1..Len(pastes) : pastes[i] # pasted + 1
      BY <1>2
    <3> QED
      BY <1>2, <1>13, <1>14, <1>15, <2>1, <3>1
  <2>2. CASE char \in Written \cup Saved
    <3>1. char.paste <= pasted /\ char.paste \in Nat
      BY <1>16, <1>18, <2>2
    <3>2. char.paste <= pasted + 1 /\ char.paste # pasted + 1
      BY <1>2, <3>1
    <3>3. \A i \in 1..Len(pastes) : pastes[i] = char.paste => char.shows = i
      BY <1>3, <1>16, <2>2
    <3> QED
      BY <1>13, <1>14, <3>2, <3>3
  <2> QED
    BY <1>12, <2>1, <2>2
<1>20. Range(pastes') = Range(pastes) \cup {pasted + 1}
  <2>1. Range(pastes') = {pastes'[i] : i \in 1..id} /\ Range(pastes) = {pastes[i] : i \in 1..Len(pastes)}
    BY <1>3, <1>13 DEF Range
  <2>2. 1..id = 1..Len(pastes) \cup {id}
    BY <1>3
  <2> QED
    BY <1>13, <2>1, <2>2
<1>21. (\E char \in Written' : char.paste \notin Range(pastes') \cup {0}) =>
           \E char \in Saved' : char.paste \notin Range(pastes') \cup {0}
  <2> SUFFICES ASSUME NEW char \in Written', char.paste \notin Range(pastes') \cup {0}
               PROVE  \E other \in Saved' : other.paste \notin Range(pastes') \cup {0}
    OBVIOUS
  <2>1. char \notin ToSet(chars)
    BY <1>15, <1>20
  <2>2. char \in Written /\ char.paste \notin Range(pastes) \cup {0}
    BY <1>12, <1>20, <2>1
  <2>3. Stale(Written)
    BY <2>2 DEF Stale
  <2>4. PICK other \in Saved : other.paste \notin Range(pastes) \cup {0}
    BY <1>1, <2>3 DEF PasteInv, Stale
  <2>5. other.paste # pasted + 1
    BY <1>2, <1>16, <1>18
  <2> QED
    BY <1>12, <1>20, <2>4, <2>5
<1>22. PasteInv'
  <2>1. pasted' \in 0..MaxPastes /\ pastes' \in Seq(1..pasted') /\ Len(pastes') <= pasted'
    BY <1>2, <1>3, <1>4, <1>6, <1>13
  <2>2. \A char \in Written' \cup Saved' :
            /\ char.paste <= pasted'
            /\ \A i \in DOMAIN pastes' : pastes'[i] = char.paste => char.shows = i
    BY <1>4, <1>13, <1>19
  <2>3. (Stale(Written))' => (Stale(Saved))'
    BY <1>21 DEF Stale
  <2> QED
    BY <2>1, <2>2, <2>3 DEF PasteInv
<1> QED
  BY <1>5, <1>10, <1>11, <1>22, RingIdle DEF EditorInv

-------------------------------------------------------------------------------
(* The kill ring. *)

LEMMA LastIn ==
    ASSUME NEW S, NEW s \in Seq(S), s # <<>>
    PROVE  /\ Last(s) \in S /\ ToSet(s) = ToSet(Front(s)) \cup {Last(s)} /\ Front(s) \in Seq(S)
<1> DEFINE n == Len(s)
<1>1. /\ Front(s) \in Seq(S) /\ Len(Front(s)) = n - 1 /\ Last(s) \in S
      /\ \A i \in 1..(n - 1) : Front(s)[i] = s[i]
  BY FrontLast
<1>2. n \in Nat \ {0} /\ Last(s) = s[n]
  BY EmptySeq DEF Last
<1>3. ToSet(s) = {s[i] : i \in 1..n}
  BY ToSetOfSeq
<1>4. ToSet(Front(s)) = {Front(s)[i] : i \in 1..(n - 1)}
  BY <1>1, ToSetOfSeq
<1>5. 1..n = 1..(n - 1) \cup {n}
  BY <1>2
<1>6. ToSet(Front(s)) = {s[i] : i \in 1..(n - 1)}
  BY <1>1, <1>4
<1> QED
  BY <1>1, <1>2, <1>3, <1>5, <1>6

LEMMA Appended ==
    ASSUME NEW S, NEW s \in Seq(S), NEW e \in S
    PROVE  /\ Append(s, e) \in Seq(S) /\ Append(s, e) # <<>> /\ Last(Append(s, e)) = e
           /\ ToSet(Append(s, e)) = ToSet(s) \cup {e}
<1> DEFINE u == Append(s, e)  n == Len(s)
<1>1. /\ u \in Seq(S) /\ Len(u) = n + 1 /\ u[n + 1] = e /\ n \in Nat
      /\ \A i \in 1..n : u[i] = s[i]
  BY AppendProperties
<1> HIDE DEF u
<1>2. u # <<>>
  BY <1>1, EmptySeq
<1>3. Last(u) = e
  BY <1>1 DEF Last
<1>4. ToSet(u) = {u[i] : i \in 1..(n + 1)}
  BY <1>1, ToSetOfSeq
<1>5. ToSet(s) = {s[i] : i \in 1..n}
  BY ToSetOfSeq
<1>6. 1..(n + 1) = 1..n \cup {n + 1}
  BY <1>1
<1>7. ToSet(s) = {u[i] : i \in 1..n}
  BY <1>1, <1>5
<1>8. ToSet(u) = ToSet(s) \cup {e}
  BY <1>1, <1>4, <1>6, <1>7
<1> QED
  BY <1>1, <1>2, <1>3, <1>8 DEF u

LEMMA CharactersJoin ==
    ASSUME NEW K, NEW L
    PROVE  Characters(K \cup L) = Characters(K) \cup Characters(L)
BY DEF Characters

LEMMA CharactersMore ==
    ASSUME NEW K, NEW chars
    PROVE  Characters(K \cup {chars}) = Characters(K) \cup ToSet(chars)
BY DEF Characters

LEMMA Regroup ==
    ASSUME NEW p \in Seq(Glyphs), NEW q \in Seq(Glyphs), NEW r \in Seq(Glyphs)
    PROVE  (p \o q) \o r = p \o (q \o r)
BY ConcatAssociative

\* What a kill adds to the ring, between what it leaves, makes what was there.
LEMMA KillJoins ==
    ASSUME EditorInv, NEW from \in 0..Len(text), NEW to \in from..Len(text), from < to,
           NEW prepend \in BOOLEAN,
           IF prepend THEN to = cursor ELSE from = cursor
    PROVE  LET ring == Accumulated(SubSeq(text, from + 1, to), prepend)
           IN  /\ ring \in Seq(Seq(Glyphs) \ {<<>>}) /\ ring # <<>>
               /\ (SubSeq(text, 1, from) \o Last(ring)) \o SubSeq(text, to + 1, Len(text))
                      = IF lastAction = "kill" THEN whole ELSE text
               /\ Characters(ToSet(ring)) = Characters(ToSet(killRing)) \cup ToSet(SubSeq(text, from + 1, to))
<1> DEFINE p == SubSeq(text, 1, from)
           x == SubSeq(text, from + 1, to)
           r == SubSeq(text, to + 1, Len(text))
           E == Seq(Glyphs) \ {<<>>}
           ring == Accumulated(x, prepend)
           l == Last(killRing)
           f == Front(killRing)
<1>1. EditorTypes /\ RingInv
  BY DEF EditorInv
<1>2. text \in Seq(Glyphs) /\ Len(text) \in Nat /\ cursor \in Nat /\ killRing \in Seq(E) /\ to \in 0..Len(text)
      /\ from \in Nat /\ to \in Nat
  BY <1>1, TextParts DEF EditorTypes
<1>3. p \in Seq(Glyphs) /\ r \in Seq(Glyphs)
  BY <1>2, HalvesJoin
<1>4. x \in Seq(Glyphs) /\ Len(x) = to - from
  BY <1>2, PartOf
<1>5. x \in E
  <2>1. Len(x) # 0
    BY <1>2, <1>4
  <2> HIDE DEF x
  <2> QED
    BY <1>4, <2>1
<1>6. p \o x = SubSeq(text, 1, to)
  <2>1. 0 \in 0..Len(text) /\ from \in 0..Len(text) /\ to \in from..Len(text) /\ 0 + 1 = 1
    BY <1>2
  <2>2. SubSeq(text, 0 + 1, from) \o SubSeq(text, from + 1, to) = SubSeq(text, 0 + 1, to)
    BY <1>2, <2>1, PartsJoin
  <2> QED
    BY <2>1, <2>2
<1>7. x \o r = SubSeq(text, from + 1, Len(text))
  <2>1. Len(text) \in to..Len(text)
    BY <1>2
  <2> QED
    BY <1>2, <2>1, PartsJoin
<1>8. (p \o x) \o r = text
  BY <1>2, <1>6, HalvesJoin
<1> HIDE DEF p, x, r
<1>9. CASE lastAction # "kill"
  <2>1. ring = Append(killRing, x)
    BY <1>9 DEF Accumulated
  <2> HIDE DEF E
  <2>2. /\ Append(killRing, x) \in Seq(E) /\ Append(killRing, x) # <<>> /\ Last(Append(killRing, x)) = x
        /\ ToSet(Append(killRing, x)) = ToSet(killRing) \cup {x}
    BY <1>2, <1>5, Appended
  <2> HIDE DEF ring
  <2>3. ring \in Seq(E) /\ ring # <<>> /\ Last(ring) = x /\ ToSet(ring) = ToSet(killRing) \cup {x}
    BY <2>1, <2>2
  <2>4. (p \o Last(ring)) \o r = IF lastAction = "kill" THEN whole ELSE text
    BY <1>8, <1>9, <2>3
  <2>5. Characters(ToSet(ring)) = Characters(ToSet(killRing)) \cup ToSet(x)
    <3>1. Characters(ToSet(killRing) \cup {x}) = Characters(ToSet(killRing)) \cup ToSet(x)
      BY CharactersMore
    <3> QED
      BY <2>3, <3>1
  <2> QED
    BY <2>3, <2>4, <2>5 DEF ring, E, p, x, r
<1>10. CASE lastAction = "kill"
  <2>1. killRing # <<>> /\ (Before \o l) \o Behind = whole
    BY <1>1, <1>10 DEF RingInv, KillRingTrue
  <2>2. l \in E /\ f \in Seq(E) /\ ToSet(killRing) = ToSet(f) \cup {l}
    <3> HIDE DEF E
    <3> QED
      BY <1>2, <2>1, LastIn
  <2>3. Before = SubSeq(text, 1, cursor) /\ Behind = SubSeq(text, cursor + 1, Len(text))
    BY DEF Before, Behind
  <2> DEFINE y == IF prepend THEN x \o l ELSE l \o x
  <2>4. ring = Append(f, y)
    BY <1>10, <2>1 DEF Accumulated
  <2> HIDE DEF l, f
  <2>5. /\ y \in Seq(Glyphs) /\ Len(y) = Len(x) + Len(l) /\ ToSet(y) = ToSet(x) \cup ToSet(l)
        /\ (p \o y) \o r = (Before \o l) \o Behind
    <3>1. x \in Seq(Glyphs) /\ l \in Seq(Glyphs) /\ Before \in Seq(Glyphs) /\ Behind \in Seq(Glyphs)
          /\ Len(x) \in Nat /\ Len(l) \in Nat
      BY <1>1, <1>4, <2>2, TextParts
    <3>2. CASE prepend = TRUE
      <4>1. y = x \o l /\ to = cursor
        BY <3>2, Zenon
      <4>2. /\ x \o l \in Seq(Glyphs) /\ Len(x \o l) = Len(x) + Len(l)
            /\ ToSet(x \o l) = ToSet(x) \cup ToSet(l)
        BY <3>1, JoinHalves
      <4>3. Before = p \o x /\ Behind = r
        BY <1>6, <2>3, <4>1 DEF r
      <4>4. p \o (x \o l) = (p \o x) \o l
        BY <1>3, <3>1, Regroup
      <4>5. (p \o y) \o r = (Before \o l) \o Behind
        BY <4>1, <4>3, <4>4, Zenon
      <4> HIDE DEF y
      <4> QED
        BY <4>1, <4>2, <4>5
    <3>3. CASE prepend = FALSE
      <4>1. y = l \o x /\ from = cursor
        BY <3>3, Zenon
      <4>2. /\ l \o x \in Seq(Glyphs) /\ Len(l \o x) = Len(l) + Len(x)
            /\ ToSet(l \o x) = ToSet(l) \cup ToSet(x)
        BY <3>1, JoinHalves
      <4>3. Before = p /\ Behind = x \o r
        BY <1>7, <2>3, <4>1 DEF p
      <4>4. p \o (l \o x) = (p \o l) \o x
        BY <1>3, <3>1, Regroup
      <4>5. ((p \o l) \o x) \o r = (p \o l) \o (x \o r)
        <5>1. p \o l \in Seq(Glyphs)
          BY <1>3, <3>1, JoinHalves
        <5> QED
          BY <1>3, <3>1, <5>1, Regroup
      <4>6. (p \o y) \o r = (Before \o l) \o Behind
        BY <4>1, <4>3, <4>4, <4>5, Zenon
      <4> HIDE DEF y
      <4>7. Len(y) = Len(x) + Len(l) /\ ToSet(y) = ToSet(x) \cup ToSet(l)
        BY <3>1, <4>1, <4>2
      <4> QED
        BY <4>1, <4>2, <4>6, <4>7
    <3> QED
      BY <3>2, <3>3
  <2> HIDE DEF y
  <2>6. y \in E
    <3>1. Len(y) # 0
      BY <1>2, <1>4, <2>2, <2>5
    <3>2. y # <<>>
      BY <3>1
    <3> QED
      BY <2>5, <3>2
  <2> HIDE DEF E
  <2>7. /\ Append(f, y) \in Seq(E) /\ Append(f, y) # <<>> /\ Last(Append(f, y)) = y
        /\ ToSet(Append(f, y)) = ToSet(f) \cup {y}
    BY <2>2, <2>6, Appended
  <2> HIDE DEF ring
  <2>8. ring \in Seq(E) /\ ring # <<>> /\ Last(ring) = y /\ ToSet(ring) = ToSet(f) \cup {y}
    BY <2>4, <2>7
  <2>9. (p \o Last(ring)) \o r = IF lastAction = "kill" THEN whole ELSE text
    BY <1>10, <2>1, <2>5, <2>8 DEF l
  <2>10. Characters(ToSet(ring)) = Characters(ToSet(killRing)) \cup ToSet(x)
    <3>1. Characters(ToSet(ring)) = Characters(ToSet(f)) \cup ToSet(y)
      <4>1. Characters(ToSet(f) \cup {y}) = Characters(ToSet(f)) \cup ToSet(y)
        BY CharactersMore
      <4> QED
        BY <2>8, <4>1
    <3>2. Characters(ToSet(killRing)) = Characters(ToSet(f)) \cup ToSet(l)
      <4>1. Characters(ToSet(f) \cup {l}) = Characters(ToSet(f)) \cup ToSet(l)
        BY CharactersMore
      <4> QED
        BY <2>2, <4>1
    <3> QED
      BY <2>5, <3>1, <3>2
  <2> QED
    BY <2>8, <2>9, <2>10 DEF ring, E, p, x, r
<1> QED
  BY <1>9, <1>10

LEMMA KillKeeps ==
    ASSUME EditorInv, NEW from \in 0..Len(text), NEW to \in from..Len(text),
           NEW prepend \in BOOLEAN, IF prepend THEN to = cursor ELSE from = cursor,
           Kill(from, to, prepend)
    PROVE  EditorInv'
<1> DEFINE p == SubSeq(text, 1, from)
           x == SubSeq(text, from + 1, to)
           r == SubSeq(text, to + 1, Len(text))
<1>1. EditorTypes /\ UndoInv /\ PasteInv
  BY DEF EditorInv
<1>2. /\ from < to /\ pushUndoSnapshot /\ killRing' = Accumulated(x, prepend) /\ Take(from, to)
      /\ lastAction' = "kill" /\ historyIndex' = 0
      /\ whole' = (IF lastAction = "kill" THEN whole ELSE text)
      /\ UNCHANGED <<history, pastes, pasted>>
  BY DEF Kill
<1>3. /\ killRing' \in Seq(Seq(Glyphs) \ {<<>>}) /\ killRing' # <<>>
      /\ (p \o Last(killRing')) \o r = whole'
      /\ Characters(ToSet(killRing')) = Characters(ToSet(killRing)) \cup ToSet(x)
  BY <1>2, KillJoins
<1>4. /\ text' \in Prompts /\ cursor' \in 0..Len(text') /\ ToSet(text') \subseteq ToSet(text)
      /\ Before' = p /\ Behind' = r
  BY <1>1, <1>2, TakenOut
<1>5. ToSet(x) \subseteq ToSet(text)
  <2>1. text \in Seq(Glyphs)
    BY <1>1, TextParts
  <2> QED
    BY <2>1, PartOf
<1>6. /\ undoStack' \in Seq(Snapshots) /\ undoStack' # <<>> /\ undoStack'[1].text = <<>>
      /\ Recorded' = Recorded \cup ToSet(text)
  BY <1>1, <1>2, Pushed
<1>7. whole' \in Seq(Glyphs)
  BY <1>1, <1>2, TextParts DEF EditorTypes
<1>8. EditorTypes'
  BY <1>1, <1>2, <1>3, <1>4, <1>6, <1>7 DEF EditorTypes
<1>9. UndoInv'
  BY <1>2, <1>6 DEF UndoInv
<1>10. RingInv'
  <2>1. (Before \o Last(killRing) \o Behind)' = whole'
    BY <1>3, <1>4
  <2> QED
    BY <1>2, <1>3, <2>1 DEF RingInv, KillRingTrue
<1>11. PasteInv'
  <2> HIDE DEF x
  <2>1. Saved \subseteq Saved' /\ Saved' \subseteq Saved \cup ToSet(x)
    <3>1. Saved = Characters(ToSet(killRing)) \cup Characters(ToSet(history))
      BY CharactersJoin DEF Saved
    <3>2. Saved' = Characters(ToSet(killRing')) \cup Characters(ToSet(history))
      BY <1>2, CharactersJoin DEF Saved
    <3> QED
      BY <1>3, <3>1, <3>2
  <2>2. Written' \subseteq Written /\ ToSet(x) \subseteq Written
    BY <1>4, <1>5, <1>6 DEF Written
  <2> QED
    BY <1>1, <1>2, <2>1, <2>2, PastesKept
<1> QED
  BY <1>8, <1>9, <1>10, <1>11 DEF EditorInv

LEMMA KillsKeep ==
    ASSUME EditorInv, DeleteToLineStart \/ DeleteToLineEnd \/ DeleteWordBackwards \/ DeleteWordForward
    PROVE  EditorInv'
<1>1. /\ text \in Seq(Glyphs) /\ Len(text) \in Nat /\ cursor \in Nat /\ cursor <= Len(text)
      /\ cursor \in 0..Len(text)
  BY TextParts DEF EditorInv
<1>2. /\ LineStart \in 0..cursor /\ WordStart \in 0..cursor /\ Max({0, cursor - 1}) \in 0..cursor
      /\ LineStop \in cursor..Len(text) /\ WordStop \in cursor..Len(text)
      /\ Min({Len(text), cursor + 1}) \in cursor..Len(text)
  BY <1>1, PlacesAround
<1>3. ASSUME NEW from \in 0..cursor, Kill(from, cursor, TRUE) PROVE EditorInv'
  <2>1. from \in 0..Len(text) /\ cursor \in from..Len(text)
    BY <1>1
  <2>2. IF TRUE THEN cursor = cursor ELSE from = cursor
    OBVIOUS
  <2> QED
    BY <1>3, <2>1, <2>2, KillKeeps
<1>4. ASSUME NEW to \in cursor..Len(text), Kill(cursor, to, FALSE) PROVE EditorInv'
  <2>1. IF FALSE THEN to = cursor ELSE cursor = cursor
    OBVIOUS
  <2> QED
    BY <1>1, <1>4, <2>1, KillKeeps
<1>5. CASE DeleteToLineStart
  <2> DEFINE from == IF cursor > LineStart THEN LineStart ELSE Max({0, cursor - 1})
  <2>1. from \in 0..cursor /\ Kill(from, cursor, TRUE)
    BY <1>2, <1>5 DEF DeleteToLineStart
  <2> HIDE DEF from
  <2> QED
    BY <1>3, <2>1
<1>6. CASE DeleteToLineEnd
  <2> DEFINE to == IF cursor < LineStop THEN LineStop ELSE Min({Len(text), cursor + 1})
  <2>1. to \in cursor..Len(text) /\ Kill(cursor, to, FALSE)
    BY <1>2, <1>6 DEF DeleteToLineEnd
  <2> HIDE DEF to
  <2> QED
    BY <1>4, <2>1
<1>7. CASE DeleteWordBackwards
  <2> DEFINE from == IF cursor > LineStart THEN WordStart ELSE Max({0, cursor - 1})
  <2>1. from \in 0..cursor /\ Kill(from, cursor, TRUE)
    BY <1>2, <1>7 DEF DeleteWordBackwards
  <2> HIDE DEF from
  <2> QED
    BY <1>3, <2>1
<1>8. CASE DeleteWordForward
  <2> DEFINE to == IF cursor < LineStop THEN WordStop ELSE Min({Len(text), cursor + 1})
  <2>1. to \in cursor..Len(text) /\ Kill(cursor, to, FALSE)
    BY <1>2, <1>8 DEF DeleteWordForward
  <2> HIDE DEF to
  <2> QED
    BY <1>4, <2>1
<1> QED
  BY <1>5, <1>6, <1>7, <1>8

\* What is yanked is from the ring, and stands before the cursor.
LEMMA YankKeeps ==
    ASSUME EditorInv, Yank
    PROVE  EditorInv'
<1> DEFINE chars == Last(killRing)
<1>1. EditorTypes /\ UndoInv /\ PasteInv
  BY DEF EditorInv
<1>2. /\ killRing # <<>> /\ pushUndoSnapshot /\ Insert(chars) /\ lastAction' = "yank" /\ historyIndex' = 0
      /\ UNCHANGED <<killRing, history, pastes, pasted, whole>>
  BY DEF Yank
<1>3. killRing \in Seq(Seq(Glyphs) \ {<<>>})
  BY <1>1 DEF EditorTypes
<1>4. chars \in Seq(Glyphs) \ {<<>>} /\ ToSet(killRing) = ToSet(Front(killRing)) \cup {chars}
  BY <1>2, <1>3, LastIn
<1>5. Last(killRing') = chars /\ killRing' = killRing
  BY <1>2
<1> HIDE DEF chars
<1>6. ToSet(chars) \subseteq Saved
  BY <1>4 DEF Saved, Characters
<1>7. /\ text' \in Prompts /\ cursor' \in 0..Len(text') /\ cursor' = cursor + Len(chars)
      /\ SubSeq(text', cursor + 1, cursor + Len(chars)) = chars
      /\ ToSet(text') = ToSet(text) \cup ToSet(chars)
  BY <1>1, <1>2, <1>4, Inserted
<1>8. /\ undoStack' \in Seq(Snapshots) /\ undoStack' # <<>> /\ undoStack'[1].text = <<>>
      /\ Recorded' = Recorded \cup ToSet(text)
  BY <1>1, <1>2, Pushed
<1>9. EditorTypes'
  BY <1>1, <1>2, <1>7, <1>8 DEF EditorTypes
<1>10. UndoInv'
  BY <1>2, <1>8 DEF UndoInv
<1>11. RingInv'
  <2>1. Len(chars) \in Nat /\ cursor \in Nat
    BY <1>1, <1>4, TextParts
  <2>2. Len(chars) <= cursor' /\ cursor' - Len(chars) = cursor
    BY <1>7, <2>1
  <2>3. SubSeq(text', cursor' - Len(chars) + 1, cursor') = chars
    BY <1>7, <2>2
  <2> QED
    BY <1>2, <1>5, <2>2, <2>3 DEF RingInv, KillRingTrue
<1>12. PasteInv'
  <2>1. Saved' = Saved
    BY <1>2 DEF Saved
  <2>2. Written' \subseteq Written \cup Saved \cup Plain
    BY <1>6, <1>7, <1>8 DEF Written
  <2> QED
    BY <1>1, <1>2, <2>1, <2>2, PastesKept
<1> QED
  BY <1>9, <1>10, <1>11, <1>12 DEF EditorInv

\* The ring turned by one has the same entries.
LEMMA RingTurned ==
    ASSUME EditorTypes, killRing # <<>>
    PROVE  /\ Rotated \in Seq(Seq(Glyphs) \ {<<>>}) /\ Rotated # <<>>
           /\ ToSet(Rotated) = ToSet(killRing)
           /\ Last(Rotated) \in Seq(Glyphs) \ {<<>>} /\ Last(Rotated) \in ToSet(killRing)
<1> DEFINE E == Seq(Glyphs) \ {<<>>}  l == Last(killRing)  f == Front(killRing)  u == <<l>> \o f
<1>1. killRing \in Seq(E)
  BY DEF EditorTypes
<1> HIDE DEF E
<1>2. l \in E /\ f \in Seq(E) /\ ToSet(killRing) = ToSet(f) \cup {l}
  BY <1>1, LastIn
<1> HIDE DEF l, f
<1>3. <<l>> \in Seq(E) /\ Len(<<l>>) = 1 /\ DOMAIN <<l>> = {1} /\ <<l>>[1] = l
  BY <1>2
<1>4. ToSet(<<l>>) = {l}
  BY <1>3 DEF ToSet
<1>5. u \in Seq(E) /\ Len(u) = 1 + Len(f) /\ ToSet(u) = {l} \cup ToSet(f)
  <2> DEFINE v == <<l>>
  <2>1. v \in Seq(E) /\ Len(v) = 1 /\ ToSet(v) = {l}
    BY <1>3, <1>4
  <2> HIDE DEF v
  <2>2. v \o f \in Seq(E) /\ Len(v \o f) = Len(v) + Len(f) /\ ToSet(v \o f) = ToSet(v) \cup ToSet(f)
    <3>1. v \in Seq(E) /\ f \in Seq(E)
      BY <1>2, <2>1
    <3> QED
      BY <3>1, JoinHalves
  <2> QED
    BY <2>1, <2>2 DEF v
<1>6. u = Rotated
  BY DEF Rotated, l, f
<1> HIDE DEF u
<1>7. u # <<>>
  <2>1. Len(f) \in Nat
    BY <1>2
  <2>2. Len(u) # 0
    BY <1>5, <2>1
  <2> QED
    BY <2>2
<1>8. Last(u) \in E /\ Last(u) \in ToSet(u)
  BY <1>5, <1>7, LastIn
<1>9. ToSet(u) = ToSet(killRing)
  BY <1>2, <1>5
<1>10. Rotated \in Seq(E) /\ Rotated # <<>> /\ ToSet(Rotated) = ToSet(killRing) /\ Last(Rotated) \in E
       /\ Last(Rotated) \in ToSet(killRing)
  BY <1>5, <1>6, <1>7, <1>8, <1>9
<1> QED
  BY <1>10 DEF E

LEMMA YankPopKeeps ==
    ASSUME EditorInv, YankPop
    PROVE  EditorInv'
<1> DEFINE from == cursor - Len(Last(killRing))
           chars == Last(Rotated)
           p == SubSeq(text, 1, from)
           r == Behind
<1>1. EditorTypes /\ UndoInv /\ RingInv /\ PasteInv
  BY DEF EditorInv
<1>2. /\ lastAction = "yank" /\ pushUndoSnapshot /\ killRing' = Rotated
      /\ text' = (p \o chars) \o r /\ Len(text') <= MaxText /\ cursor' = from + Len(chars)
      /\ historyIndex' = 0 /\ UNCHANGED <<lastAction, history, pastes, pasted, whole>>
  BY DEF YankPop
<1>3. killRing # <<>> /\ Len(Last(killRing)) <= cursor
  BY <1>1, <1>2 DEF RingInv
<1>4. /\ Rotated \in Seq(Seq(Glyphs) \ {<<>>}) /\ Rotated # <<>> /\ ToSet(Rotated) = ToSet(killRing)
      /\ chars \in Seq(Glyphs) /\ chars \in ToSet(killRing)
  BY <1>1, <1>3, RingTurned
<1>5. /\ text \in Seq(Glyphs) /\ Len(text) \in Nat /\ cursor \in Nat /\ cursor <= Len(text)
      /\ r \in Seq(Glyphs) /\ ToSet(r) \subseteq ToSet(text)
  BY <1>1, TextParts
<1>6. from \in Nat /\ from \in 0..Len(text)
  <2>1. killRing \in Seq(Seq(Glyphs) \ {<<>>})
    BY <1>1 DEF EditorTypes
  <2>2. Last(killRing) \in Seq(Glyphs) \ {<<>>}
    BY <1>3, <2>1, LastIn
  <2>3. Len(Last(killRing)) \in Nat
    BY <2>2
  <2> QED
    BY <1>3, <1>5, <2>3
<1>7. Last(killRing') = chars
  BY <1>2
<1> HIDE DEF from, chars, r
<1>8. p \in Seq(Glyphs) /\ Len(p) = from /\ ToSet(p) \subseteq ToSet(text)
  BY <1>5, <1>6, HalvesJoin
<1> HIDE DEF p
<1>9. JoinedThree(Glyphs, p, chars, r)
  BY <1>4, <1>5, <1>8, JoinThree
<1>10. /\ text' \in Seq(Glyphs) /\ Len(text') = Len(p) + Len(chars) + Len(r)
       /\ SubSeq(text', Len(p) + 1, Len(p) + Len(chars)) = chars
       /\ ToSet(text') = ToSet(p) \cup ToSet(chars) \cup ToSet(r)
  BY <1>2, <1>9 DEF JoinedThree
<1>11. Len(chars) \in Nat /\ Len(r) \in Nat /\ Len(p) + Len(chars) = cursor'
  BY <1>2, <1>4, <1>5, <1>8
<1>12. text' \in Prompts /\ cursor' \in 0..Len(text')
  <2>1. text' \in Prompts
    BY <1>2, <1>10 DEF Prompts
  <2>2. cursor' \in 0..Len(text')
    BY <1>6, <1>8, <1>10, <1>11
  <2> QED
    BY <2>1, <2>2
<1>13. /\ undoStack' \in Seq(Snapshots) /\ undoStack' # <<>> /\ undoStack'[1].text = <<>>
       /\ Recorded' = Recorded \cup ToSet(text)
  BY <1>1, <1>2, Pushed
<1>14. EditorTypes'
  BY <1>1, <1>2, <1>4, <1>12, <1>13 DEF EditorTypes
<1>15. UndoInv'
  BY <1>2, <1>13 DEF UndoInv
<1>16. RingInv'
  <2>1. Len(chars) <= cursor' /\ cursor' - Len(chars) = Len(p)
    BY <1>6, <1>8, <1>11
  <2>2. SubSeq(text', cursor' - Len(chars) + 1, cursor') = chars
    BY <1>10, <1>11, <2>1
  <2> QED
    BY <1>2, <1>4, <1>7, <2>1, <2>2 DEF RingInv, KillRingTrue
<1>17. PasteInv'
  <2>1. Saved' = Saved
    BY <1>2, <1>4 DEF Saved
  <2>2. ToSet(chars) \subseteq Saved
    BY <1>4 DEF Saved, Characters
  <2>3. Written' \subseteq Written \cup Saved \cup Plain
    BY <1>5, <1>8, <1>10, <1>13, <2>2 DEF Written
  <2> QED
    BY <1>1, <1>2, <2>1, <2>3, PastesKept
<1> QED
  BY <1>14, <1>15, <1>16, <1>17 DEF EditorInv

-------------------------------------------------------------------------------
(* Sending. *)

\* No list without repetition is longer than what it is made of.
LEMMA NoLonger ==
    ASSUME NEW n \in Nat, NEW s \in Seq(1..n), IsInjective(s)
    PROVE  Len(s) <= n
<1> DEFINE S == 1..Len(s)  T == 1..n
<1>1. Len(s) \in Nat /\ s \in [S -> T]
  OBVIOUS
<1>2. IsFiniteSet(T) /\ Cardinality(T) = n
  <2>1. IsFiniteSet(1..n) /\ Cardinality(1..n) = IF 1 > n THEN 0 ELSE n - 1 + 1
    BY FS_Interval
  <2> QED
    BY <2>1
<1>3. Cardinality(S) = Len(s)
  <2> DEFINE k == Len(s)
  <2>1. k \in Nat
    BY <1>1
  <2> HIDE DEF k
  <2>2. Cardinality(1..k) = IF 1 > k THEN 0 ELSE k - 1 + 1
    BY <2>1, FS_Interval
  <2>3. Cardinality(1..k) = k
    BY <2>1, <2>2
  <2> QED
    BY <2>3 DEF k
<1>4. s \in Injection(S, T)
  <2>1. \A a, b \in S : s[a] = s[b] => a = b
    BY <1>1 DEF IsInjective
  <2> QED
    BY <1>1, <2>1 DEF Injection, IsInjective
<1> HIDE DEF S, T
<1>5. Cardinality(S) <= Cardinality(T)
  BY <1>2, <1>4, FS_Injection
<1> QED
  BY <1>2, <1>3, <1>5

\* What is sent is no longer than the text, and is made of its characters.
LEMMA SubmittedType ==
    ASSUME EditorTypes
    PROVE  Submitted \in Prompts /\ ToSet(Submitted) \subseteq ToSet(text) \cup {Letter}
<1> DEFINE marked == {i \in DOMAIN text : Expansion(text, i) # 0}
           K == {i \in DOMAIN text : i - 1 \notin marked}
           kept == Selected([i \in DOMAIN text |-> i], K)
           chars == [k \in DOMAIN kept |-> IF kept[k] \in marked THEN Letter ELSE text[kept[k]]]
           inner == {i \in DOMAIN chars : chars[i] \notin {Space, LineEnd}}
           n == Len(text)
<1>1. text \in Seq(Glyphs) /\ n \in Nat /\ n <= MaxText /\ DOMAIN text = 1..n
  <2>1. text \in Seq(Glyphs) /\ n \in Nat /\ n <= MaxText
    BY TextParts
  <2> QED
    BY <2>1
<1>2. ToSet(text) = {text[i] : i \in 1..n}
  BY <1>1, ToSetOfSeq
<1>3. Submitted = IF inner = {} THEN <<>> ELSE SubSeq(chars, Min(inner), Max(inner))
  BY DEF Submitted
<1>4. kept \in Seq(1..n) /\ IsInjective(kept)
  <2> HIDE DEF K
  <2>1. kept = Selected([i \in 1..n |-> i], K)
    BY <1>1
  <2> HIDE DEF kept
  <2> QED
    BY <1>1, <2>1, NumbersSelected
<1> HIDE DEF kept, marked
<1>5. Len(kept) <= n /\ Len(kept) \in Nat
  BY <1>1, <1>4, NoLonger
<1>6. DOMAIN kept = 1..Len(kept) /\ \A k \in 1..Len(kept) : kept[k] \in 1..n
  BY <1>4
<1> DEFINE S == ToSet(text) \cup {Letter}  m == Len(kept)
<1>7. \A k \in 1..m : (IF kept[k] \in marked THEN Letter ELSE text[kept[k]]) \in S
  BY <1>2, <1>6
<1>8. S \subseteq Glyphs
  <2>1. Letter \in Glyphs /\ ToSet(text) \subseteq Glyphs
    BY <1>1, PlainTexts, PlainHasNone, ToSetOfSeq
  <2> QED
    BY <2>1
<1>9. chars \in Seq(S) /\ Len(chars) = m
  <2> HIDE DEF S
  <2>1. chars = [k \in 1..m |-> IF kept[k] \in marked THEN Letter ELSE text[kept[k]]]
    BY <1>6
  <2> QED
    BY <1>5, <1>7, <2>1
<1> HIDE DEF chars, S
<1>10. CASE inner = {}
  <2>1. Submitted = <<>>
    BY <1>3, <1>10
  <2> QED
    BY <2>1, PlainTexts
<1>11. CASE inner # {}
  <2>1. inner \in SUBSET (1..m) /\ m \in Nat
    BY <1>5, <1>9
  <2>2. Max(inner) \in inner
    <3> HIDE DEF inner
    <3> QED
      BY <1>11, <2>1, GreatestExists
  <2>3. Min(inner) \in inner /\ \A y \in inner : Min(inner) <= y
    <3> HIDE DEF inner, m
    <3>1. inner \in SUBSET Nat
      BY <2>1
    <3>2. PICK x \in inner : \A y \in inner : x <= y
      BY <1>11, <3>1, LeastExists
    <3> QED
      BY <3>2 DEF Min
  <2> DEFINE a == Min(inner) - 1  b == Max(inner)
  <2>4. a \in 0..m /\ b \in a..m /\ a + 1 = Min(inner) /\ b - a <= m
    <3> HIDE DEF inner, m
    <3>1. Min(inner) \in 1..m /\ Max(inner) \in 1..m /\ Min(inner) <= Max(inner)
      BY <2>1, <2>2, <2>3
    <3> QED
      BY <2>1, <3>1
  <2> HIDE DEF a, b, inner
  <2>5. SubSeq(chars, a + 1, b) \in Seq(S) /\ Len(SubSeq(chars, a + 1, b)) = b - a
    <3> HIDE DEF m
    <3>1. a \in 0..Len(chars) /\ b \in a..Len(chars)
      BY <1>9, <2>4
    <3> QED
      BY <1>9, <3>1, PartOf
  <2>6. Submitted = SubSeq(chars, a + 1, b)
    BY <1>3, <1>11, <2>4 DEF b
  <2>7. Submitted \in Seq(S) /\ Len(Submitted) <= MaxText
    <3>1. Len(Submitted) = b - a /\ b - a <= m /\ m <= n /\ n <= MaxText
      BY <1>1, <1>5, <2>4, <2>5, <2>6
    <3>2. a \in Int /\ b \in Int /\ m \in Nat /\ n \in Nat /\ MaxText \in Nat
      BY <1>1, <2>1, <2>4, EditorAssumption
    <3> HIDE DEF m, n
    <3>3. Len(Submitted) <= MaxText
      BY <3>1, <3>2
    <3> QED
      BY <2>5, <2>6, <3>3
  <2>8. ToSet(Submitted) \subseteq S
    BY <2>7, ToSetOfSeq
  <2>9. Submitted \in Seq(Glyphs)
    BY <1>8, <2>7
  <2> QED
    BY <2>7, <2>8, <2>9 DEF Prompts, S
<1> QED
  BY <1>10, <1>11

LEMMA SubmitKeeps ==
    ASSUME EditorInv, Submit
    PROVE  EditorInv'
<1>1. EditorTypes /\ PasteInv
  BY DEF EditorInv
<1>2. /\ text' = <<>> /\ cursor' = 0 /\ pastes' = <<>> /\ undoStack' = <<>> /\ lastAction' = "none"
      /\ historyIndex' = 0 /\ addToHistory(Submitted) /\ UNCHANGED <<killRing, pasted, whole>>
  BY DEF Submit, UndoCleared
<1>3. Submitted \in Prompts /\ ToSet(Submitted) \subseteq ToSet(text) \cup {Letter}
  BY <1>1, SubmittedType
<1> DEFINE chars == Submitted
<1>4. history' = history \/ history' = <<chars>> \o history
  BY <1>2 DEF addToHistory
<1> HIDE DEF chars
<1>5. history \in Seq(Prompts) /\ <<chars>> \in Seq(Prompts) /\ ToSet(<<chars>>) = {chars}
  <2>1. chars \in Prompts
    BY <1>3 DEF chars
  <2>2. <<chars>> \in Seq(Prompts) /\ DOMAIN <<chars>> = {1} /\ <<chars>>[1] = chars
    BY <2>1
  <2>3. ToSet(<<chars>>) = {chars}
    BY <2>2 DEF ToSet
  <2> QED
    BY <1>1, <2>2, <2>3 DEF EditorTypes
<1>6. <<chars>> \o history \in Seq(Prompts) /\ ToSet(<<chars>> \o history) = {chars} \cup ToSet(history)
  <2> DEFINE v == <<chars>>
  <2>1. v \in Seq(Prompts) /\ ToSet(v) = {chars}
    BY <1>5
  <2> HIDE DEF v
  <2>2. v \o history \in Seq(Prompts) /\ ToSet(v \o history) = ToSet(v) \cup ToSet(history)
    BY <1>5, <2>1, JoinHalves
  <2> QED
    BY <2>1, <2>2 DEF v
<1>7. history' \in Seq(Prompts) /\ ToSet(history') \subseteq ToSet(history) \cup {chars}
  BY <1>4, <1>5, <1>6
<1>8. EditorTypes'
  <2>1. <<>> \in Prompts /\ <<>> \in Seq(Snapshots) /\ 0 \in 0..Len(<<>>)
    BY PlainTexts
  <2>2. 0 \in 0..Len(history')
    BY <1>7
  <2> QED
    BY <1>1, <1>2, <1>7, <2>1, <2>2 DEF EditorTypes
<1>9. UndoInv'
  BY <1>2 DEF UndoInv
<1>10. Written' = {}
  <2>1. ToSet(<<>>) = {}
    BY PlainTexts
  <2> QED
    BY <1>2, <2>1 DEF Written, Recorded
<1>11. Saved' \subseteq Saved \cup Written \cup Plain
  <2>1. Characters(ToSet(killRing) \cup ToSet(history) \cup {chars}) = Saved \cup ToSet(chars)
    BY CharactersMore DEF Saved
  <2>2. ToSet(chars) \subseteq Written \cup Plain
    BY <1>3, PlainTexts DEF chars, Written
  <2>3. ToSet(killRing') \cup ToSet(history') \subseteq ToSet(killRing) \cup ToSet(history) \cup {chars}
    BY <1>2, <1>7
  <2>4. Saved' \subseteq Characters(ToSet(killRing) \cup ToSet(history) \cup {chars})
    BY <2>3 DEF Saved, Characters
  <2> QED
    BY <2>1, <2>2, <2>4
<1>12. PasteInv'
  <2>1. pasted \in 0..MaxPastes /\ pasted \in Nat
    BY <1>1 DEF PasteInv
  <2>2. \A char \in Saved' : char.paste <= pasted
    <3>1. \A char \in Saved \cup Written : char.paste <= pasted
      BY <1>1 DEF PasteInv
    <3>2. \A char \in Plain : char.paste = 0
      BY PlainHasNone
    <3> QED
      BY <1>11, <2>1, <3>1, <3>2
  <2>3. /\ pasted' \in 0..MaxPastes /\ pastes' \in Seq(1..pasted') /\ Len(pastes') <= pasted'
        /\ DOMAIN pastes' = {}
    <3>1. <<>> \in Seq(1..pasted) /\ Len(<<>>) = 0 /\ DOMAIN <<>> = {}
      OBVIOUS
    <3> QED
      BY <1>2, <2>1, <3>1
  <2>4. ~(Stale(Written))'
    BY <1>10 DEF Stale
  <2> QED
    BY <1>2, <1>10, <2>2, <2>3, <2>4 DEF PasteInv
<1> QED
  BY <1>2, <1>8, <1>9, <1>12, RingIdle DEF EditorInv

-------------------------------------------------------------------------------
(* The theorems. *)

LEMMA EditorInitInv == EditorInit => EditorInv
<1> SUFFICES ASSUME EditorInit PROVE EditorInv
  OBVIOUS
<1>1. /\ text = <<>> /\ cursor = 0 /\ undoStack = <<>> /\ killRing = <<>> /\ lastAction = "none"
      /\ history = <<>> /\ historyIndex = 0 /\ pastes = <<>> /\ pasted = 0 /\ whole = <<>>
  BY DEF EditorInit
<1>2. <<>> \in Prompts /\ Len(<<>>) = 0 /\ ToSet(<<>>) = {}
  BY PlainTexts
<1>3. EditorTypes
  BY <1>1, <1>2 DEF EditorTypes
<1>4. UndoInv
  BY <1>1 DEF UndoInv
<1>5. RingInv
  BY <1>1 DEF RingInv, KillRingTrue
<1>6. Written = {} /\ Saved = {}
  BY <1>1, <1>2 DEF Written, Recorded, Saved, Characters
<1>7. PasteInv
  <2>1. pasted \in 0..MaxPastes /\ pastes \in Seq(1..pasted) /\ Len(pastes) <= pasted
    BY <1>1, EditorAssumption
  <2> QED
    BY <1>6, <2>1 DEF PasteInv, Stale
<1> QED
  BY <1>3, <1>4, <1>5, <1>7 DEF EditorInv

LEMMA EditorStep == EditorInv /\ [EditorNext]_editorVars => EditorInv'
<1> SUFFICES ASSUME EditorInv, [EditorNext]_editorVars PROVE EditorInv'
  OBVIOUS
<1>1. ASSUME NEW char \in {Letter, Space}, InsertCharacter(char) PROVE EditorInv'
  BY <1>1, InsertCharacterKeeps
<1>2. CASE InsertText(<<LineEnd>>)
  <2>1. <<LineEnd>> \in Seq(Glyphs) /\ ToSet(<<LineEnd>>) \subseteq Plain
    BY PlainTexts
  <2> QED
    BY <1>2, <2>1, InsertTextKeeps
<1>3. CASE InsertText(<<Letter, LineEnd>>)
  <2>1. <<Letter, LineEnd>> \in Seq(Glyphs) /\ ToSet(<<Letter, LineEnd>>) \subseteq Plain
    BY PlainTexts
  <2> QED
    BY <1>3, <2>1, InsertTextKeeps
<1>4. CASE PasteLarge
  BY <1>4, PasteLargeKeeps
<1>5. CASE DeleteCharacter(cursor - 1) \/ DeleteCharacter(cursor)
  <2>1. cursor \in Int /\ cursor - 1 \in Int
    BY TextParts DEF EditorInv
  <2> QED
    BY <1>5, <2>1, DeleteCharacterKeeps
<1>6. CASE DeleteToLineStart \/ DeleteToLineEnd \/ DeleteWordBackwards \/ DeleteWordForward
  BY <1>6, KillsKeep
<1>7. CASE InVain
  BY <1>7, InVainKeeps
<1>8. CASE Yank
  BY <1>8, YankKeeps
<1>9. CASE YankPop
  BY <1>9, YankPopKeeps
<1>10. CASE Undo
  BY <1>10, UndoKeeps
<1>11. CASE Complete
  BY <1>11, CompleteKeeps
<1>12. CASE Submit
  BY <1>12, SubmitKeeps
<1>13. CASE SetText(<<>>)
  <2>1. <<>> \in Seq(Glyphs) /\ ToSet(<<>>) \subseteq Plain
    BY PlainTexts
  <2> QED
    BY <1>13, <2>1, SetTextKeeps
<1>14. CASE SetText(<<Letter>>)
  <2>1. <<Letter>> \in Seq(Glyphs) /\ ToSet(<<Letter>>) \subseteq Plain
    BY PlainTexts
  <2> QED
    BY <1>14, <2>1, SetTextKeeps
<1>15. ASSUME NEW to \in 0..Len(text), MoveTo(to) PROVE EditorInv'
  BY <1>15, MoveToKeeps
<1>16. ASSUME NEW to \in {historyIndex - 1, historyIndex + 1}, Browse(to) PROVE EditorInv'
  BY <1>16, BrowseKeeps
<1>17. CASE UNCHANGED editorVars
  <2>1. /\ text' = text /\ cursor' = cursor /\ undoStack' = undoStack /\ killRing' = killRing
        /\ lastAction' = lastAction /\ history' = history /\ historyIndex' = historyIndex
        /\ pastes' = pastes /\ pasted' = pasted /\ whole' = whole
    BY <1>17 DEF editorVars, shown
  <2>2. EditorTypes'
    BY <2>1 DEF EditorTypes, EditorInv
  <2>3. UndoInv'
    BY <2>1 DEF UndoInv, WordTyped, EditorInv
  <2>4. RingInv'
    BY <2>1 DEF RingInv, KillRingTrue, Before, Behind, EditorInv
  <2>5. PasteInv'
    BY <2>1 DEF PasteInv, Stale, Written, Recorded, Saved, EditorInv
  <2> QED
    BY <2>2, <2>3, <2>4, <2>5 DEF EditorInv
<1> QED
  BY <1>1, <1>2, <1>3, <1>4, <1>5, <1>6, <1>7, <1>8, <1>9, <1>10, <1>11, <1>12, <1>13, <1>14, <1>15,
     <1>16, <1>17 DEF EditorNext

LEMMA EditorInvHolds == EditorSpec => []EditorInv
BY EditorInitInv, EditorStep, PTL DEF EditorSpec

\* What the user has back is what was there, however many keys are pressed: undo
\* takes back one edit or one word with the white space it was typed after and
\* leads to the empty editor, a yank gives back what a series of kills took, and
\* yank-pop takes out just what was yanked (undo-stack.ts, kill-ring.ts and
\* their uses in editor.ts).
THEOREM TakingBackStaysExact == EditorSpec => []TakenBackExact
<1>1. EditorInv => TakenBackExact
  <2> SUFFICES ASSUME EditorInv PROVE TakenBackExact
    OBVIOUS
  <2>1. EditorTypes /\ UndoInv /\ RingInv
    BY DEF EditorInv
  <2>2. EditorTypeOK
    <3>1. undoStack \in Seq(Snapshots) /\ killRing \in Seq(Seq(Glyphs) \ {<<>>})
      BY <2>1 DEF EditorTypes
    <3>2. ASSUME NEW i \in DOMAIN undoStack PROVE undoStack[i].cursor \in 0..Len(undoStack[i].text)
      <4>1. undoStack[i] \in Snapshots
        BY <3>1
      <4> QED
        BY <2>1, <4>1, SnapshotTypes
    <3>3. killRing \in Seq(Seq(Glyphs))
      BY <3>1
    <3>4. <<>> \notin ToSet(killRing)
      <4>1. ToSet(killRing) \subseteq Seq(Glyphs) \ {<<>>}
        BY <3>1, ToSetOfSeq
      <4> QED
        BY <4>1
    <3> QED
      BY <2>1, <3>2, <3>3, <3>4 DEF EditorTypeOK, EditorTypes, Prompts
  <2>3. UndoExact
    <3>1. undoStack = <<>> => text = <<>>
      BY <2>1 DEF UndoInv
    <3>2. ASSUME lastAction = "type-word"
          PROVE  LET last == Last(undoStack)
                     typed == SubSeq(text, last.cursor + 1, cursor)
                 IN  /\ typed # <<>> /\ Space \notin ToSet(Tail(typed))
                     /\ text = SubSeq(last.text, 1, last.cursor) \o typed
                               \o SubSeq(last.text, last.cursor + 1, Len(last.text))
      <4> DEFINE last == Last(undoStack)
                 typed == SubSeq(text, last.cursor + 1, cursor)
      <4>1. WordTyped(last) /\ undoStack # <<>>
        BY <2>1, <3>2 DEF UndoInv
      <4>2. /\ last.cursor < cursor /\ Space \notin ToSet(Tail(typed))
            /\ text = SubSeq(last.text, 1, last.cursor) \o typed
                      \o SubSeq(last.text, last.cursor + 1, Len(last.text))
        BY <4>1 DEF WordTyped
      <4>3. undoStack \in Seq(Snapshots)
        BY <2>1 DEF EditorTypes
      <4>4. last \in Snapshots
        BY <4>1, <4>3, LastIn
      <4> HIDE DEF last
      <4>5. last.cursor \in Nat
        BY <2>1, <4>4, SnapshotTypes
      <4>6. text \in Seq(Glyphs) /\ Len(text) \in Nat /\ cursor \in Nat /\ cursor <= Len(text)
        BY <2>1, TextParts
      <4>7. last.cursor \in 0..Len(text) /\ cursor \in last.cursor..Len(text)
        BY <4>2, <4>5, <4>6
      <4>8. Len(typed) = cursor - last.cursor /\ typed \in Seq(Glyphs)
        BY <4>6, <4>7, PartOf
      <4>9. Len(typed) # 0
        BY <4>2, <4>5, <4>6, <4>8
      <4>10. typed # <<>>
        <5> HIDE DEF typed
        <5> QED
          BY <4>9
      <4> QED
        BY <4>2, <4>10 DEF last
    <3> QED
      BY <3>1, <3>2 DEF UndoExact
  <2>4. KillRingTrue
    BY <2>1 DEF RingInv
  <2> QED
    BY <2>2, <2>3, <2>4 DEF TakenBackExact
<1> QED
  BY <1>1, EditorInvHolds, PTL

\* Every whole marker of this prompt, in the text or to be had back by undo, is
\* sent as what was pasted for it, as long as the kill ring and the history hold
\* none of an earlier prompt (handlePaste, submitValue and undo in editor.ts).
THEOREM MarkersAlwaysExpand == EditorSpec => []MarkersExpand
<1>1. EditorInv => MarkersExpand
  <2> SUFFICES ASSUME EditorInv PROVE MarkersExpand
    OBVIOUS
  <2> DEFINE Foreign(chars) == \E i \in DOMAIN chars : chars[i].paste \notin Range(pastes) \cup {0}
             texts == {text} \cup {s.text : s \in ToSet(undoStack)}
  <2>1. EditorTypes /\ PasteInv
    BY DEF EditorInv
  <2> SUFFICES ASSUME \A chars \in ToSet(killRing) \cup ToSet(history) : ~Foreign(chars),
                      NEW chars \in texts, NEW i \in DOMAIN chars, Whole(chars, i)
               PROVE  Expansion(chars, i) = chars[i].paste
    BY DEF MarkersExpand
  <2>2. ~Stale(Saved)
    <3>1. ASSUME NEW char \in Saved PROVE char.paste \in Range(pastes) \cup {0}
      <4>1. PICK from \in ToSet(killRing) \cup ToSet(history) : char \in ToSet(from)
        BY DEF Saved, Characters
      <4>2. PICK k \in DOMAIN from : char = from[k]
        BY <4>1 DEF ToSet
      <4> QED
        BY <4>1, <4>2
    <3> QED
      BY <3>1 DEF Stale
  <2>3. ~Stale(Written)
    BY <2>1, <2>2 DEF PasteInv
  <2>4. chars[i] \in Written
    BY DEF Written, Recorded, ToSet
  <2> DEFINE char == chars[i]
  <2>5. char \in Glyphs /\ char.c = "["
    BY <2>1, <2>4, WrittenTypes DEF Whole
  <2>6. char.paste \in 1..MaxPastes
    BY <2>5, PlainHasNone
  <2>7. char.paste \in Range(pastes)
    BY <2>3, <2>4, <2>6 DEF Stale
  <2>8. PICK k \in DOMAIN pastes : pastes[k] = char.paste
    BY <2>7 DEF Range
  <2>9. char.shows = k
    BY <2>1, <2>4, <2>8 DEF PasteInv
  <2> QED
    BY <2>8, <2>9 DEF Expansion
<1> QED
  BY <1>1, EditorInvHolds, PTL

================================================================================
