-------------------------- MODULE AutomatonProofs ----------------------------
(***************************************************************************)
(* Proofs about Automaton, for every dictionary, well formed or not, every *)
(* text and every cap of the free list.  What the double array relies on   *)
(* is that a cell is given to one state only: a cell whose check is a      *)
(* state's belongs to a transition of that state.  What match() relies on  *)
(* in a dictionary that a writer compiled is that the state it holds is    *)
(* the longest one whose string the text read so far ends with.            *)
(***************************************************************************)
EXTENDS Automaton, FiniteSetTheorems, SequenceTheorems, WellFoundedInduction, TLAPS

-----------------------------------------------------------------------------
(* Facts about data. *)

\* The library's induction principle, in the form the provers can use.
LEMMA LeastNat ==
    ASSUME NEW T, T \subseteq Nat, T # {}
    PROVE  \E n \in T : \A m \in T : n <= m
<1> DEFINE R == {ss \in Nat \X Nat : ss[1] < ss[2]}
<1>1. IsWellFoundedOn(R, Nat)
  BY NatLessThanWellFounded DEF OpToRel
<1> HIDE DEF R
<1>2. \E n \in T : \A m \in T : ~ (<<m, n>> \in R)
  BY <1>1, WFMin
<1>3. PICK n \in T : \A m \in T : ~ (<<m, n>> \in R)
  BY <1>2
<1>4. \A m \in T : <<m, n>> \in R <=> m < n
  BY DEF R
<1>5. \A m \in T : n <= m
  <2> TAKE m \in T
  <2>1. n \in Nat /\ m \in Nat
    OBVIOUS
  <2>2. ~ (m < n)
    BY <1>3, <1>4
  <2> QED
    BY <2>1, <2>2
<1> QED
  BY <1>5

LEMMA LeastIsLeast ==
    ASSUME NEW T, T \subseteq Nat, T # {}
    PROVE  Least(T) \in T /\ \A m \in T : Least(T) <= m
BY LeastNat DEF Least

Goto == [c : Nat, next : Nat]
Gotos == Seq(Goto)

\* The keys of a state ascend from any one to any later one.
LEMMA AscendingKeys ==
    ASSUME NEW gotos \in Gotos, Ascending(gotos)
    PROVE  \A j, k \in DOMAIN gotos : j < k => gotos[j].c < gotos[k].c
<1> DEFINE bad(j) == {k \in 1 .. Len(gotos) : j < k /\ ~ (gotos[j].c < gotos[k].c)}
<1>1. DOMAIN gotos = 1 .. Len(gotos) /\ Len(gotos) \in Nat
  BY DEF Gotos
<1>2. \A k \in 1 .. Len(gotos) : gotos[k].c \in Nat
  <2>1. \A k \in 1 .. Len(gotos) : gotos[k] \in Goto
    BY DEF Gotos
  <2> QED
    BY <2>1 DEF Goto
<1>3. SUFFICES ASSUME NEW j \in 1 .. Len(gotos), bad(j) # {}
               PROVE  FALSE
  BY <1>1
<1>4. PICK k \in bad(j) : \A m \in bad(j) : k <= m
  <2>1. bad(j) \subseteq Nat
    OBVIOUS
  <2> HIDE DEF bad
  <2> QED
    BY <1>3, <2>1, LeastNat
<1>5. k \in 2 .. Len(gotos) /\ k - 1 \in 1 .. Len(gotos) /\ k - 1 \notin bad(j)
  BY <1>4
<1>6. gotos[k - 1].c < gotos[k].c
  BY <1>5 DEF Ascending
<1>7. gotos[j].c < gotos[k].c
  <2>1. CASE j = k - 1
    BY <1>6, <2>1
  <2>2. CASE j < k - 1
    <3>1. gotos[j].c < gotos[k - 1].c
      BY <1>5, <2>2
    <3> QED
      BY <1>2, <1>5, <1>6, <3>1
  <2> QED
    BY <1>4, <2>1, <2>2
<1> QED
  BY <1>4, <1>7

LEMMA KeyOfLast ==
    ASSUME NEW gotos \in Gotos, gotos # <<>>, Ascending(gotos)
    PROVE  /\ Len(gotos) \in DOMAIN gotos /\ 1 \in DOMAIN gotos
           /\ \A k \in DOMAIN gotos : gotos[1].c <= gotos[k].c /\ gotos[k].c <= gotos[Len(gotos)].c
<1>1. DOMAIN gotos = 1 .. Len(gotos) /\ Len(gotos) \in Nat \ {0}
  BY DEF Gotos
<1>2. \A k \in 1 .. Len(gotos) : gotos[k].c \in Nat
  <2>1. \A k \in 1 .. Len(gotos) : gotos[k] \in Goto
    BY DEF Gotos
  <2> QED
    BY <2>1 DEF Goto
<1>3. \A j, k \in 1 .. Len(gotos) : j < k => gotos[j].c < gotos[k].c
  BY <1>1, AscendingKeys
<1> QED
  BY <1>1, <1>2, <1>3

-----------------------------------------------------------------------------
(* The invariant *)

Placed(s) == new_id[s] # NoState
Waiting(s) == \E k \in DOMAIN stack : stack[k] = s
Expanded(s) == Placed(s) /\ ~Waiting(s)
Building == dict.n > 0 /\ phase \in {"place", "ready", "match", "done"}

\* What read() has checked.
ReadInv ==
    /\ dict \in Dictionaries
    /\ phase \in {"read", "place", "ready", "rejected", "match", "done"}
    /\ phase \in {"place", "match"} => dict.n > 0
    /\ phase = "read" => at \in 0 .. dict.n /\ \A s \in 0 .. at - 1 : WellRead(s)
    /\ Building => \A s \in States(dict) : WellRead(s)

\* The cells from 0 up, and states in some of them, one each.
CellsInv ==
    /\ \E size \in Nat \ {0} : Units = 0 .. size - 1 /\ DOMAIN base = 0 .. size - 1
    /\ \A u \in Units : base[u] \in Nat /\ check[u] \in {NoState, Closed} \cup Units
    /\ new_id \in [States(dict) -> {NoState} \cup Units]
    /\ new_id[0] = 0
    /\ \A s \in States(dict) : Placed(s) => check[new_id[s]] # NoState
    /\ \A s, t \in States(dict) : Placed(s) /\ new_id[s] = new_id[t] => s = t

StackInv ==
    /\ stack \in Seq(States(dict))
    /\ \A k \in DOMAIN stack : Placed(stack[k])
    /\ \A j, k \in DOMAIN stack : stack[j] = stack[k] => j = k

\* The children of a state that was expanded are where its base puts them.
ChildrenInv ==
    \A s \in States(dict) : Expanded(s) =>
        \A g \in Elements(dict.gotos[s]) :
            /\ Placed(g.next)
            /\ new_id[g.next] = base[new_id[s]] + g.c
            /\ check[new_id[g.next]] = new_id[s]

\* A cell that checks as a state's is that of one of its children.
OwnersInv ==
    \A u \in Units : check[u] \in Units =>
        \E s \in States(dict) :
            /\ Expanded(s) /\ check[u] = new_id[s]
            /\ \E g \in Elements(dict.gotos[s]) : u = base[new_id[s]] + g.c

\* A state is less deep than there are states placed.
DepthInv ==
    /\ depth \in [States(dict) -> Nat]
    /\ \A s \in States(dict) : ~Placed(s) => depth[s] = 0
    /\ \A s \in States(dict) : Placed(s) => depth[s] < Cardinality({t \in States(dict) : Placed(t)})

LayoutInv == Building => CellsInv /\ StackInv /\ ChildrenInv /\ OwnersInv /\ DepthInv

Width(root) == IF root = <<>> THEN 0 ELSE root[Len(root)].c + 1

\* What remapping leaves.
TablesInv ==
    Built =>
        /\ stack = <<>> /\ Reached /\ Shortens
        /\ DOMAIN fail = Units /\ DOMAIN out = Units
        /\ \A s \in States(dict) : fail[new_id[s]] = new_id[dict.failure[s]]
        /\ root_next = [c \in 0 .. Width(dict.gotos[0]) - 1 |->
              IF \E g \in Elements(dict.gotos[0]) : g.c = c
              THEN new_id[(CHOOSE g \in Elements(dict.gotos[0]) : g.c = c).next] ELSE NoState]

\* The matcher is in a cell that a state has.
MatchInv ==
    /\ text \in Seq(Nat) /\ i \in 0 .. Len(text)
    /\ phase \in {"read", "place", "ready"} => cur = 0 /\ i = 0
    /\ phase = "match" => \E s \in States(dict) : new_id[s] = cur

IInv == ReadInv /\ LayoutInv /\ TablesInv /\ MatchInv

-----------------------------------------------------------------------------
LEMMA GotosOf ==
    ASSUME ReadInv, NEW s \in States(dict)
    PROVE  /\ dict.n \in Nat
           /\ dict.gotos[s] \in Gotos /\ dict.failure[s] \in Nat
           /\ \A g \in Elements(dict.gotos[s]) : g.c \in Nat /\ g.next \in Nat
           /\ Building => /\ Ascending(dict.gotos[s])
                          /\ dict.failure[s] \in States(dict)
                          /\ \A g \in Elements(dict.gotos[s]) : g.next \in States(dict)
<1>1. dict.n \in Nat /\ dict.gotos[s] \in Gotos /\ dict.failure[s] \in Nat
  BY AutomatonAssumption DEF ReadInv, States, Gotos, Goto
<1>2. \A g \in Elements(dict.gotos[s]) : g.c \in Nat /\ g.next \in Nat
  <2>1. \A g \in Elements(dict.gotos[s]) : g \in Goto
    BY <1>1 DEF Gotos, Elements
  <2> QED
    BY <2>1 DEF Goto
<1>3. Building => WellRead(s)
  BY DEF ReadInv
<1> QED
  BY <1>1, <1>2, <1>3 DEF WellRead, InRange, States

\* A place for the children: none of their cells is taken.
LEMMA BaseIsFree ==
    ASSUME NEW size \in Nat \ {0}, Units = 0 .. size - 1,
           NEW gotos \in Gotos, gotos # <<>>, Ascending(gotos)
    PROVE  /\ BaseFor(gotos) \in Nat
           /\ \A g \in Elements(gotos) :
                 BaseFor(gotos) + g.c \in Units => check[BaseFor(gotos) + g.c] = NoState
<1> DEFINE first == gotos[1].c
           slots == {f \in Free(check) : f >= first /\ Fits(f - first, gotos)}
           b == BaseFor(gotos)
<1>1. /\ DOMAIN gotos = 1 .. Len(gotos) /\ Len(gotos) \in Nat \ {0}
      /\ \A k \in 1 .. Len(gotos) : gotos[k].c \in Nat
      /\ \A k \in 1 .. Len(gotos) : first <= gotos[k].c
  <2>1. DOMAIN gotos = 1 .. Len(gotos) /\ Len(gotos) \in Nat \ {0}
    BY DEF Gotos
  <2>2. \A k \in 1 .. Len(gotos) : gotos[k] \in Goto
    BY DEF Gotos
  <2> QED
    BY <2>1, <2>2, KeyOfLast DEF Goto
<1>2. Cardinality(Units) = size
  BY FS_Interval
<1>3. b = IF slots # {} THEN Least(slots) - first ELSE IF size > first THEN size - first ELSE 0
  BY <1>2 DEF BaseFor
<1>4. CASE slots # {}
  <2>1. slots \subseteq Nat
    BY DEF Free, Units
  <2> DEFINE f == Least(slots)
  <2>2. f \in slots
    BY <1>4, <2>1, LeastIsLeast
  <2>3. f \in Nat /\ first \in Nat /\ f >= first /\ check[f] = NoState /\ Fits(f - first, gotos)
    <3> HIDE DEF f
    <3>1. f \in Nat /\ first \in Nat
      BY <1>1, <2>1, <2>2
    <3>2. f \in Free(check) /\ f >= first /\ Fits(f - first, gotos)
      BY <2>2
    <3> QED
      BY <3>1, <3>2 DEF Free
  <2> HIDE DEF f
  <2>4. b = f - first
    BY <1>3, <1>4 DEF f
  <2>5. ASSUME NEW k \in 1 .. Len(gotos), b + gotos[k].c \in Units
        PROVE  check[b + gotos[k].c] = NoState
    <3>1. CASE k = 1
      BY <2>3, <2>4, <3>1
    <3>2. CASE k \in 2 .. Len(gotos)
      BY <2>3, <2>4, <2>5, <3>2 DEF Fits
    <3> QED
      BY <1>1, <3>1, <3>2
  <2> HIDE DEF b
  <2> QED
    BY <1>1, <2>3, <2>4, <2>5 DEF Elements, b
<1>5. CASE slots = {}
  <2>1. b \in Nat /\ b + first >= size
    BY <1>1, <1>3, <1>5
  <2> HIDE DEF b
  <2>2. \A k \in 1 .. Len(gotos) : b + gotos[k].c >= size
    BY <1>1, <2>1
  <2>3. \A k \in 1 .. Len(gotos) : b + gotos[k].c \notin Units
    BY <1>1, <2>1, <2>2
  <2> QED
    BY <1>1, <2>1, <2>3 DEF Elements, b
<1> QED
  BY <1>4, <1>5

\* What enforce_cap leaves is the highest free slots, as many as the cap.
LEMMA CappedFree ==
    ASSUME NEW size \in Nat, NEW cells, DOMAIN cells = 0 .. size - 1
    PROVE  Cardinality(Free(Capped(cells))) \in Nat /\ Cardinality(Free(Capped(cells))) <= FreeListCap
<1> DEFINE F == Free(cells)
           G == Free(Capped(cells))
           above(u) == {f \in F : f > u}
<1>1. FreeListCap \in Nat
  BY AutomatonAssumption
<1>2. F \subseteq 0 .. size - 1 /\ G = {u \in F : ~ (Cardinality(above(u)) >= FreeListCap)}
  BY DEF Free, Capped, NoState, Closed
<1>3. IsFiniteSet(0 .. size - 1)
  BY FS_Interval
<1>4. IsFiniteSet(F)
  BY <1>2, <1>3, FS_Subset
<1>5. IsFiniteSet(G) /\ G \subseteq F
  BY <1>2, <1>4, FS_Subset
<1>6. Cardinality(G) \in Nat
  BY <1>5, FS_CardinalityType
<1>7. ASSUME Cardinality(G) > FreeListCap PROVE FALSE
  <2>1. G # {}
    BY <1>1, <1>7, FS_EmptySet
  <2>2. PICK m \in G : \A u \in G : m <= u
    <3>1. G \subseteq Nat
      BY <1>2
    <3> HIDE DEF G
    <3> QED
      BY <2>1, <3>1, LeastNat
  <2>3. G \ {m} \subseteq above(m)
    <3>1. \A u \in G : u \in Nat
      BY <1>2
    <3> HIDE DEF G, F
    <3> QED
      BY <1>5, <2>2, <3>1
  <2>4. IsFiniteSet(above(m)) /\ above(m) \subseteq F
    BY <1>4, FS_Subset
  <2>5. Cardinality(G \ {m}) = Cardinality(G) - 1
    BY <1>5, FS_RemoveElement
  <2>6. Cardinality(G \ {m}) <= Cardinality(above(m))
    BY <2>3, <2>4, FS_Subset
  <2>7. Cardinality(above(m)) \in Nat
    BY <2>4, FS_CardinalityType
  <2>8. ~ (Cardinality(above(m)) >= FreeListCap)
    BY <1>2
  <2> HIDE DEF G, F, above
  <2> QED
    BY <1>1, <1>6, <1>7, <2>5, <2>6, <2>7, <2>8
<1> HIDE DEF G
<1> QED
  BY <1>1, <1>6, <1>7 DEF G

\* The largest of finitely many.
LEMMA GreatestNat ==
    ASSUME NEW S \in SUBSET Nat, IsFiniteSet(S), S # {}
    PROVE  \E b \in S : \A x \in S : x <= b
<1> DEFINE bad == {T \in SUBSET S : T # {} /\ ~ \E b \in T : \A x \in T : x <= b}
           sizes == {Cardinality(T) : T \in bad}
<1> SUFFICES ASSUME bad # {} PROVE FALSE
  OBVIOUS
<1>1. \A T \in SUBSET S : IsFiniteSet(T) /\ Cardinality(T) \in Nat
  BY FS_Subset, FS_CardinalityType
<1>2. PICK T \in bad : \A R \in bad : Cardinality(T) <= Cardinality(R)
  <2>1. sizes \subseteq Nat /\ sizes # {}
    BY <1>1
  <2> HIDE DEF sizes
  <2>2. PICK n \in sizes : \A m \in sizes : n <= m
    BY <2>1, LeastNat
  <2> QED
    BY <2>2 DEF sizes
<1>3. PICK x \in T : TRUE
  BY <1>2
<1>4. Cardinality(T \ {x}) = Cardinality(T) - 1
  BY <1>1, FS_RemoveElement
<1>5. T \ {x} \notin bad
  <2>1. Cardinality(T) \in Nat
    BY <1>1
  <2> HIDE DEF bad
  <2> QED
    BY <1>2, <1>4, <2>1
<1>6. T \ {x} # {}
  BY <1>2
<1>7. PICK b \in T \ {x} : \A y \in T \ {x} : y <= b
  BY <1>5, <1>6
<1>8. \A y \in T : y <= IF x <= b THEN b ELSE x
  BY <1>7
<1> QED
  BY <1>2, <1>7, <1>8

LEMMA BoundIs ==
    ASSUME NEW bound \in Nat, NEW outputs \in Seq(Nat)
    PROVE  /\ Bound(bound, outputs) \in Nat /\ bound <= Bound(bound, outputs)
           /\ \A k \in DOMAIN outputs : outputs[k] < Bound(bound, outputs)
           /\ \/ Bound(bound, outputs) = bound
              \/ \E k \in DOMAIN outputs : Bound(bound, outputs) = outputs[k] + 1
<1> DEFINE S == {bound} \cup {o + 1 : o \in Elements(outputs)}
<1>1. S \subseteq Nat /\ S # {}
  BY DEF Elements
<1>2. IsFiniteSet(S)
  <2> DEFINE E == {o + 1 : o \in Elements(outputs)}
  <2>1. Len(outputs) \in Nat /\ DOMAIN outputs = 1 .. Len(outputs)
    OBVIOUS
  <2>2. IsFiniteSet(1 .. Len(outputs))
    BY <2>1, FS_Interval
  <2>3. [k \in 1 .. Len(outputs) |-> outputs[k] + 1] \in Surjection(1 .. Len(outputs), E)
    BY <2>1 DEF Surjection, Elements
  <2>4. IsFiniteSet(E)
    BY <2>2, <2>3, FS_Surjection
  <2> HIDE DEF E
  <2>5. IsFiniteSet(E \cup {bound})
    BY <2>4, FS_AddElement
  <2>6. E \cup {bound} = {bound} \cup E
    OBVIOUS
  <2> QED
    BY <2>5, <2>6 DEF E
<1>3. \E b \in S : \A x \in S : x <= b
  BY <1>1, <1>2, GreatestNat
<1>4. Bound(bound, outputs) \in S /\ \A x \in S : x <= Bound(bound, outputs)
  BY <1>3 DEF Bound
<1>5. \A k \in DOMAIN outputs : outputs[k] \in Nat /\ outputs[k] + 1 \in S
  BY DEF Elements
<1>6. bound \in S /\ \A x \in S : x = bound \/ \E k \in DOMAIN outputs : x = outputs[k] + 1
  BY DEF Elements
<1> DEFINE largest == Bound(bound, outputs)
<1> HIDE DEF S, largest
<1>7. largest \in S /\ \A x \in S : x <= largest
  BY <1>4 DEF largest
<1>8. largest \in Nat /\ bound <= largest
  BY <1>1, <1>6, <1>7
<1>9. \A k \in DOMAIN outputs : outputs[k] < largest
  <2> TAKE k \in DOMAIN outputs
  <2>1. outputs[k] \in Nat /\ outputs[k] + 1 <= largest
    BY <1>5, <1>7
  <2> QED
    BY <1>8, <2>1
<1>10. largest = bound \/ \E k \in DOMAIN outputs : largest = outputs[k] + 1
  BY <1>6, <1>7
<1> QED
  BY <1>8, <1>9, <1>10 DEF largest

-----------------------------------------------------------------------------
(* Placing the children of a state *)

\* The state that was popped, and what is left of the stack.
LEMMA PoppedFrom ==
    ASSUME StackInv, stack # <<>>
    PROVE  /\ Popped \in States(dict) /\ Placed(Popped) /\ Waiting(Popped)
           /\ Rest \in Seq(States(dict))
           /\ Len(stack) \in Nat \ {0} /\ Len(Rest) = Len(stack) - 1
           /\ DOMAIN Rest = 1 .. Len(stack) - 1 /\ DOMAIN stack = 1 .. Len(stack)
           /\ \A k \in 1 .. Len(stack) - 1 : Rest[k] = stack[k] /\ Rest[k] # Popped
           /\ \A s : Waiting(s) <=> s = Popped \/ \E k \in DOMAIN Rest : Rest[k] = s
<1>1. /\ stack \in Seq(States(dict)) /\ Len(stack) \in Nat \ {0} /\ DOMAIN stack = 1 .. Len(stack)
      /\ Popped = stack[Len(stack)] /\ Len(stack) \in DOMAIN stack
  BY DEF StackInv, Popped
<1>2. /\ Rest \in Seq(States(dict)) /\ Len(Rest) = Len(stack) - 1
      /\ DOMAIN Rest = 1 .. Len(stack) - 1
      /\ \A k \in 1 .. Len(stack) - 1 : Rest[k] = stack[k]
  BY <1>1 DEF Rest
<1>3. \A k \in 1 .. Len(stack) - 1 : stack[k] # Popped
  BY <1>1 DEF StackInv
<1>4. Popped \in States(dict) /\ Placed(Popped)
  BY <1>1 DEF StackInv
<1>5. \A s : Waiting(s) <=> s = Popped \/ \E k \in DOMAIN Rest : Rest[k] = s
  BY <1>1, <1>2 DEF Waiting
<1> QED
  BY <1>1, <1>2, <1>3, <1>4, <1>5

LEMMA PlaceChildrenKeeps ==
    ASSUME IInv, PlaceChildren
    PROVE  /\ LayoutInv'
           /\ \A s \in States(dict) :
                 Waiting(s)' <=> (\E g \in Elements(dict.gotos[Popped]) : g.next = s) \/ (Waiting(s) /\ s # Popped)
<1> DEFINE gotos == dict.gotos[Popped]
           ns == new_id[Popped]
           b == BaseFor(gotos)
           taken == {b + g.c : g \in Elements(gotos)}
           reach == b + gotos[Len(gotos)].c
           size == Cardinality(Units \cup 0 .. reach)
           cells == [u \in 0 .. size - 1 |->
                        IF u \in taken THEN ns ELSE IF u \in Units THEN check[u] ELSE NoState]
           edge(s) == CHOOSE g \in Elements(gotos) : g.next = s
           isChild(s) == \E g \in Elements(gotos) : g.next = s
<1>1. /\ dict' = dict /\ phase' = phase /\ phase = "place" /\ stack # <<>> /\ gotos # <<>>
      /\ ChildrenAreNew(gotos)
      /\ base' = [u \in 0 .. size - 1 |-> IF u = ns THEN b ELSE IF u \in Units THEN base[u] ELSE 0]
      /\ check' = Capped(cells)
      /\ new_id' = [s \in States(dict) |-> IF isChild(s) THEN b + edge(s).c ELSE new_id[s]]
      /\ depth' = [s \in States(dict) |-> IF isChild(s) THEN depth[Popped] + 1 ELSE depth[s]]
      /\ stack' = Rest \o [k \in DOMAIN gotos |-> gotos[k].next]
  BY DEF PlaceChildren
<1>2. Building /\ ReadInv /\ CellsInv /\ StackInv /\ ChildrenInv /\ OwnersInv /\ DepthInv
  BY <1>1 DEF IInv, ReadInv, LayoutInv, Building
<1>3. PICK old \in Nat \ {0} : Units = 0 .. old - 1 /\ DOMAIN base = 0 .. old - 1
  BY <1>2 DEF CellsInv
\* What is known of the state and its children.
<1>4. /\ Popped \in States(dict) /\ Placed(Popped) /\ Waiting(Popped)
      /\ ns \in Units /\ ns \in Nat
  <2>1. Popped \in States(dict) /\ Placed(Popped) /\ Waiting(Popped)
    BY <1>1, <1>2, PoppedFrom
  <2>2. ns \in Units
    BY <1>2, <2>1 DEF CellsInv, Placed
  <2> QED
    BY <1>3, <2>1, <2>2
<1>5. /\ gotos \in Gotos /\ Ascending(gotos)
      /\ \A g \in Elements(gotos) : g.c \in Nat /\ g.next \in States(dict)
  BY <1>2, <1>4, GotosOf
<1>6. /\ DOMAIN gotos = 1 .. Len(gotos) /\ Len(gotos) \in Nat \ {0}
      /\ Elements(gotos) = {gotos[k] : k \in DOMAIN gotos}
      /\ \A j, k \in DOMAIN gotos : j < k => gotos[j].c < gotos[k].c
      /\ \A g \in Elements(gotos) : g.c <= gotos[Len(gotos)].c
      /\ gotos[Len(gotos)].c \in Nat
  <2>1. DOMAIN gotos = 1 .. Len(gotos) /\ Len(gotos) \in Nat \ {0}
    BY <1>1, <1>5 DEF Gotos
  <2>2. Elements(gotos) = {gotos[k] : k \in DOMAIN gotos}
    BY DEF Elements
  <2> HIDE DEF gotos
  <2> QED
    BY <1>1, <1>5, <2>1, <2>2, AscendingKeys, KeyOfLast
<1>7. \A g, h \in Elements(gotos) : g.next = h.next \/ g.c = h.c => g = h
  <2>1. \A j, k \in DOMAIN gotos : gotos[j].next = gotos[k].next => j = k
    BY <1>1 DEF ChildrenAreNew
  <2>2. \A k \in 1 .. Len(gotos) : gotos[k].c \in Nat
    BY <1>5, <1>6
  <2>3. \A j, k \in 1 .. Len(gotos) : gotos[j].c = gotos[k].c => j = k
    BY <1>6, <2>2
  <2> HIDE DEF gotos
  <2> QED
    BY <1>6, <2>1, <2>3
<1>8. \A g \in Elements(gotos) : new_id[g.next] = NoState
  BY <1>1 DEF ChildrenAreNew
<1>9. b \in Nat /\ \A g \in Elements(gotos) : b + g.c \in Units => check[b + g.c] = NoState
  BY <1>1, <1>3, <1>5, BaseIsFree
<1>10. \A u \in taken : u \in Nat /\ u <= reach /\ (u \in Units => check[u] = NoState)
  BY <1>5, <1>6, <1>9
<1> HIDE DEF gotos, ns, b
\* The cells grow to hold the last child.
<1>11. /\ size \in Nat \ {0} /\ old <= size
       /\ taken \subseteq 0 .. size - 1 /\ Units \subseteq 0 .. size - 1
  <2>1. reach \in Nat
    BY <1>6, <1>9
  <2> DEFINE large == IF reach >= old THEN reach + 1 ELSE old
  <2> HIDE DEF reach
  <2>2. Units \cup 0 .. reach = 0 .. large - 1 /\ large \in Nat \ {0}
    BY <1>3, <2>1
  <2>3. large >= old /\ large > reach
    BY <1>3, <2>1
  <2> HIDE DEF large
  <2>4. Cardinality(0 .. large - 1) = large
    BY <2>2, FS_Interval
  <2>5. size = large
    BY <2>2, <2>4
  <2> HIDE DEF size, taken
  <2> QED
    BY <1>3, <1>10, <2>1, <2>2, <2>3, <2>5
<1> HIDE DEF size, reach
<1>12. DOMAIN check' = 0 .. size - 1 /\ DOMAIN base' = 0 .. size - 1
  BY <1>1 DEF Capped
<1>13. \A u \in 0 .. size - 1 :
          \/ check'[u] = cells[u]
          \/ cells[u] = NoState /\ check'[u] = Closed
  BY <1>1 DEF Capped, Free
<1>14. \A u \in taken : check'[u] = ns
  <2> TAKE u \in taken
  <2>1. u \in 0 .. size - 1 /\ cells[u] = ns
    BY <1>11
  <2>2. ns # NoState
    BY <1>4 DEF NoState
  <2> HIDE DEF cells
  <2> QED
    BY <1>13, <2>1, <2>2
<1>15. \A u \in Units : check[u] # NoState => u \notin taken /\ check'[u] = check[u]
  <2> TAKE u \in Units
  <2> SUFFICES ASSUME check[u] # NoState
               PROVE  u \notin taken /\ check'[u] = check[u]
    OBVIOUS
  <2>1. u \notin taken
    BY <1>10
  <2>2. cells[u] = check[u]
    BY <1>11, <2>1
  <2> QED
    BY <1>11, <1>13, <2>1, <2>2
<1>16. \A u \in 0 .. size - 1 :
          \/ u \in taken /\ check'[u] = ns
          \/ u \in Units /\ check'[u] = check[u]
          \/ check'[u] \in {NoState, Closed}
  <2> TAKE u \in 0 .. size - 1
  <2>1. CASE u \in taken
    BY <1>14, <2>1
  <2>2. CASE u \notin taken
    <3>1. cells[u] = IF u \in Units THEN check[u] ELSE NoState
      BY <2>2
    <3> QED
      BY <1>13, <3>1
  <2> QED
    BY <2>1, <2>2
<1>17. \A s \in States(dict) : isChild(s) => edge(s) \in Elements(gotos) /\ edge(s).next = s
  OBVIOUS
<1>18. \A g \in Elements(gotos) : isChild(g.next) /\ edge(g.next) = g
  BY <1>5, <1>7, <1>17
<1>19. /\ \A s \in States(dict) : isChild(s) => new_id'[s] \in taken /\ new_id[s] = NoState
       /\ \A s \in States(dict) : ~isChild(s) => new_id'[s] = new_id[s]
       /\ \A g \in Elements(gotos) : new_id'[g.next] = b + g.c
  BY <1>1, <1>5, <1>8, <1>17, <1>18
<1> HIDE DEF edge, isChild, cells, taken
<1>20. ~isChild(Popped)
  BY <1>4, <1>19 DEF Placed
<1>21. \A s \in States(dict) : Placed(s)' <=> isChild(s) \/ Placed(s)
  BY <1>10, <1>19 DEF Placed, NoState
<1>22. \A s \in States(dict) : Placed(s) => ~isChild(s) /\ new_id'[s] = new_id[s] /\ new_id[s] \in Units
  BY <1>2, <1>19 DEF Placed, CellsInv
<1>23. CellsInv'
  <2>1. Units' = 0 .. size - 1
    BY <1>12 DEF Units
  <2>2. \A u \in 0 .. size - 1 : base'[u] \in Nat /\ check'[u] \in {NoState, Closed} \cup 0 .. size - 1
    <3> TAKE u \in 0 .. size - 1
    <3>1. base'[u] \in Nat
      BY <1>1, <1>2, <1>9 DEF CellsInv
    <3>2. u \in Units => check[u] \in {NoState, Closed} \cup Units
      BY <1>2 DEF CellsInv
    <3> QED
      BY <1>4, <1>11, <1>16, <3>1, <3>2
  <2>3. \A s \in States(dict) : new_id'[s] \in {NoState} \cup 0 .. size - 1
    BY <1>2, <1>11, <1>19 DEF CellsInv
  <2>4. new_id' \in [States(dict) -> {NoState} \cup 0 .. size - 1]
    BY <1>1, <2>3
  <2>5. new_id'[0] = 0
    <3>1. 0 \in States(dict)
      BY <1>2, <1>4, GotosOf DEF Building, States
    <3> QED
      BY <1>2, <1>19, <3>1 DEF CellsInv, NoState
  <2>6. \A s \in States(dict) : Placed(s)' => check'[new_id'[s]] # NoState
    <3> TAKE s \in States(dict)
    <3>1. CASE isChild(s)
      BY <1>4, <1>14, <1>19, <3>1 DEF NoState
    <3>2. CASE ~isChild(s) /\ Placed(s)
      BY <1>2, <1>15, <1>22, <3>2 DEF CellsInv
    <3> QED
      BY <1>21, <3>1, <3>2
  <2>7. \A s, t \in States(dict) : Placed(s)' /\ new_id'[s] = new_id'[t] => s = t
    <3> TAKE s, t \in States(dict)
    <3> SUFFICES ASSUME Placed(s)', new_id'[s] = new_id'[t]
                 PROVE  s = t
      OBVIOUS
    <3>0. Placed(t)'
      BY DEF Placed
    <3>1. CASE isChild(s) /\ isChild(t)
      <4>1. PICK g \in Elements(gotos) : g.next = s
        BY <3>1 DEF isChild
      <4>2. PICK h \in Elements(gotos) : h.next = t
        BY <3>1 DEF isChild
      <4>3. b + g.c = b + h.c
        BY <1>19, <4>1, <4>2
      <4>4. g.c = h.c
        BY <1>5, <1>9, <4>3
      <4> QED
        BY <1>7, <4>1, <4>2, <4>4
    <3>2. \A x, y \in States(dict) :
             isChild(x) /\ ~isChild(y) /\ Placed(y) => new_id'[x] # new_id'[y]
      <4> TAKE x, y \in States(dict)
      <4> SUFFICES ASSUME isChild(x), ~isChild(y), Placed(y)
                   PROVE  new_id'[x] # new_id'[y]
        OBVIOUS
      <4>1. new_id'[x] \in taken
        BY <1>19
      <4>2. new_id'[y] \in Units /\ check[new_id'[y]] # NoState
        BY <1>2, <1>22 DEF CellsInv
      <4> QED
        BY <1>15, <4>1, <4>2
    <3>3. CASE ~isChild(s) /\ ~isChild(t)
      BY <1>2, <1>19, <1>21, <3>3 DEF CellsInv
    <3> QED
      BY <1>21, <3>0, <3>1, <3>2, <3>3
  <2> QED
    BY <1>1, <1>11, <1>12, <2>1, <2>2, <2>4, <2>5, <2>6, <2>7 DEF CellsInv
\* The children are on the stack.
<1>24. /\ StackInv'
       /\ \A s \in States(dict) : Waiting(s)' <=> isChild(s) \/ (Waiting(s) /\ s # Popped)
  <2> DEFINE kids == [k \in DOMAIN gotos |-> gotos[k].next]
             m == Len(stack) - 1
             l == Len(gotos)
  <2>1. /\ Rest \in Seq(States(dict)) /\ Len(Rest) = m /\ m \in Nat
        /\ \A k \in 1 .. m : k \in DOMAIN stack /\ Rest[k] = stack[k] /\ Rest[k] # Popped
        /\ \A s : Waiting(s) <=> s = Popped \/ \E k \in 1 .. m : Rest[k] = s
    <3>1. /\ Rest \in Seq(States(dict))
          /\ Len(stack) \in Nat \ {0} /\ Len(Rest) = Len(stack) - 1
          /\ DOMAIN Rest = 1 .. Len(stack) - 1 /\ DOMAIN stack = 1 .. Len(stack)
          /\ \A k \in 1 .. Len(stack) - 1 : Rest[k] = stack[k] /\ Rest[k] # Popped
          /\ \A s : Waiting(s) <=> s = Popped \/ \E k \in DOMAIN Rest : Rest[k] = s
      BY <1>1, <1>2, PoppedFrom
    <3>2. m \in Nat /\ \A k \in 1 .. m : k \in DOMAIN stack
      BY <3>1
    <3> QED
      BY <3>1, <3>2
  <2>2. \A k \in 1 .. l : k \in DOMAIN gotos /\ kids[k] = gotos[k].next /\ kids[k] \in States(dict)
    BY <1>5, <1>6
  <2>3. kids \in Seq(States(dict)) /\ Len(kids) = l
    BY <1>5, <1>6, <2>2 DEF Gotos
  <2>4. \A s \in States(dict) : isChild(s) <=> \E k \in 1 .. l : kids[k] = s
    BY <1>6, <2>2 DEF isChild
  <2>5. \A j, k \in 1 .. l : kids[j] = kids[k] => j = k
    BY <1>1, <1>6, <2>2 DEF ChildrenAreNew
  <2> HIDE DEF kids, m, l
  <2>6. /\ stack' \in Seq(States(dict)) /\ Len(stack') = m + l /\ m + l \in Nat /\ l \in Nat
        /\ DOMAIN stack' = 1 .. m + l
        /\ \A k \in 1 .. m : stack'[k] = Rest[k]
        /\ \A k \in 1 .. l : stack'[m + k] = kids[k]
    <3>1. l \in Nat /\ stack' = Rest \o kids
      BY <1>1, <1>6 DEF l, kids
    <3>2. /\ Rest \o kids \in Seq(States(dict)) /\ Len(Rest \o kids) = Len(Rest) + Len(kids)
          /\ \A k \in 1 .. Len(Rest) + Len(kids) :
                (Rest \o kids)[k] = IF k <= Len(Rest) THEN Rest[k] ELSE kids[k - Len(Rest)]
      <4>1. Rest \in Seq(States(dict)) /\ kids \in Seq(States(dict))
        BY <2>1, <2>3
      <4> QED
        BY <4>1, ConcatProperties, Zenon
    <3>3. /\ m + l \in Nat /\ DOMAIN (Rest \o kids) = 1 .. m + l
      BY <2>1, <2>3, <3>1, <3>2
    <3>4. \A k \in 1 .. m : (Rest \o kids)[k] = Rest[k]
      BY <2>1, <2>3, <3>1, <3>2
    <3>5. \A k \in 1 .. l : (Rest \o kids)[m + k] = kids[k]
      <4> TAKE k \in 1 .. l
      <4>1. m + k \in 1 .. m + l /\ ~ (m + k <= m) /\ (m + k) - m = k
        BY <2>1, <3>1
      <4> QED
        BY <2>1, <2>3, <3>2, <4>1
    <3> QED
      BY <2>1, <2>3, <3>1, <3>2, <3>3, <3>4, <3>5
  <2>7. \A k \in 1 .. m + l : k \in 1 .. m \/ \E j \in 1 .. l : k = m + j
    <3> TAKE k \in 1 .. m + l
    <3>1. k \in 1 .. m \/ (k - m \in 1 .. l /\ k = m + (k - m))
      BY <2>1, <2>6
    <3> QED
      BY <3>1
  <2>8. \A s \in States(dict) : Waiting(s)' <=> isChild(s) \/ (Waiting(s) /\ s # Popped)
    <3> TAKE s \in States(dict)
    <3>1. Waiting(s)' <=> \E k \in 1 .. m + l : stack'[k] = s
      BY <2>6 DEF Waiting
    <3>2. (\E k \in 1 .. m + l : stack'[k] = s) <=>
             (\E k \in 1 .. m : Rest[k] = s) \/ (\E k \in 1 .. l : kids[k] = s)
      <4>1. \A k \in 1 .. m : k \in 1 .. m + l
        BY <2>1, <2>6
      <4>2. \A k \in 1 .. l : m + k \in 1 .. m + l
        BY <2>1, <2>6
      <4> QED
        BY <2>6, <2>7, <4>1, <4>2
    <3>3. (\E k \in 1 .. m : Rest[k] = s) <=> Waiting(s) /\ s # Popped
      BY <2>1
    <3> QED
      BY <2>4, <3>1, <3>2, <3>3
  <2>9. \A k \in 1 .. m + l : new_id'[stack'[k]] # NoState
    <3>1. \A s \in States(dict) : isChild(s) \/ Placed(s) => new_id'[s] # NoState
      BY <1>21 DEF Placed
    <3>2. \A k \in 1 .. m : new_id'[Rest[k]] # NoState
      <4> TAKE k \in 1 .. m
      <4>1. stack[k] \in States(dict) /\ Placed(stack[k])
        BY <1>2, <2>1 DEF StackInv
      <4> QED
        BY <2>1, <3>1, <4>1
    <3>3. \A k \in 1 .. l : new_id'[kids[k]] # NoState
      <4> TAKE k \in 1 .. l
      <4>1. kids[k] \in States(dict) /\ isChild(kids[k])
        BY <2>2, <2>4
      <4> QED
        BY <3>1, <4>1
    <3> QED
      BY <2>6, <2>7, <3>2, <3>3
  <2>10. \A j, k \in 1 .. m + l : stack'[j] = stack'[k] => j = k
    <3>1. \A j, k \in 1 .. m : Rest[j] = Rest[k] => j = k
      BY <1>2, <2>1 DEF StackInv
    <3>2. \A j \in 1 .. m, k \in 1 .. l : Rest[j] # kids[k]
      <4> TAKE j \in 1 .. m, k \in 1 .. l
      <4>1. Placed(Rest[j])
        BY <1>2, <2>1 DEF StackInv
      <4>2. ~Placed(kids[k])
        <5>1. kids[k] \in States(dict) /\ isChild(kids[k])
          BY <2>2, <2>4
        <5> QED
          BY <1>19, <5>1 DEF Placed
      <4> QED
        BY <4>1, <4>2
    <3> QED
      BY <2>5, <2>6, <2>7, <3>1, <3>2
  <2> QED
    BY <1>1, <2>6, <2>8, <2>9, <2>10 DEF StackInv, Placed
<1>25. \A s \in States(dict) : Expanded(s)' <=> Expanded(s) \/ s = Popped
  BY <1>4, <1>20, <1>21, <1>22, <1>24 DEF Expanded
<1>26. \A s \in States(dict) :
          Expanded(s) => /\ new_id'[s] = new_id[s] /\ new_id[s] \in Units /\ new_id[s] # ns
                         /\ base'[new_id[s]] = base[new_id[s]]
  <2> TAKE s \in States(dict)
  <2> SUFFICES ASSUME Expanded(s)
               PROVE  /\ new_id'[s] = new_id[s] /\ new_id[s] \in Units /\ new_id[s] # ns
                      /\ base'[new_id[s]] = base[new_id[s]]
    OBVIOUS
  <2>1. Placed(s) /\ s # Popped
    BY <1>4 DEF Expanded
  <2>2. new_id[s] # ns
    BY <1>2, <1>4, <2>1 DEF CellsInv, ns
  <2> QED
    BY <1>1, <1>11, <1>22, <2>1, <2>2
<1>27. new_id'[Popped] = ns /\ base'[ns] = b
  BY <1>1, <1>4, <1>11, <1>19, <1>20 DEF ns
<1>28. ChildrenInv'
  <2> SUFFICES ASSUME NEW s \in States(dict), Expanded(s)', NEW g \in Elements(dict.gotos[s])
               PROVE  /\ Placed(g.next)'
                      /\ new_id'[g.next] = base'[new_id'[s]] + g.c
                      /\ check'[new_id'[g.next]] = new_id'[s]
    BY <1>1 DEF ChildrenInv
  <2>1. g.next \in States(dict)
    BY <1>2, GotosOf
  <2>2. CASE s = Popped
    <3>1. g \in Elements(gotos)
      BY <2>2 DEF gotos
    <3>2. isChild(g.next) /\ new_id'[g.next] = b + g.c /\ new_id'[g.next] \in taken
      BY <1>18, <1>19, <2>1, <3>1
    <3> QED
      BY <1>14, <1>21, <1>27, <2>1, <2>2, <3>2
  <2>3. CASE Expanded(s)
    <3>1. /\ Placed(g.next) /\ new_id[g.next] = base[new_id[s]] + g.c
          /\ check[new_id[g.next]] = new_id[s]
      BY <1>2, <2>3 DEF ChildrenInv
    <3>2. new_id'[g.next] = new_id[g.next] /\ new_id[g.next] \in Units
      BY <1>22, <2>1, <3>1
    <3>3. check[new_id[g.next]] # NoState
      BY <1>3, <1>26, <2>3, <3>1 DEF NoState
    <3>4. check'[new_id[g.next]] = check[new_id[g.next]]
      BY <1>15, <3>2, <3>3
    <3> QED
      BY <1>21, <1>26, <2>1, <2>3, <3>1, <3>2, <3>4
  <2> QED
    BY <1>25, <2>2, <2>3
<1>29. OwnersInv'
  <2> SUFFICES ASSUME NEW u \in 0 .. size - 1, check'[u] \in 0 .. size - 1
               PROVE  \E s \in States(dict) :
                         /\ Expanded(s)' /\ check'[u] = new_id'[s]
                         /\ \E g \in Elements(dict.gotos[s]) : u = base'[new_id'[s]] + g.c
    BY <1>1, <1>12 DEF OwnersInv, Units
  <2>1. check'[u] \notin {NoState, Closed}
    BY <1>11 DEF NoState, Closed
  <2>2. CASE u \in taken /\ check'[u] = ns
    <3>1. PICK g \in Elements(gotos) : u = b + g.c
      BY <2>2 DEF taken
    <3>2. g \in Elements(dict.gotos[Popped])
      BY <3>1 DEF gotos
    <3> QED
      BY <1>4, <1>25, <1>27, <2>2, <3>1, <3>2
  <2>3. CASE u \in Units /\ check'[u] = check[u]
    <3>1. check[u] \in Units
      BY <1>2, <2>1, <2>3 DEF CellsInv
    <3>2. PICK s \in States(dict) :
             /\ Expanded(s) /\ check[u] = new_id[s]
             /\ \E g \in Elements(dict.gotos[s]) : u = base[new_id[s]] + g.c
      BY <1>2, <2>3, <3>1 DEF OwnersInv
    <3> QED
      BY <1>25, <1>26, <2>3, <3>2
  <2> QED
    BY <1>16, <2>1, <2>2, <2>3
<1>30. DepthInv'
  <2> DEFINE before == {t \in States(dict) : Placed(t)}
             after == {t \in States(dict) : Placed(t)'}
  <2>1. depth' \in [States(dict) -> Nat]
    BY <1>1, <1>2, <1>4 DEF DepthInv, isChild
  <2>2. \A s \in States(dict) : ~isChild(s) => depth'[s] = depth[s]
    BY <1>1 DEF isChild
  <2>3. \A s \in States(dict) : isChild(s) => depth'[s] = depth[Popped] + 1
    BY <1>1 DEF isChild
  <2>4. IsFiniteSet(States(dict))
    <3>1. 0 \in Int /\ dict.n - 1 \in Int
      BY <1>2, <1>4, GotosOf
    <3> QED
      BY <3>1, FS_Interval DEF States
  <2>5. before \subseteq after /\ after \subseteq States(dict) /\ before # after
    <3>1. PICK g \in Elements(gotos) : TRUE
      BY <1>6
    <3>2. g.next \in after /\ g.next \notin before
      BY <1>5, <1>8, <1>18, <1>21 DEF Placed
    <3> QED
      BY <1>21, <3>2
  <2>6. IsFiniteSet(after) /\ IsFiniteSet(before)
    BY <2>4, <2>5, FS_Subset
  <2>7. Cardinality(before) < Cardinality(after) /\ Cardinality(before) \in Nat /\ Cardinality(after) \in Nat
    BY <2>5, <2>6, FS_Subset, FS_CardinalityType
  <2> HIDE DEF before, after
  <2>8. \A s \in States(dict) : Placed(s) => depth[s] < Cardinality(before) /\ depth[s] \in Nat
    BY <1>2 DEF DepthInv, before
  <2>9. \A s \in States(dict) : Placed(s)' => depth'[s] < Cardinality(after)
    <3> SUFFICES ASSUME NEW s \in States(dict), Placed(s)'
                 PROVE  depth'[s] < Cardinality(after)
      OBVIOUS
    <3>1. CASE isChild(s)
      <4>1. depth[Popped] < Cardinality(before) /\ depth[Popped] \in Nat
        BY <1>4, <2>8
      <4> QED
        BY <2>3, <2>7, <3>1, <4>1
    <3>2. CASE ~isChild(s)
      BY <1>21, <2>2, <2>7, <2>8, <3>2
    <3> QED
      BY <3>1, <3>2
  <2>10. \A s \in States(dict) : ~Placed(s)' => depth'[s] = 0
    BY <1>2, <1>21, <2>2 DEF DepthInv
  <2> QED
    BY <1>1, <2>1, <2>9, <2>10 DEF DepthInv, after
<1>31. LayoutInv'
  BY <1>23, <1>24, <1>28, <1>29, <1>30 DEF LayoutInv
<1> QED
  BY <1>24, <1>31 DEF isChild, gotos

-----------------------------------------------------------------------------
(* The other steps *)

LEMMA InitIInv == Init => IInv
<1> SUFFICES ASSUME Init PROVE IInv
  OBVIOUS
<1>1. /\ dict \in Dictionaries /\ phase = "read" /\ at = 0 /\ cur = 0
      /\ text \in Seq(Nat) /\ i \in 0 .. Len(text) /\ i = 0
  BY DEF Init
<1>2. dict.n \in Nat
  BY <1>1, AutomatonAssumption
<1> QED
  BY <1>1, <1>2 DEF IInv, ReadInv, LayoutInv, TablesInv, MatchInv, Building, Built

\* build_canonical's first cell and first state.
LEMMA ReadEntriesKeeps ==
    ASSUME IInv, ReadEntries
    PROVE  LayoutInv'
<1>1. /\ dict' = dict /\ dict.n > 0 /\ dict.n \in Nat
      /\ base' = [u \in {0} |-> 0] /\ check' = [u \in {0} |-> Closed]
      /\ new_id' = [s \in States(dict) |-> IF s = 0 THEN 0 ELSE NoState]
      /\ depth' = [s \in States(dict) |-> 0] /\ stack' = <<0>>
  BY AutomatonAssumption DEF ReadEntries, IInv, ReadInv
<1>2. 0 \in States(dict)
  BY <1>1 DEF States
<1>3. \A s \in States(dict) : Placed(s)' <=> s = 0
  BY <1>1 DEF Placed, NoState
<1>4. \A s \in States(dict) : Waiting(s)' <=> s = 0
  BY <1>1 DEF Waiting
<1>5. CellsInv'
  <2>1. 1 \in Nat \ {0} /\ Units' = 0 .. 1 - 1 /\ DOMAIN base' = 0 .. 1 - 1
    BY <1>1 DEF Units
  <2> QED
    BY <1>1, <1>2, <1>3, <2>1 DEF CellsInv, Units, NoState, Closed
<1>6. StackInv'
  <2>1. DOMAIN stack' = {1} /\ stack'[1] = 0 /\ stack' \in Seq(States(dict))
    BY <1>1, <1>2
  <2> QED
    BY <1>1, <1>2, <1>3, <2>1 DEF StackInv
<1>7. ChildrenInv'
  BY <1>1, <1>3, <1>4 DEF ChildrenInv, Expanded
<1>8. OwnersInv'
  BY <1>1 DEF OwnersInv, Units, Closed
<1>9. DepthInv'
  <2>1. {s \in States(dict) : Placed(s)'} = {0}
    BY <1>2, <1>3
  <2>2. Cardinality({0}) = 1
    BY FS_Singleton
  <2> QED
    BY <1>1, <2>1, <2>2 DEF DepthInv
<1> QED
  BY <1>5, <1>6, <1>7, <1>8, <1>9 DEF LayoutInv

LEMMA PlaceLeafKeeps ==
    ASSUME IInv, PlaceLeaf
    PROVE  LayoutInv'
<1>1. /\ dict' = dict /\ phase' = phase /\ phase = "place" /\ stack # <<>>
      /\ dict.gotos[Popped] = <<>> /\ stack' = Rest
      /\ base' = base /\ check' = check /\ new_id' = new_id /\ depth' = depth
  BY DEF PlaceLeaf
<1>2. CellsInv /\ StackInv /\ ChildrenInv /\ OwnersInv /\ DepthInv
  BY <1>1 DEF IInv, ReadInv, LayoutInv, Building
<1>3. /\ Popped \in States(dict) /\ Placed(Popped)
      /\ Rest \in Seq(States(dict))
      /\ Len(stack) \in Nat \ {0}
      /\ DOMAIN Rest = 1 .. Len(stack) - 1 /\ DOMAIN stack = 1 .. Len(stack)
      /\ \A k \in 1 .. Len(stack) - 1 : Rest[k] = stack[k] /\ Rest[k] # Popped
      /\ \A s : Waiting(s) <=> s = Popped \/ \E k \in DOMAIN Rest : Rest[k] = s
  BY <1>1, <1>2, PoppedFrom
<1>4. \A s \in States(dict) : Placed(s)' <=> Placed(s)
  BY <1>1 DEF Placed
<1>5. \A s \in States(dict) : Waiting(s)' <=> Waiting(s) /\ s # Popped
  BY <1>1, <1>3 DEF Waiting
<1>6. \A s \in States(dict) : Expanded(s)' <=> Expanded(s) \/ s = Popped
  BY <1>3, <1>4, <1>5 DEF Expanded
<1>7. CellsInv'
  BY <1>1, <1>2, <1>4 DEF CellsInv, Units
<1>8. StackInv'
  <2>1. \A k \in DOMAIN Rest : k \in DOMAIN stack /\ Rest[k] = stack[k]
    BY <1>3
  <2> QED
    BY <1>1, <1>2, <1>3, <2>1 DEF StackInv, Placed
<1>9. ChildrenInv'
  <2>1. Elements(dict.gotos[Popped]) = {}
    BY <1>1 DEF Elements
  <2> QED
    BY <1>1, <1>2, <1>6, <2>1 DEF ChildrenInv, Placed
<1>10. OwnersInv'
  BY <1>1, <1>2, <1>6 DEF OwnersInv, Units
<1>11. DepthInv'
  BY <1>1, <1>2 DEF DepthInv, Placed
<1> QED
  BY <1>7, <1>8, <1>9, <1>10, <1>11 DEF LayoutInv

\* A step that leaves the cells alone.
LEMMA SameLayout ==
    ASSUME LayoutInv, dict' = dict, layout' = layout, Building' => Building
    PROVE  LayoutInv'
<1>1. /\ base' = base /\ check' = check /\ new_id' = new_id /\ depth' = depth /\ stack' = stack
  BY DEF layout
<1> SUFFICES ASSUME Building PROVE (CellsInv /\ StackInv /\ ChildrenInv /\ OwnersInv /\ DepthInv)'
  BY DEF LayoutInv
<1>2. CellsInv /\ StackInv /\ ChildrenInv /\ OwnersInv /\ DepthInv
  BY DEF LayoutInv
<1>3. CellsInv'
  BY <1>1, <1>2 DEF CellsInv, Placed, Units
<1>4. StackInv'
  BY <1>1, <1>2 DEF StackInv, Placed
<1>5. ChildrenInv' /\ OwnersInv'
  BY <1>1, <1>2 DEF ChildrenInv, OwnersInv, Expanded, Placed, Waiting, Units
<1>6. DepthInv'
  BY <1>1, <1>2 DEF DepthInv, Placed
<1> QED
  BY <1>3, <1>4, <1>5, <1>6

LEMMA SameTables ==
    ASSUME TablesInv, dict' = dict, layout' = layout, tables' = tables, Built' => Built
    PROVE  TablesInv'
<1>1. /\ check' = check /\ new_id' = new_id /\ depth' = depth /\ stack' = stack
      /\ fail' = fail /\ out' = out /\ root_next' = root_next
  BY DEF layout, tables
<1> QED
  BY <1>1 DEF TablesInv, Reached, Shortens, Units

LEMMA RemapKeeps ==
    ASSUME IInv, Remap
    PROVE  TablesInv'
<1> DEFINE holder == [u \in Units |-> {s \in States(dict) : new_id[s] = u}]
           root == dict.gotos[0]
<1>1. /\ dict' = dict /\ phase = "place" /\ stack = <<>> /\ Reached /\ Shortens
      /\ stack' = stack /\ new_id' = new_id /\ check' = check /\ depth' = depth
      /\ fail' = [u \in Units |-> IF holder[u] = {} THEN 0 ELSE Failure(CHOOSE s \in holder[u] : TRUE)]
      /\ DOMAIN out' = Units
      /\ root_next' = [c \in 0 .. Width(root) - 1 |->
            IF \E g \in Elements(root) : g.c = c
            THEN new_id[(CHOOSE g \in Elements(root) : g.c = c).next] ELSE NoState]
  BY DEF Remap, Width, layout
<1>2. CellsInv
  BY <1>1 DEF IInv, ReadInv, LayoutInv, Building
<1>3. \A s \in States(dict) : fail'[new_id[s]] = new_id[dict.failure[s]]
  <2> TAKE s \in States(dict)
  <2>1. new_id[s] \in Units /\ Placed(s)
    BY <1>1, <1>2 DEF Reached, CellsInv, Placed
  <2>2. holder[new_id[s]] = {s}
    BY <1>2, <2>1 DEF CellsInv
  <2> HIDE DEF holder
  <2> QED
    BY <1>1, <2>1, <2>2 DEF Failure
<1>4. Reached' /\ Shortens' /\ Units' = Units /\ DOMAIN fail' = Units
  BY <1>1 DEF Reached, Shortens, Units
<1> HIDE DEF holder
<1>5. /\ \A s \in States(dict') : fail'[new_id'[s]] = new_id'[dict'.failure[s]]
      /\ root_next' = [c \in 0 .. Width(dict'.gotos[0]) - 1 |->
            IF \E g \in Elements(dict'.gotos[0]) : g.c = c
            THEN new_id'[(CHOOSE g \in Elements(dict'.gotos[0]) : g.c = c).next] ELSE NoState]
  BY <1>1, <1>3
<1> QED
  BY <1>1, <1>4, <1>5 DEF TablesInv

-----------------------------------------------------------------------------
(* Transitions *)

\* A cell that checks as a state's is the cell of a child of that state.
LEMMA OwnedByOne ==
    ASSUME IInv, Building, NEW s \in States(dict), Placed(s), NEW u \in Units, check[u] = new_id[s]
    PROVE  /\ Expanded(s)
           /\ \E g \in Elements(dict.gotos[s]) : u = base[new_id[s]] + g.c /\ new_id[g.next] = u
<1>1. CellsInv /\ OwnersInv /\ ChildrenInv
  BY DEF IInv, LayoutInv
<1>2. new_id[s] \in Units
  BY <1>1 DEF CellsInv, Placed
<1>3. PICK t \in States(dict) :
         /\ Expanded(t) /\ check[u] = new_id[t]
         /\ \E g \in Elements(dict.gotos[t]) : u = base[new_id[t]] + g.c
  BY <1>1, <1>2 DEF OwnersInv
<1>4. t = s
  BY <1>1, <1>3 DEF CellsInv
<1> QED
  BY <1>1, <1>3, <1>4 DEF ChildrenInv

LEMMA TransitionsAreGotos ==
    ASSUME IInv, Built, NEW s \in States(dict), NEW c \in Nat
    PROVE  /\ \A g \in Elements(dict.gotos[s]) :
                 g.c = c => Step(new_id[s], c) = new_id[g.next] /\ g.next \in States(dict)
           /\ (\A g \in Elements(dict.gotos[s]) : g.c # c) => Step(new_id[s], c) = NoState
           /\ \A g, h \in Elements(dict.gotos[s]) : g.c = h.c => g = h
<1>1. /\ Building /\ ReadInv /\ CellsInv /\ ChildrenInv /\ OwnersInv
      /\ stack = <<>> /\ Reached
  BY DEF IInv, LayoutInv, TablesInv, Built, Building
<1>2. \A t \in States(dict) : Expanded(t) /\ Placed(t) /\ new_id[t] \in Units
  BY <1>1 DEF Expanded, Placed, Waiting, Reached, CellsInv
<1>3. /\ dict.gotos[s] \in Gotos /\ Ascending(dict.gotos[s])
      /\ \A g \in Elements(dict.gotos[s]) : g.c \in Nat /\ g.next \in States(dict)
  BY <1>1, GotosOf
<1>4. base[new_id[s]] \in Nat
  BY <1>1, <1>2 DEF CellsInv
<1>5. \A g \in Elements(dict.gotos[s]) : g.c = c => Step(new_id[s], c) = new_id[g.next]
  <2> SUFFICES ASSUME NEW g \in Elements(dict.gotos[s]), g.c = c
               PROVE  Step(new_id[s], c) = new_id[g.next]
    OBVIOUS
  <2>1. new_id[g.next] = base[new_id[s]] + g.c /\ check[new_id[g.next]] = new_id[s]
    BY <1>1, <1>2 DEF ChildrenInv
  <2> QED
    BY <1>2, <1>3, <2>1 DEF Step
<1>6. (\A g \in Elements(dict.gotos[s]) : g.c # c) => Step(new_id[s], c) = NoState
  <2> SUFFICES ASSUME Step(new_id[s], c) # NoState
               PROVE  \E g \in Elements(dict.gotos[s]) : g.c = c
    OBVIOUS
  <2>1. base[new_id[s]] + c \in Units /\ check[base[new_id[s]] + c] = new_id[s]
    BY DEF Step
  <2>2. PICK g \in Elements(dict.gotos[s]) : base[new_id[s]] + c = base[new_id[s]] + g.c
    BY <1>1, <1>2, <2>1, OwnedByOne
  <2> QED
    BY <1>3, <1>4, <2>2
<1>7. \A g, h \in Elements(dict.gotos[s]) : g.c = h.c => g = h
  <2> DEFINE gotos == dict.gotos[s]
  <2>1. /\ \A j, k \in DOMAIN gotos : j < k => gotos[j].c < gotos[k].c
        /\ DOMAIN gotos = 1 .. Len(gotos) /\ Len(gotos) \in Nat
    BY <1>3, AscendingKeys DEF Gotos
  <2>2. \A k \in DOMAIN gotos : gotos[k].c \in Nat
    BY <1>3 DEF Elements
  <2>3. \A j, k \in DOMAIN gotos : gotos[j].c = gotos[k].c => j = k
    BY <2>1, <2>2
  <2> QED
    BY <2>3 DEF Elements
<1> QED
  BY <1>3, <1>5, <1>6, <1>7

LEMMA RootTransitions ==
    ASSUME IInv, Built, NEW c \in Nat
    PROVE  RootStep(c) = Step(0, c)
<1> DEFINE root == dict.gotos[0]
<1>1. /\ Building /\ ReadInv /\ CellsInv /\ dict.n > 0
      /\ root_next = [x \in 0 .. Width(root) - 1 |->
            IF \E g \in Elements(root) : g.c = x
            THEN new_id[(CHOOSE g \in Elements(root) : g.c = x).next] ELSE NoState]
  BY DEF IInv, LayoutInv, TablesInv, Built, Building
<1>2. 0 \in States(dict) /\ new_id[0] = 0
  <2>1. dict.n \in Nat
    BY <1>1, AutomatonAssumption DEF ReadInv
  <2> QED
    BY <1>1, <2>1 DEF CellsInv, States
<1>3. /\ \A g \in Elements(root) : g.c = c => Step(0, c) = new_id[g.next]
      /\ (\A g \in Elements(root) : g.c # c) => Step(0, c) = NoState
      /\ \A g, h \in Elements(root) : g.c = h.c => g = h
  BY <1>2, TransitionsAreGotos
<1>4. root \in Gotos /\ Ascending(root) /\ \A g \in Elements(root) : g.c \in Nat
  BY <1>1, <1>2, GotosOf
<1>5. \A g \in Elements(root) : g.c \in 0 .. Width(root) - 1
  <2> SUFFICES ASSUME NEW g \in Elements(root) PROVE g.c \in 0 .. Width(root) - 1
    OBVIOUS
  <2>1. root # <<>>
    BY DEF Elements
  <2> HIDE DEF root
  <2>2. PICK k \in DOMAIN root : g = root[k]
    BY DEF Elements
  <2>3. Len(root) \in DOMAIN root /\ g.c <= root[Len(root)].c
    BY <1>4, <2>1, <2>2, KeyOfLast
  <2>4. root[Len(root)].c \in Nat
    BY <1>4, <2>3 DEF Elements
  <2> QED
    BY <1>4, <2>1, <2>3, <2>4 DEF Width
<1> HIDE DEF root
<1>6. CASE \E g \in Elements(root) : g.c = c
  <2>1. PICK g \in Elements(root) : g.c = c
    BY <1>6
  <2>2. (CHOOSE h \in Elements(root) : h.c = c) = g
    BY <1>3, <2>1
  <2>3. c \in 0 .. Width(root) - 1
    BY <1>5, <2>1
  <2>4. RootStep(c) = new_id[g.next]
    BY <1>1, <2>1, <2>2, <2>3 DEF RootStep
  <2> QED
    BY <1>3, <2>1, <2>4
<1>7. CASE \A g \in Elements(root) : g.c # c
  <2>1. RootStep(c) = NoState
    BY <1>1, <1>7 DEF RootStep
  <2> QED
    BY <1>3, <1>7, <2>1
<1> QED
  BY <1>6, <1>7
LEMMA HeldNow ==
    ASSUME IInv, phase = "match"
    PROVE  /\ Built /\ Building
           /\ \E s \in States(dict) : new_id[s] = cur
           /\ \A s \in States(dict) : Placed(s) /\ new_id[s] \in Units
           /\ 0 \in States(dict) /\ new_id[0] = 0
<1>1. Built /\ Building
  BY DEF IInv, ReadInv, Built, Building
<1>2. Reached /\ CellsInv /\ dict.n \in Nat
  BY <1>1, AutomatonAssumption DEF IInv, TablesInv, LayoutInv, ReadInv
<1>3. 0 \in States(dict)
  BY <1>1, <1>2 DEF Built, States
<1> QED
  BY <1>1, <1>2, <1>3 DEF IInv, MatchInv, Reached, Placed, CellsInv

\* Where a step of match() leads: to a state's cell, and by a failure link to
\* one less deep.
LEMMA HeldNext ==
    ASSUME IInv, FollowFailure \/ Consume
    PROVE  /\ \E s \in States(dict) : new_id[s] = cur'
           /\ FollowFailure => \E s, t \in States(dict) :
                 new_id[s] = cur /\ new_id[t] = cur' /\ depth[t] < depth[s]
<1>1. phase = "match"
  BY DEF FollowFailure, Consume, InText
<1>2. /\ Built /\ Building
      /\ \A s \in States(dict) : Placed(s) /\ new_id[s] \in Units
      /\ 0 \in States(dict) /\ new_id[0] = 0
  BY <1>1, HeldNow
<1>3. PICK s \in States(dict) : new_id[s] = cur
  BY <1>1, HeldNow
<1>4. /\ ReadInv
      /\ Shortens /\ \A t \in States(dict) : fail[new_id[t]] = new_id[dict.failure[t]]
      /\ root_next = [c \in 0 .. Width(dict.gotos[0]) - 1 |->
              IF \E g \in Elements(dict.gotos[0]) : g.c = c
              THEN new_id[(CHOOSE g \in Elements(dict.gotos[0]) : g.c = c).next] ELSE NoState]
  BY <1>2 DEF IInv, TablesInv
<1>5. CASE FollowFailure
  <2>1. cur' = fail[cur] /\ cur # 0
    BY <1>5 DEF FollowFailure
  <2>2. s # 0 /\ dict.failure[s] \in States(dict)
    BY <1>2, <1>3, <1>4, <2>1, GotosOf
  <2>3. depth[dict.failure[s]] < depth[s] /\ new_id[dict.failure[s]] = cur'
    BY <1>3, <1>4, <2>1, <2>2 DEF Shortens
  <2> QED
    BY <1>3, <2>2, <2>3
<1>6. CASE Consume
  <2>1. cur' = IF Target = NoState THEN 0 ELSE Target
    BY <1>6 DEF Consume
  <2>2. ~FollowFailure
    BY <1>6 DEF FollowFailure, Consume
  <2>3. CASE Target = NoState
    BY <1>2, <2>1, <2>2, <2>3
  <2>4. CASE Target # NoState /\ cur = 0
    <3> DEFINE root == dict.gotos[0]
               c == text[i + 1]
    <3>1. cur' = RootStep(c) /\ RootStep(c) # NoState
      BY <2>1, <2>4 DEF Target
    <3>2. PICK g \in Elements(root) : cur' = new_id[g.next]
      BY <1>4, <3>1 DEF RootStep
    <3>3. g.next \in States(dict)
      BY <1>2, <1>4, GotosOf
    <3> QED
      BY <2>2, <3>2, <3>3
  <2>5. CASE Target # NoState /\ cur # 0
    <3>1. cur' = Step(cur, text[i + 1]) /\ cur' # NoState
      BY <2>1, <2>5 DEF Target
    <3>2. cur' \in Units /\ check[cur'] = new_id[s]
      BY <1>3, <3>1 DEF Step
    <3>3. PICK g \in Elements(dict.gotos[s]) : new_id[g.next] = cur'
      BY <1>2, <3>2, OwnedByOne
    <3>4. g.next \in States(dict)
      BY <1>2, <1>4, GotosOf
    <3> QED
      BY <2>2, <3>3, <3>4
  <2> QED
    BY <2>3, <2>4, <2>5
<1> QED
  BY <1>5, <1>6

LEMMA NextIInv == IInv /\ [Next]_vars => IInv'
<1> SUFFICES ASSUME IInv, [Next]_vars PROVE IInv'
  OBVIOUS
<1> USE DEF Building, Built
<1>0. /\ dict \in Dictionaries /\ dict.n \in Nat
      /\ phase \in {"read", "place", "ready", "rejected", "match", "done"}
      /\ phase \in {"place", "match"} => dict.n > 0
      /\ phase = "read" => at \in 0 .. dict.n /\ \A s \in 0 .. at - 1 : WellRead(s)
      /\ Building => \A s \in States(dict) : WellRead(s)
      /\ LayoutInv /\ TablesInv /\ MatchInv
  BY AutomatonAssumption DEF IInv, ReadInv
<1>1. CASE Truncated \/ RejectState \/ RejectEntries \/ RejectGraph \/ RejectLinks
  <2>1. dict' = dict /\ phase' = "rejected" /\ cur' = cur /\ text' = text /\ i' = i
    BY <1>1 DEF Truncated, RejectState, RejectEntries, RejectGraph, RejectLinks, Reject, matching
  <2> QED
    BY <1>0, <2>1 DEF IInv, ReadInv, LayoutInv, TablesInv, MatchInv
<1>2. CASE ReadAbsent
  <2>1. /\ dict' = dict /\ phase' = "ready" /\ dict.n = 0 /\ cur' = cur /\ phase = "read"
        /\ text' = text /\ i' = i
    BY <1>2 DEF ReadAbsent, matching
  <2> QED
    BY <1>0, <2>1 DEF IInv, ReadInv, LayoutInv, TablesInv, MatchInv
<1>3. CASE ReadState
  <2>1. /\ dict' = dict /\ phase' = phase /\ phase = "read" /\ at < dict.n
        /\ WellRead(at) /\ at' = at + 1 /\ cur' = cur /\ text' = text /\ i' = i
    BY <1>3 DEF ReadState, matching
  <2>2. \A s \in 0 .. at' - 1 : WellRead(s)'
    BY <1>0, <2>1 DEF WellRead, InRange
  <2>3. at' \in 0 .. dict.n
    BY <1>0, <2>1
  <2> QED
    BY <1>0, <2>1, <2>2, <2>3 DEF IInv, ReadInv, LayoutInv, TablesInv, MatchInv
<1>4. CASE ReadEntries
  <2>1. /\ dict' = dict /\ phase' = "place" /\ phase = "read" /\ at = dict.n /\ dict.n > 0
        /\ cur' = cur /\ text' = text /\ i' = i
    BY <1>4 DEF ReadEntries, matching
  <2>2. \A s \in States(dict) : WellRead(s)'
    BY <1>0, <2>1 DEF WellRead, InRange, States
  <2>3. LayoutInv'
    BY <1>4, ReadEntriesKeeps
  <2> QED
    BY <1>0, <2>1, <2>2, <2>3 DEF IInv, ReadInv, TablesInv, MatchInv
<1>5. CASE PlaceLeaf \/ PlaceChildren
  <2>1. dict' = dict /\ phase' = phase /\ phase = "place" /\ cur' = cur /\ text' = text /\ i' = i
    BY <1>5 DEF PlaceLeaf, PlaceChildren, matching
  <2>2. \A s \in States(dict) : WellRead(s)'
    BY <1>0, <2>1 DEF WellRead, InRange
  <2>3. LayoutInv'
    BY <1>5, PlaceLeafKeeps, PlaceChildrenKeeps
  <2> QED
    BY <1>0, <2>1, <2>2, <2>3 DEF IInv, ReadInv, TablesInv, MatchInv
<1>6. CASE Remap
  <2>1. /\ dict' = dict /\ phase' = "ready" /\ phase = "place" /\ layout' = layout
        /\ cur' = cur /\ text' = text /\ i' = i
    BY <1>6 DEF Remap, matching
  <2>2. \A s \in States(dict) : WellRead(s)'
    BY <1>0, <2>1 DEF WellRead, InRange
  <2>3. LayoutInv'
    BY <1>0, <2>1, SameLayout
  <2>4. TablesInv'
    BY <1>6, RemapKeeps
  <2> QED
    BY <1>0, <2>1, <2>2, <2>3, <2>4 DEF IInv, ReadInv, MatchInv
<1>7. CASE StartMatch \/ FollowFailure \/ Consume \/ EndMatch \/ UNCHANGED vars
  <2>1. /\ dict' = dict /\ layout' = layout /\ tables' = tables /\ at' = at
        /\ phase' = "match" => dict.n # 0
        /\ phase' = phase \/ (phase = "ready" /\ phase' \in {"match", "done"}) \/ (phase = "match" /\ phase' = "done")
    BY <1>0, <1>7 DEF StartMatch, FollowFailure, Consume, EndMatch, InText, vars, reading, layout, tables
  <2>2. LayoutInv' /\ TablesInv'
    BY <1>0, <2>1, SameLayout, SameTables
  <2>3. ReadInv'
    BY <1>0, <2>1 DEF ReadInv, WellRead, InRange
  <2>4. new_id' = new_id
    BY <2>1 DEF layout
  <2>5. MatchInv'
    <3>1. CASE StartMatch
      <4>1. /\ cur' = cur /\ i' = i /\ phase = "ready" /\ phase' \in {"match", "done"}
            /\ text' \in Texts
        BY <3>1 DEF StartMatch
      <4>3. text' \in Seq(Nat) /\ i' \in 0 .. Len(text')
        BY <4>1, <1>0, AutomatonAssumption DEF MatchInv
      <4>2. phase' = "match" => 0 \in States(dict) /\ new_id[0] = 0
        BY <1>0, <2>1, <4>1 DEF States, LayoutInv, CellsInv
      <4> QED
        BY <1>0, <2>1, <2>4, <4>1, <4>2, <4>3 DEF MatchInv
    <3>2. CASE FollowFailure \/ Consume
      <4>1. \E s \in States(dict) : new_id[s] = cur'
        BY <3>2, HeldNext
      <4>2. phase' = "match"
        BY <3>2 DEF FollowFailure, Consume, InText
      <4>3. text' = text /\ i < Len(text) /\ (i' = i \/ i' = i + 1)
        BY <3>2 DEF FollowFailure, Consume, InText
      <4>4. text' \in Seq(Nat) /\ i' \in 0 .. Len(text')
        BY <1>0, <4>3 DEF MatchInv
      <4> QED
        BY <2>1, <2>4, <4>1, <4>2, <4>4 DEF MatchInv
    <3>3. CASE EndMatch
      <4>1. phase' = "done" /\ text' = text /\ i' = i
        BY <3>3 DEF EndMatch, matching
      <4> QED
        BY <1>0, <4>1 DEF MatchInv
    <3>4. CASE UNCHANGED vars
      <4>1. cur' = cur /\ phase' = phase /\ text' = text /\ i' = i
        BY <3>4 DEF vars, matching
      <4> QED
        BY <1>0, <2>1, <2>4, <4>1 DEF MatchInv
    <3> QED
      BY <1>7, <3>1, <3>2, <3>3, <3>4
  <2> QED
    BY <2>2, <2>3, <2>5 DEF IInv
<1> QED
  BY <1>1, <1>2, <1>3, <1>4, <1>5, <1>6, <1>7 DEF Next

-----------------------------------------------------------------------------
(* Types, and the cap of the free list *)

LayoutOK ==
    /\ DOMAIN base = Units /\ Units = 0 .. Cardinality(Units) - 1
    /\ \A u \in Units : base[u] \in Nat /\ check[u] \in {NoState, Closed} \cup Units
    /\ new_id \in [DOMAIN new_id -> {NoState} \cup Units] /\ depth \in [DOMAIN new_id -> 0 .. dict.n]
    /\ stack \in Seq(States(dict)) /\ Len(stack) <= dict.n

ControlOK ==
    /\ at \in 0 .. dict.n /\ out_bound \in Nat
    /\ reason \in {"none", "truncated", "malformed"}
    /\ cur \in {0} \cup Units
    /\ Cardinality(Free(check)) <= FreeListCap
    /\ ~Building => LayoutOK
    /\ phase = "read" => check = Empty /\ stack = <<>> /\ base = Empty /\ new_id = Empty

LEMMA BuildingTyped ==
    ASSUME IInv, Building
    PROVE  LayoutOK
<1>1. CellsInv /\ StackInv /\ DepthInv /\ dict.n \in Nat
  BY AutomatonAssumption DEF IInv, LayoutInv, ReadInv
<1>2. PICK size \in Nat \ {0} : Units = 0 .. size - 1 /\ DOMAIN base = 0 .. size - 1
  BY <1>1 DEF CellsInv
<1>3. Cardinality(Units) = size
  BY <1>2, FS_Interval
<1>4. IsFiniteSet(States(dict)) /\ Cardinality(States(dict)) = dict.n
  <2>1. 0 \in Int /\ dict.n - 1 \in Int /\ (IF 0 > dict.n - 1 THEN 0 ELSE dict.n - 1 - 0 + 1) = dict.n
    BY <1>1
  <2>2. IsFiniteSet(0 .. dict.n - 1) /\ Cardinality(0 .. dict.n - 1) = dict.n
    BY <2>1, FS_Interval
  <2> QED
    BY <2>2 DEF States
<1>5. new_id \in [States(dict) -> {NoState} \cup Units] /\ depth \in [States(dict) -> Nat]
  BY <1>1 DEF CellsInv, DepthInv
<1>6. \A s \in States(dict) : depth[s] \in 0 .. dict.n
  <2> TAKE s \in States(dict)
  <2> DEFINE placed == {t \in States(dict) : Placed(t)}
  <2>1. Cardinality(placed) <= dict.n /\ Cardinality(placed) \in Nat
    BY <1>4, FS_Subset, FS_CardinalityType
  <2> HIDE DEF placed
  <2>2. depth[s] \in Nat /\ (depth[s] = 0 \/ depth[s] < Cardinality(placed))
    BY <1>1 DEF DepthInv, placed
  <2> QED
    BY <1>1, <2>1, <2>2
<1>7. stack \in Seq(States(dict)) /\ Len(stack) <= dict.n
  <2>1. stack \in Seq(States(dict)) /\ Len(stack) \in Nat /\ DOMAIN stack = 1 .. Len(stack)
    BY <1>1 DEF StackInv
  <2>2. stack \in Injection(1 .. Len(stack), States(dict))
    <3>1. stack \in [1 .. Len(stack) -> States(dict)]
      BY <2>1
    <3>2. \A j, k \in 1 .. Len(stack) : stack[j] = stack[k] => j = k
      BY <1>1, <2>1 DEF StackInv
    <3> QED
      BY <3>1, <3>2 DEF Injection, IsInjective
  <2>3. Cardinality(1 .. Len(stack)) <= dict.n
    BY <1>4, <2>2, FS_Injection
  <2>4. Cardinality(1 .. Len(stack)) = Len(stack)
    BY <2>1, FS_Interval
  <2> QED
    BY <2>1, <2>3, <2>4
<1> QED
  BY <1>1, <1>2, <1>3, <1>5, <1>6, <1>7 DEF LayoutOK, CellsInv

\* The cap, as the steps that change the cells leave it.
LEMMA FreeIsCapped ==
    ASSUME IInv, ControlOK, [Next]_vars
    PROVE  Cardinality(Free(check))' <= FreeListCap
<1>1. FreeListCap \in Nat \ {0} /\ Cardinality(Free(check)) <= FreeListCap
  BY AutomatonAssumption DEF ControlOK
<1>2. CASE ReadEntries
  <2>1. Free(check') = {}
    BY <1>2 DEF ReadEntries, Free, Closed, NoState
  <2>2. Cardinality({}) = 0
    BY FS_EmptySet
  <2> QED
    BY <1>1, <2>1, <2>2
<1>3. CASE PlaceChildren
  <2> DEFINE gotos == dict.gotos[Popped]
             reach == BaseFor(gotos) + gotos[Len(gotos)].c
             ns == new_id[Popped]
             taken == {BaseFor(gotos) + g.c : g \in Elements(gotos)}
             size == Cardinality(Units \cup 0 .. reach)
             cells == [u \in 0 .. size - 1 |->
                          IF u \in taken THEN ns ELSE IF u \in Units THEN check[u] ELSE NoState]
  <2>1. check' = Capped(cells)
    BY <1>3 DEF PlaceChildren
  <2>2. size \in Nat
    <3>1. IsFiniteSet(Units)
      <4>1. CellsInv
        BY <1>3 DEF PlaceChildren, IInv, ReadInv, LayoutInv, Building
      <4> QED
        BY <4>1, FS_Interval DEF CellsInv
    <3>2. reach \in Int
      <4>1. Building /\ CellsInv /\ StackInv /\ ReadInv /\ stack # <<>> /\ gotos # <<>>
        BY <1>3 DEF PlaceChildren, IInv, ReadInv, LayoutInv, Building
      <4>2. Popped \in States(dict)
        BY <4>1, PoppedFrom
      <4>3. gotos \in Gotos /\ Ascending(gotos) /\ \A g \in Elements(gotos) : g.c \in Nat
        BY <4>1, <4>2, GotosOf
      <4> HIDE DEF gotos
      <4>4. BaseFor(gotos) \in Nat
        BY <4>1, <4>3, BaseIsFree DEF CellsInv
      <4>5. gotos[Len(gotos)].c \in Nat
        BY <4>1, <4>3, KeyOfLast DEF Elements
      <4> QED
        BY <4>4, <4>5
    <3> HIDE DEF reach
    <3>3. IsFiniteSet(0 .. reach)
      BY <3>2, FS_Interval
    <3>4. IsFiniteSet(Units \cup 0 .. reach)
      BY <3>1, <3>3, FS_Union
    <3> QED
      BY <3>4, FS_CardinalityType
  <2> HIDE DEF size
  <2>3. DOMAIN cells = 0 .. size - 1
    OBVIOUS
  <2> HIDE DEF cells
  <2> QED
    BY <2>1, <2>2, <2>3, CappedFree
<1>4. CASE ~ReadEntries /\ ~PlaceChildren
  <2>1. check' = check
    BY <1>4 DEF Next, vars, layout, Truncated, RejectState, RejectEntries, RejectGraph, RejectLinks, Reject,
       ReadAbsent, ReadState, PlaceLeaf, Remap, StartMatch, FollowFailure, Consume, EndMatch
  <2> QED
    BY <1>1, <2>1
<1> QED
  BY <1>2, <1>3, <1>4

LEMMA NextControlOK ==
    ASSUME IInv, IInv', ControlOK, [Next]_vars
    PROVE  ControlOK'
<1>1. Cardinality(Free(check))' <= FreeListCap
  BY FreeIsCapped
<1>2. reason' \in {"none", "truncated", "malformed"}
  BY DEF ControlOK, Next, vars, Truncated, RejectState, RejectEntries, RejectGraph, RejectLinks, Reject,
     ReadAbsent, ReadState, ReadEntries, PlaceLeaf, PlaceChildren, Remap, StartMatch, FollowFailure, Consume, EndMatch
<1>3. dict' = dict /\ dict \in Dictionaries /\ dict.n \in Nat
  BY AutomatonAssumption DEF IInv, ReadInv, Next, vars, Truncated, RejectState, RejectEntries, RejectGraph, RejectLinks, Reject,
     ReadAbsent, ReadState, ReadEntries, PlaceLeaf, PlaceChildren, Remap, StartMatch, FollowFailure, Consume, EndMatch
<1>4. at' \in 0 .. dict'.n /\ out_bound' \in Nat
  <2>1. CASE ReadState
    <3>1. at \in 0 .. dict.n /\ at < dict.n /\ at' = at + 1 /\ out_bound' = Bound(out_bound, dict.outputs[at])
      BY <2>1 DEF ReadState, ControlOK
    <3>2. dict.outputs[at] \in Seq(Nat)
      BY <1>3, <3>1, AutomatonAssumption
    <3>3. out_bound' \in Nat
      BY <3>1, <3>2, BoundIs DEF ControlOK
    <3> QED
      BY <1>3, <3>1, <3>3
  <2>2. CASE ~ReadState
    <3>1. at' = at /\ out_bound' = out_bound
      BY <2>2 DEF Next, vars, reading, Truncated, RejectState, RejectEntries, RejectGraph, RejectLinks, Reject,
         ReadAbsent, ReadEntries, PlaceLeaf, PlaceChildren, Remap, StartMatch, FollowFailure, Consume, EndMatch
    <3> QED
      BY <1>3, <3>1 DEF ControlOK
  <2> QED
    BY <2>1, <2>2
<1>5. CASE ReadEntries \/ PlaceLeaf \/ PlaceChildren
  <2>1. cur' = 0 /\ phase' = "place"
    BY <1>5 DEF IInv, MatchInv, ReadEntries, PlaceLeaf, PlaceChildren, matching
  <2>2. Building'
    BY <2>1 DEF IInv, ReadInv, Building
  <2> QED
    BY <1>1, <1>2, <1>4, <2>1, <2>2 DEF ControlOK
<1>6. CASE ~ (ReadEntries \/ PlaceLeaf \/ PlaceChildren)
  <2>1. layout' = layout /\ (phase' = "read" => phase = "read")
    BY <1>6 DEF Next, vars, layout, Truncated, RejectState, RejectEntries, RejectGraph, RejectLinks, Reject,
       ReadAbsent, ReadState, Remap, StartMatch, FollowFailure, Consume, EndMatch
  <2>2. /\ base' = base /\ check' = check /\ new_id' = new_id /\ depth' = depth /\ stack' = stack
        /\ Units' = Units
    BY <2>1 DEF layout, Units
  <2>3. LayoutOK
    BY BuildingTyped DEF ControlOK
  <2>4. LayoutOK'
    BY <1>3, <2>2, <2>3 DEF LayoutOK
  <2>5. cur' \in {0} \cup Units'
    <3>1. CASE FollowFailure \/ Consume
      <4>1. PICK s \in States(dict) : new_id[s] = cur'
        BY <3>1, HeldNext
      <4>2. new_id[s] \in Units
        BY <3>1, HeldNow DEF FollowFailure, Consume, InText
      <4> QED
        BY <2>2, <4>1, <4>2
    <3>2. CASE ~ (FollowFailure \/ Consume)
      <4>1. cur' = cur
        BY <1>6, <3>2 DEF Next, vars, matching, Truncated, RejectState, RejectEntries, RejectGraph, RejectLinks, Reject,
           ReadAbsent, ReadState, Remap, StartMatch, EndMatch
      <4> QED
        BY <2>2, <4>1 DEF ControlOK
    <3> QED
      BY <3>1, <3>2
  <2> QED
    BY <1>1, <1>2, <1>4, <2>1, <2>2, <2>4, <2>5 DEF ControlOK
<1> QED
  BY <1>5, <1>6

(***************************************************************************)
(* Every state of the build and of the match is well typed; with it, the   *)
(* free list never outgrows its cap and the stack never the states.        *)
(***************************************************************************)
THEOREM TypeCorrect == Spec => []TypeOK
<1>1. Init => IInv /\ ControlOK
  <2> SUFFICES ASSUME Init PROVE ControlOK
    BY InitIInv
  <2>1. dict.n \in Nat
    BY AutomatonAssumption DEF Init
  <2>2. DOMAIN Empty = {} /\ Units = {} /\ Free(check) = {} /\ Cardinality({}) = 0
    BY FS_EmptySet DEF Init, Empty, Units, Free
  <2>3. LayoutOK
    <3>1. 0 .. 0 - 1 = {}
      OBVIOUS
    <3>2. base = Empty /\ check = Empty /\ new_id = Empty /\ depth = Empty /\ stack = <<>>
      BY DEF Init
    <3> QED
      BY <2>1, <2>2, <3>1, <3>2 DEF LayoutOK, Empty
  <2> QED
    BY <2>1, <2>2, <2>3, AutomatonAssumption DEF Init, ControlOK
<1>2. IInv /\ [Next]_vars => IInv'
  BY NextIInv
<1>3. IInv /\ IInv' /\ ControlOK /\ [Next]_vars => ControlOK'
  BY NextControlOK
<1>4. IInv /\ ControlOK => TypeOK
  <2> SUFFICES ASSUME IInv, ControlOK PROVE TypeOK
    OBVIOUS
  <2>1. LayoutOK
    BY BuildingTyped DEF ControlOK
  <2>2. dict.n \in Nat
    BY AutomatonAssumption DEF IInv, ReadInv
  <2>3. i \in 0 .. Len(text)
    BY DEF IInv, MatchInv
  <2>4. phase \in {"read", "place", "ready", "rejected", "match", "done"}
    BY DEF IInv, ReadInv
  <2> QED
    BY <2>1, <2>2, <2>3, <2>4 DEF TypeOK, ControlOK, LayoutOK
<1> QED
  BY <1>1, <1>2, <1>3, <1>4, PTL DEF Spec

-----------------------------------------------------------------------------
(***************************************************************************)
(* For every file that is accepted, the double array has the transitions   *)
(* of the file and no others, and the root's table agrees with it.         *)
(***************************************************************************)
THEOREM StepIsGotoHolds == Spec => []StepIsGoto
<1>1. Init => IInv
  BY InitIInv
<1>2. IInv /\ [Next]_vars => IInv'
  BY NextIInv
<1>3. IInv => StepIsGoto
  <2> SUFFICES ASSUME IInv, Built, NEW s \in States(dict), NEW c \in 0 .. MaxCharId
               PROVE  LET next == {g.next : g \in {h \in Elements(dict.gotos[s]) : h.c = c}}
                      IN  /\ Step(new_id[s], c) = IF next = {} THEN NoState ELSE new_id[CHOOSE t \in next : TRUE]
                          /\ s = 0 => RootStep(c) = Step(0, c)
    BY DEF StepIsGoto
  <2> DEFINE next == {g.next : g \in {h \in Elements(dict.gotos[s]) : h.c = c}}
  <2>1. c \in Nat
    OBVIOUS
  <2>2. /\ \A g \in Elements(dict.gotos[s]) : g.c = c => Step(new_id[s], c) = new_id[g.next]
        /\ (\A g \in Elements(dict.gotos[s]) : g.c # c) => Step(new_id[s], c) = NoState
        /\ \A g, h \in Elements(dict.gotos[s]) : g.c = h.c => g = h
    BY <2>1, TransitionsAreGotos
  <2>3. next # {} => Step(new_id[s], c) = new_id[CHOOSE t \in next : TRUE]
    <3> SUFFICES ASSUME next # {} PROVE Step(new_id[s], c) = new_id[CHOOSE t \in next : TRUE]
      OBVIOUS
    <3>1. (CHOOSE t \in next : TRUE) \in next
      OBVIOUS
    <3> QED
      BY <2>2, <3>1
  <2>4. next = {} => Step(new_id[s], c) = NoState
    BY <2>2
  <2>5. RootStep(c) = Step(0, c)
    BY <2>1, RootTransitions
  <2> HIDE DEF next
  <2> QED
    BY <2>3, <2>4, <2>5 DEF next
<1> QED
  BY <1>1, <1>2, <1>3, PTL DEF Spec

\* match() reads the cells and the tables where they exist.
MatchesInside ==
    phase = "match" =>
        /\ cur \in Units /\ cur \in DOMAIN base /\ cur \in DOMAIN fail /\ cur \in DOMAIN out
        /\ \A c : Step(cur, c) # NoState => Step(cur, c) \in Units

(***************************************************************************)
(* Whatever is in the file and in the text, match() never leaves the       *)
(* arrays that the load built: the checks of the load are enough.          *)
(***************************************************************************)
THEOREM MatchesInsideHolds == Spec => []MatchesInside
<1>1. Init => IInv
  BY InitIInv
<1>2. IInv /\ [Next]_vars => IInv'
  BY NextIInv
<1>3. IInv => MatchesInside
  <2> SUFFICES ASSUME IInv, phase = "match"
               PROVE  /\ cur \in Units /\ cur \in DOMAIN base /\ cur \in DOMAIN fail /\ cur \in DOMAIN out
                      /\ \A c : Step(cur, c) # NoState => Step(cur, c) \in Units
    BY DEF MatchesInside
  <2>1. /\ Built /\ Building /\ cur \in Units
    BY HeldNow
  <2>2. DOMAIN fail = Units /\ DOMAIN out = Units /\ DOMAIN base = Units
    BY <2>1 DEF IInv, TablesInv, LayoutInv, CellsInv
  <2>3. \A c : Step(cur, c) # NoState => Step(cur, c) \in Units
    BY DEF Step
  <2> QED
    BY <2>1, <2>2, <2>3
<1> QED
  BY <1>1, <1>2, <1>3, PTL DEF Spec

\* A failure link leads from the state held to a less deep one.
FailureShortens ==
    [][FollowFailure => \E s, t \in States(dict) :
          new_id[s] = cur /\ new_id[t] = cur' /\ depth[t] < depth[s]]_vars

(***************************************************************************)
(* "match() terminates only if each failure link shortens the match":      *)
(* every link that match() follows does, whatever the file says, so it     *)
(* follows no more of them between two characters than the depth it is at. *)
(***************************************************************************)
THEOREM FailureShortensHolds == Spec => FailureShortens
<1>1. Init => IInv
  BY InitIInv
<1>2. IInv /\ [Next]_vars => IInv'
  BY NextIInv
<1>3. IInv /\ [Next]_vars =>
         [FollowFailure => \E s, t \in States(dict) :
            new_id[s] = cur /\ new_id[t] = cur' /\ depth[t] < depth[s]]_vars
  BY HeldNext
<1> QED
  BY <1>1, <1>2, <1>3, PTL DEF Spec, FailureShortens

-----------------------------------------------------------------------------
(* Strings and their ends *)

LEMMA Induct ==
    ASSUME NEW S \in SUBSET Nat, 0 \in S, \A n \in S : n + 1 \in S
    PROVE  S = Nat
<1>1. SUFFICES ASSUME Nat \ S # {} PROVE FALSE
  OBVIOUS
<1>2. PICK n \in Nat \ S : \A m \in Nat \ S : n <= m
  BY <1>1, LeastNat
<1>3. n - 1 \in S
  BY <1>2
<1> QED
  BY <1>2, <1>3

Strings == Seq(Nat)

\* The last elements of a string.
LEMMA LastOf ==
    ASSUME NEW t \in Strings, NEW m \in Nat, m <= Len(t)
    PROVE  LET u == SubSeq(t, Len(t) - m + 1, Len(t))
           IN  u \in Strings /\ Len(u) = m /\ \A k \in 1 .. m : u[k] = t[Len(t) - m + k]
<1> DEFINE n == Len(t)
           a == n - m + 1
           u == SubSeq(t, a, n)
<1>1. n \in Nat /\ a \in Int /\ 1 <= a /\ \A k \in 1 .. n : t[k] \in Nat
  BY DEF Strings
<1>2. \A k \in a .. n : t[k] \in Nat
  BY <1>1
<1>3. /\ u \in Seq(Nat) /\ Len(u) = (IF a <= n THEN n - a + 1 ELSE 0)
      /\ \A k \in 1 .. n - a + 1 : u[k] = t[a + k - 1]
  <2> HIDE DEF a, n
  <2> QED
    BY <1>1, <1>2, SubSeqProperties
<1>4. (IF a <= n THEN n - a + 1 ELSE 0) = m /\ n - a + 1 = m /\ \A k \in 1 .. m : a + k - 1 = n - m + k
  BY <1>1
<1> QED
  BY <1>3, <1>4 DEF Strings

LEMMA EndsIs ==
    ASSUME NEW t \in Strings, NEW w \in Strings
    PROVE  EndsWith(t, w) <=> Len(w) <= Len(t) /\ \A k \in 1 .. Len(w) : w[k] = t[Len(t) - Len(w) + k]
<1>1. SUFFICES ASSUME Len(w) <= Len(t)
               PROVE  SubSeq(t, Len(t) - Len(w) + 1, Len(t)) = w
                         <=> \A k \in 1 .. Len(w) : w[k] = t[Len(t) - Len(w) + k]
  BY DEF EndsWith
<1> DEFINE u == SubSeq(t, Len(t) - Len(w) + 1, Len(t))
<1>2. Len(w) \in Nat /\ w \in Seq(Nat)
  BY DEF Strings
<1>3. u \in Seq(Nat) /\ Len(u) = Len(w) /\ \A k \in 1 .. Len(w) : u[k] = t[Len(t) - Len(w) + k]
  BY <1>1, <1>2, LastOf DEF Strings
<1> HIDE DEF u
<1>4. (\A k \in 1 .. Len(w) : w[k] = t[Len(t) - Len(w) + k]) => u = w
  <2> SUFFICES ASSUME \A k \in 1 .. Len(w) : w[k] = t[Len(t) - Len(w) + k] PROVE u = w
    OBVIOUS
  <2>1. \A k \in 1 .. Len(u) : u[k] = w[k]
    BY <1>3
  <2> QED
    BY <1>2, <1>3, <2>1, SeqEqual
<1>5. u = w => \A k \in 1 .. Len(w) : w[k] = t[Len(t) - Len(w) + k]
  BY <1>3
<1> QED
  BY <1>4, <1>5 DEF u

LEMMA EndsWithNothing == ASSUME NEW t \in Strings PROVE EndsWith(t, <<>>)
<1>1. <<>> \in Strings /\ Len(<<>>) = 0 /\ Len(t) \in Nat
  BY DEF Strings
<1> QED
  BY <1>1, EndsIs

LEMMA EndsTransitively ==
    ASSUME NEW t \in Strings, NEW u \in Strings, NEW v \in Strings, EndsWith(t, u), EndsWith(u, v)
    PROVE  EndsWith(t, v)
<1>1. Len(t) \in Nat /\ Len(u) \in Nat /\ Len(v) \in Nat
  BY DEF Strings
<1>2. Len(u) <= Len(t) /\ \A k \in 1 .. Len(u) : u[k] = t[Len(t) - Len(u) + k]
  BY EndsIs
<1>3. Len(v) <= Len(u) /\ \A k \in 1 .. Len(v) : v[k] = u[Len(u) - Len(v) + k]
  BY EndsIs
<1>4. \A k \in 1 .. Len(v) : v[k] = t[Len(t) - Len(v) + k]
  <2> TAKE k \in 1 .. Len(v)
  <2>1. Len(u) - Len(v) + k \in 1 .. Len(u) /\ Len(t) - Len(u) + (Len(u) - Len(v) + k) = Len(t) - Len(v) + k
    BY <1>1, <1>3
  <2> QED
    BY <1>2, <1>3, <2>1
<1> QED
  BY <1>1, <1>2, <1>3, <1>4, EndsIs

\* Of two ends the longer ends with the shorter.
LEMMA EndsInOrder ==
    ASSUME NEW t \in Strings, NEW u \in Strings, NEW v \in Strings,
           EndsWith(t, u), EndsWith(t, v), Len(v) <= Len(u)
    PROVE  EndsWith(u, v)
<1>1. Len(t) \in Nat /\ Len(u) \in Nat /\ Len(v) \in Nat
  BY DEF Strings
<1>2. Len(u) <= Len(t) /\ \A k \in 1 .. Len(u) : u[k] = t[Len(t) - Len(u) + k]
  BY EndsIs
<1>3. Len(v) <= Len(t) /\ \A k \in 1 .. Len(v) : v[k] = t[Len(t) - Len(v) + k]
  BY EndsIs
<1>4. \A k \in 1 .. Len(v) : v[k] = u[Len(u) - Len(v) + k]
  <2> TAKE k \in 1 .. Len(v)
  <2>1. Len(u) - Len(v) + k \in 1 .. Len(u) /\ Len(t) - Len(u) + (Len(u) - Len(v) + k) = Len(t) - Len(v) + k
    BY <1>1
  <2> QED
    BY <1>2, <1>3, <2>1
<1> QED
  BY <1>4, EndsIs

LEMMA EndsSameLength ==
    ASSUME NEW t \in Strings, NEW u \in Strings, EndsWith(t, u), Len(t) = Len(u)
    PROVE  t = u
<1>1. Len(t) \in Nat /\ \A k \in 1 .. Len(u) : u[k] = t[Len(t) - Len(u) + k]
  BY EndsIs DEF Strings
<1>2. \A k \in 1 .. Len(t) : Len(t) - Len(u) + k = k
  BY <1>1
<1>3. \A k \in 1 .. Len(t) : t[k] = u[k]
  BY <1>1, <1>2
<1> QED
  BY <1>3, SeqEqual DEF Strings

LEMMA AppendIs ==
    ASSUME NEW t \in Strings, NEW c \in Nat
    PROVE  /\ Append(t, c) \in Strings /\ Len(Append(t, c)) = Len(t) + 1 /\ Append(t, c)[Len(t) + 1] = c
           /\ \A k \in 1 .. Len(t) : Append(t, c)[k] = t[k]
BY AppendProperties DEF Strings

LEMMA EndsAppended ==
    ASSUME NEW t \in Strings, NEW u \in Strings, NEW c \in Nat, NEW d \in Nat
    PROVE  EndsWith(Append(t, c), Append(u, d)) <=> EndsWith(t, u) /\ c = d
<1> DEFINE m == Len(u)
           n == Len(t)
           tc == Append(t, c)
           ud == Append(u, d)
<1>1. m \in Nat /\ n \in Nat
  BY DEF Strings
<1>2. tc \in Strings /\ Len(tc) = n + 1 /\ tc[n + 1] = c /\ \A k \in 1 .. n : tc[k] = t[k]
  BY AppendIs
<1>3. ud \in Strings /\ Len(ud) = m + 1 /\ ud[m + 1] = d /\ \A k \in 1 .. m : ud[k] = u[k]
  BY AppendIs
<1> HIDE DEF tc, ud
<1>4. EndsWith(tc, ud) <=> m + 1 <= n + 1 /\ \A k \in 1 .. m + 1 : ud[k] = tc[(n + 1) - (m + 1) + k]
  <2>1. EndsWith(tc, ud) <=> Len(ud) <= Len(tc) /\ \A k \in 1 .. Len(ud) : ud[k] = tc[Len(tc) - Len(ud) + k]
    BY <1>2, <1>3, EndsIs
  <2> HIDE DEF m, n
  <2> QED
    BY <1>2, <1>3, <2>1
<1>5. EndsWith(t, u) <=> m <= n /\ \A k \in 1 .. m : u[k] = t[n - m + k]
  BY EndsIs
<1> HIDE DEF m, n
<1>6. m + 1 <= n + 1 <=> m <= n
  BY <1>1
<1>7. \A k \in 1 .. m + 1 : (n + 1) - (m + 1) + k = n - m + k
  BY <1>1
<1>8. SUFFICES ASSUME m <= n
               PROVE  (\A k \in 1 .. m + 1 : ud[k] = tc[n - m + k]) <=> (\A k \in 1 .. m : u[k] = t[n - m + k]) /\ c = d
  BY <1>4, <1>5, <1>6, <1>7 DEF tc, ud
<1>9. \A k \in 1 .. m : n - m + k \in 1 .. n /\ k \in 1 .. m + 1
  BY <1>1, <1>8
<1>10. \A k \in 1 .. m : (ud[k] = tc[n - m + k]) <=> (u[k] = t[n - m + k])
  BY <1>2, <1>3, <1>9
<1>11. \A k \in 1 .. m + 1 : k \in 1 .. m \/ k = m + 1
  BY <1>1
<1>12. m + 1 \in 1 .. m + 1 /\ n - m + (m + 1) = n + 1
  BY <1>1
<1>13. (ud[m + 1] = tc[n - m + (m + 1)]) <=> (c = d)
  BY <1>2, <1>3, <1>12
<1> HIDE DEF m, n
<1> QED
  BY <1>9, <1>10, <1>11, <1>12, <1>13, Zenon

-----------------------------------------------------------------------------
(* The search in a compiled dictionary *)

\* What read() has checked of a dictionary that spells its states by "string".
Trie(d, string) ==
    /\ d.n \in Nat \ {0}
    /\ \A s \in States(d) : \A g \in Elements(d.gotos[s]) : g.next \in States(d) /\ g.c \in Nat
    /\ Compiles(d, string)

\* The state's string is an end of t, and the next character leads to nothing
\* longer than it could lead to.
Reaches(d, string, s, t, c) ==
    /\ EndsWith(t, string[s])
    /\ \A r \in States(d) : EndsWith(Append(t, c), string[r]) => Len(string[r]) <= Len(string[s]) + 1

IsLongest(d, string, s, t) ==
    /\ EndsWith(t, string[s])
    /\ \A r \in States(d) : EndsWith(t, string[r]) => Len(string[r]) <= Len(string[s])

LEMMA TrieFacts ==
    ASSUME NEW d, NEW string, Trie(d, string)
    PROVE  /\ 0 \in States(d) /\ string[0] = <<>>
           /\ \A s \in States(d) : string[s] \in Strings /\ Len(string[s]) \in Nat
           /\ \A s, t \in States(d) : string[s] = string[t] => s = t
           /\ \A s \in States(d) : \A g \in Elements(d.gotos[s]) :
                 g.next \in States(d) /\ g.c \in Nat /\ string[g.next] = Append(string[s], g.c)
           /\ \A t \in States(d) \ {0} : \E s \in States(d) : \E g \in Elements(d.gotos[s]) : g.next = t
<1>1. 0 \in States(d)
  BY DEF Trie, States
<1>2. \A s \in States(d) : string[s] \in Strings /\ Len(string[s]) \in Nat
  BY DEF Trie, Compiles, Strings
<1> QED
  BY <1>1, <1>2, Zenon DEF Trie, Compiles

\* What spells more than nothing has a state it continues.
LEMMA Continues ==
    ASSUME NEW d, NEW string, Trie(d, string), NEW t \in States(d), t # 0
    PROVE  \E s \in States(d) : \E g \in Elements(d.gotos[s]) :
              g.next = t /\ g.c \in Nat /\ string[t] = Append(string[s], g.c)
BY TrieFacts

\* The transition on a character that leads on the string.
LEMMA Leads ==
    ASSUME NEW d, NEW string, Trie(d, string), NEW t \in Strings, NEW c \in Nat, NEW s \in States(d),
           Reaches(d, string, s, t, c), NEW g \in Elements(d.gotos[s]), g.c = c
    PROVE  IsLongest(d, string, g.next, Append(t, c))
<1>1. string[s] \in Strings /\ string[g.next] = Append(string[s], c) /\ Len(string[s]) \in Nat
  BY TrieFacts
<1>2. Len(string[g.next]) = Len(string[s]) + 1
  BY <1>1, AppendIs
<1>3. EndsWith(Append(t, c), string[g.next])
  BY <1>1, EndsAppended DEF Reaches
<1> QED
  BY <1>2, <1>3 DEF Reaches, IsLongest

\* Without one, what the text goes on to spell continues something shorter.
LEMMA Falls ==
    ASSUME NEW d, NEW string, Trie(d, string), NEW t \in Strings, NEW c \in Nat, NEW s \in States(d),
           Reaches(d, string, s, t, c), \A g \in Elements(d.gotos[s]) : g.c # c,
           NEW r \in States(d), r # 0, EndsWith(Append(t, c), string[r])
    PROVE  \E u \in States(d) : /\ EndsWith(t, string[u]) /\ u # s
                                /\ Len(string[r]) = Len(string[u]) + 1
                                /\ Len(string[u]) < Len(string[s])
<1>1. PICK u \in States(d) : \E g \in Elements(d.gotos[u]) : g.next = r /\ g.c \in Nat /\ string[r] = Append(string[u], g.c)
  BY Continues
<1>2. PICK g \in Elements(d.gotos[u]) : g.next = r /\ g.c \in Nat /\ string[r] = Append(string[u], g.c)
  BY <1>1
<1>3. string[u] \in Strings /\ string[s] \in Strings /\ Len(string[u]) \in Nat /\ Len(string[s]) \in Nat
  BY TrieFacts
<1>4. Len(string[r]) = Len(string[u]) + 1
  BY <1>2, <1>3, AppendIs
<1>5. EndsWith(t, string[u]) /\ g.c = c
  BY <1>2, <1>3, EndsAppended
<1>6. u # s
  BY <1>5
<1>7. EndsWith(t, string[s]) /\ Len(string[u]) <= Len(string[s])
  <2>1. Len(string[r]) <= Len(string[s]) + 1
    BY DEF Reaches
  <2> QED
    BY <1>3, <1>4, <2>1 DEF Reaches
<1>8. Len(string[u]) # Len(string[s])
  <2> SUFFICES ASSUME Len(string[u]) = Len(string[s]) PROVE FALSE
    OBVIOUS
  <2>1. EndsWith(string[s], string[u])
    BY <1>3, <1>5, <1>7, EndsInOrder
  <2>2. string[s] = string[u]
    BY <1>3, <2>1, EndsSameLength
  <2> QED
    BY <1>6, <2>2, TrieFacts
<1> QED
  BY <1>3, <1>4, <1>5, <1>6, <1>7, <1>8

LEMMA FailureIs ==
    ASSUME NEW d, NEW string, Trie(d, string), NEW s \in States(d), s # 0
    PROVE  /\ d.failure[s] \in States(d) /\ EndsWith(string[s], string[d.failure[s]])
           /\ \A t \in States(d) : EndsWith(string[s], string[t]) /\ t # s => Len(string[t]) <= Len(string[d.failure[s]])
BY DEF Trie, Compiles

\* A failure link misses nothing.
LEMMA LinkReaches ==
    ASSUME NEW d, NEW string, Trie(d, string), NEW t \in Strings, NEW c \in Nat, NEW s \in States(d), s # 0,
           Reaches(d, string, s, t, c), \A g \in Elements(d.gotos[s]) : g.c # c
    PROVE  d.failure[s] \in States(d) /\ Reaches(d, string, d.failure[s], t, c)
<1> DEFINE f == d.failure[s]
<1>1. /\ f \in States(d) /\ EndsWith(string[s], string[f])
      /\ \A r \in States(d) : EndsWith(string[s], string[r]) /\ r # s => Len(string[r]) <= Len(string[f])
  BY FailureIs
<1> HIDE DEF f
<1>2. \A r \in States(d) : string[r] \in Strings /\ Len(string[r]) \in Nat
  BY TrieFacts
<1>3. EndsWith(t, string[f])
  BY <1>1, <1>2, EndsTransitively DEF Reaches
<1>4. ASSUME NEW r \in States(d), EndsWith(Append(t, c), string[r])
      PROVE  Len(string[r]) <= Len(string[f]) + 1
  <2>1. CASE r = 0
    <3>1. Len(string[r]) = 0
      BY <2>1, TrieFacts
    <3> QED
      BY <1>1, <1>2, <3>1
  <2>2. CASE r # 0
    <3>1. PICK u \in States(d) : /\ EndsWith(t, string[u]) /\ u # s
                                 /\ Len(string[r]) = Len(string[u]) + 1 /\ Len(string[u]) < Len(string[s])
      BY <1>4, <2>2, Falls
    <3>2. EndsWith(string[s], string[u])
      <4>1. Len(string[u]) <= Len(string[s])
        BY <1>2, <3>1
      <4> QED
        BY <1>2, <3>1, <4>1, EndsInOrder DEF Reaches
    <3>3. Len(string[u]) <= Len(string[f])
      BY <1>1, <3>1, <3>2
    <3> QED
      BY <1>1, <1>2, <3>1, <3>3
  <2> QED
    BY <2>1, <2>2
<1>5. f \in States(d) /\ Reaches(d, string, f, t, c)
  BY <1>1, <1>3, <1>4 DEF Reaches
<1> QED
  BY <1>5 DEF f

\* From the root without a transition there is nothing.
LEMMA RootReaches ==
    ASSUME NEW d, NEW string, Trie(d, string), NEW t \in Strings, NEW c \in Nat,
           Reaches(d, string, 0, t, c), \A g \in Elements(d.gotos[0]) : g.c # c
    PROVE  IsLongest(d, string, 0, Append(t, c))
<1>1. 0 \in States(d) /\ string[0] = <<>> /\ Len(string[0]) = 0 /\ Append(t, c) \in Strings
  BY TrieFacts, AppendIs
<1>2. EndsWith(Append(t, c), string[0])
  BY <1>1, EndsWithNothing
<1>3. \A r \in States(d) : Len(string[r]) \in Nat
  BY TrieFacts
<1>4. ASSUME NEW r \in States(d), EndsWith(Append(t, c), string[r])
      PROVE  Len(string[r]) <= Len(string[0])
  <2>1. CASE r = 0
    BY <1>1, <2>1
  <2>2. CASE r # 0
    <3>1. PICK u \in States(d) : Len(string[u]) < Len(string[0])
      BY <1>1, <1>4, <2>2, Falls
    <3> QED
      BY <1>1, <1>3, <3>1
  <2> QED
    BY <2>1, <2>2
<1> QED
  BY <1>2, <1>4 DEF IsLongest

\* From the longest, any character leads as far as it can.
LEMMA LongestReaches ==
    ASSUME NEW d, NEW string, Trie(d, string), NEW t \in Strings, NEW s \in States(d), IsLongest(d, string, s, t),
           NEW c \in Nat
    PROVE  Reaches(d, string, s, t, c)
<1>1. \A r \in States(d) : string[r] \in Strings /\ Len(string[r]) \in Nat
  BY TrieFacts
<1>2. ASSUME NEW r \in States(d), EndsWith(Append(t, c), string[r])
      PROVE  Len(string[r]) <= Len(string[s]) + 1
  <2>1. CASE r = 0
    <3>1. Len(string[r]) = 0
      BY <2>1, TrieFacts
    <3> QED
      BY <1>1, <3>1
  <2>2. CASE r # 0
    <3>1. PICK u \in States(d) : \E g \in Elements(d.gotos[u]) : g.c \in Nat /\ string[r] = Append(string[u], g.c)
      BY <2>2, Continues
    <3>2. PICK g \in Elements(d.gotos[u]) : g.c \in Nat /\ string[r] = Append(string[u], g.c)
      BY <3>1
    <3>3. Len(string[r]) = Len(string[u]) + 1 /\ EndsWith(t, string[u])
      <4>1. Len(string[r]) = Len(string[u]) + 1
        BY <1>1, <3>2, AppendIs
      <4>2. EndsWith(t, string[u])
        BY <1>1, <1>2, <3>2, EndsAppended
      <4> QED
        BY <4>1, <4>2
    <3>4. Len(string[u]) <= Len(string[s])
      BY <3>3 DEF IsLongest
    <3> QED
      BY <1>1, <3>3, <3>4
  <2> QED
    BY <2>1, <2>2
<1> QED
  BY <1>2 DEF Reaches, IsLongest

\* The words that end with a text are those that end with the longest state's string.
LEMMA LongestOutputs ==
    ASSUME NEW d, NEW string, Trie(d, string), NEW t \in Strings, NEW s \in States(d), IsLongest(d, string, s, t)
    PROVE  d.outputs[s] = EndingWith(d.words, t)
<1>1. \A r \in States(d) : string[r] \in Strings /\ Len(string[r]) \in Nat
  BY TrieFacts
<1>2. d.outputs[s] = EndingWith(d.words, string[s]) /\ \A o \in DOMAIN d.words : \E r \in States(d) : string[r] = d.words[o]
  BY DEF Trie, Compiles
<1>3. {o \in DOMAIN d.words : EndsWith(t, d.words[o])} = {o \in DOMAIN d.words : EndsWith(string[s], d.words[o])}
  <2> SUFFICES ASSUME NEW o \in DOMAIN d.words
               PROVE  EndsWith(t, d.words[o]) <=> EndsWith(string[s], d.words[o])
    OBVIOUS
  <2>1. PICK r \in States(d) : string[r] = d.words[o]
    BY <1>2
  <2>2. EndsWith(t, string[r]) => EndsWith(string[s], string[r])
    <3> SUFFICES ASSUME EndsWith(t, string[r]) PROVE EndsWith(string[s], string[r])
      OBVIOUS
    <3>1. Len(string[r]) <= Len(string[s]) /\ EndsWith(t, string[s])
      BY DEF IsLongest
    <3> QED
      BY <1>1, <3>1, EndsInOrder
  <2>3. EndsWith(string[s], string[r]) => EndsWith(t, string[r])
    BY <1>1, EndsTransitively DEF IsLongest
  <2> QED
    BY <2>1, <2>2, <2>3
<1>4. EndingWith(d.words, t) = EndingWith(d.words, string[s])
  BY <1>3 DEF EndingWith
<1> QED
  BY <1>2, <1>4

-----------------------------------------------------------------------------
(* What was reported, end by end *)

\* The function that FlattenSeq recurs by.
Flattens(seqs, n, f) == f = [k \in 1 .. n |-> IF k = 1 THEN seqs[k] ELSE f[k - 1] \o seqs[k]]

LEMMA FlattensExists ==
    ASSUME NEW seqs
    PROVE  \A n \in Nat : \E f : Flattens(seqs, n, f)
<1> DEFINE S == {n \in Nat : \E f : Flattens(seqs, n, f)}
<1>1. 0 \in S
  <2> DEFINE f == [k \in 1 .. 0 |-> <<>>]
  <2>1. f = [k \in 1 .. 0 |-> IF k = 1 THEN seqs[k] ELSE f[k - 1] \o seqs[k]]
    OBVIOUS
  <2> QED
    BY <2>1 DEF Flattens
<1>2. ASSUME NEW n \in S PROVE n + 1 \in S
  <2>1. PICK g : Flattens(seqs, n, g)
    OBVIOUS
  <2> DEFINE f == [k \in 1 .. n + 1 |-> IF k <= n THEN g[k] ELSE IF k = 1 THEN seqs[k] ELSE g[n] \o seqs[k]]
  <2>2. \A k \in 1 .. n : g[k] = IF k = 1 THEN seqs[k] ELSE g[k - 1] \o seqs[k]
    BY <2>1 DEF Flattens
  <2>3. \A k \in 1 .. n : f[k] = g[k]
    OBVIOUS
  <2>4. f[n + 1] = IF n + 1 = 1 THEN seqs[n + 1] ELSE g[n] \o seqs[n + 1]
    OBVIOUS
  <2>5. \A k \in 1 .. n + 1 : f[k] = IF k = 1 THEN seqs[k] ELSE f[k - 1] \o seqs[k]
    BY <2>2, <2>3, <2>4
  <2> HIDE DEF f
  <2>6. f = [k \in 1 .. n + 1 |-> f[k]]
    BY DEF f
  <2>7. Flattens(seqs, n + 1, f)
    BY <2>5, <2>6 DEF Flattens
  <2> QED
    BY <2>7
<1> HIDE DEF S
<1>3. S \subseteq Nat
  BY DEF S
<1>4. S = Nat
  BY <1>1, <1>2, <1>3, Induct
<1> QED
  BY <1>4 DEF S

\* The function for a sequence is, as far as it goes, the one for a longer one.
Begins(q, p, n) == \A k \in 1 .. n : p[k] = q[k]

LEMMA FlattensAgree ==
    ASSUME NEW p, NEW q, NEW n \in Nat, Begins(q, p, n),
           NEW f, NEW g, Flattens(p, n, f), Flattens(q, n + 1, g)
    PROVE  Begins(g, f, n)
<1> DEFINE S == {m \in Nat : \A k \in 1 .. n : k <= m => f[k] = g[k]}
<1>1. \A k \in 1 .. n : f[k] = IF k = 1 THEN p[k] ELSE f[k - 1] \o p[k]
  BY DEF Flattens
<1>2. \A k \in 1 .. n + 1 : g[k] = IF k = 1 THEN q[k] ELSE g[k - 1] \o q[k]
  BY DEF Flattens
<1>3. 0 \in S
  OBVIOUS
<1>4. ASSUME NEW m \in S PROVE m + 1 \in S
  <2> SUFFICES ASSUME m + 1 \in 1 .. n PROVE f[m + 1] = g[m + 1]
    OBVIOUS
  <2>1. m + 1 \in 1 .. n + 1 /\ p[m + 1] = q[m + 1]
    BY DEF Begins
  <2>2. CASE m = 0
    BY <1>1, <1>2, <2>1, <2>2
  <2>3. CASE m # 0
    <3>1. f[m] = g[m] /\ (m + 1) - 1 = m /\ m + 1 # 1
      BY <2>3
    <3>2. f[m + 1] = f[m] \o p[m + 1]
      BY <1>1, <3>1
    <3>3. g[m + 1] = g[m] \o q[m + 1]
      BY <1>2, <2>1, <3>1
    <3> QED
      BY <2>1, <3>1, <3>2, <3>3
  <2> QED
    BY <2>2, <2>3
<1> HIDE DEF S
<1>5. S = Nat
  <2>1. S \subseteq Nat
    BY DEF S
  <2> QED
    BY <1>3, <1>4, <2>1, Induct
<1>6. n \in S
  BY <1>5
<1> QED
  BY <1>6 DEF S, Begins

LEMMA FlattenIs ==
    ASSUME NEW seqs, NEW n \in Nat, Len(seqs) = n, n # 0
    PROVE  \E f : Flattens(seqs, n, f) /\ FlattenSeq(seqs) = f[n]
<1> DEFINE f == CHOOSE g : g = [k \in 1 .. n |-> IF k = 1 THEN seqs[k] ELSE g[k - 1] \o seqs[k]]
<1>1. FlattenSeq(seqs) = f[n]
  BY DEF FlattenSeq
<1>2. f = [k \in 1 .. n |-> IF k = 1 THEN seqs[k] ELSE f[k - 1] \o seqs[k]]
  <2>1. \E g : g = [k \in 1 .. n |-> IF k = 1 THEN seqs[k] ELSE g[k - 1] \o seqs[k]]
    BY FlattensExists DEF Flattens
  <2> QED
    BY <2>1
<1> HIDE DEF f
<1> QED
  BY <1>1, <1>2 DEF Flattens

\* One part more.
LEMMA FlattenAppend ==
    ASSUME NEW S, NEW seqs \in Seq(Seq(S)), NEW x \in Seq(S)
    PROVE  FlattenSeq(Append(seqs, x)) = FlattenSeq(seqs) \o x
<1> DEFINE n == Len(seqs)
           more == Append(seqs, x)
<1>1. n \in Nat
  OBVIOUS
<1>2. Len(more) = n + 1 /\ more[n + 1] = x /\ \A k \in 1 .. n : seqs[k] = more[k]
  BY AppendProperties
<1> HIDE DEF more
<1>3. PICK g : Flattens(more, n + 1, g) /\ FlattenSeq(more) = g[n + 1]
  BY <1>1, <1>2, FlattenIs
<1>4. g[n + 1] = IF n + 1 = 1 THEN x ELSE g[(n + 1) - 1] \o x
  <2>1. n + 1 \in 1 .. n + 1
    BY <1>1
  <2> QED
    BY <1>2, <1>3, <2>1 DEF Flattens
<1>5. CASE n = 0
  <2>1. seqs = <<>>
    BY <1>5
  <2>2. FlattenSeq(seqs) = <<>>
    BY <1>5, <2>1 DEF FlattenSeq
  <2>3. <<>> \o x = x
    BY ConcatEmptySeq
  <2> QED
    BY <1>3, <1>4, <1>5, <2>2, <2>3 DEF more
<1>6. CASE n # 0
  <2>1. PICK f : Flattens(seqs, n, f) /\ FlattenSeq(seqs) = f[n]
    BY <1>1, <1>6, FlattenIs
  <2> HIDE DEF n
  <2>2. \A k \in 1 .. n : f[k] = g[k]
    <3>1. Begins(more, seqs, n)
      BY <1>2 DEF Begins
    <3>2. Flattens(seqs, n, f) /\ Flattens(more, n + 1, g)
      BY <1>3, <2>1
    <3>3. Begins(g, f, n)
      BY <1>1, <3>1, <3>2, FlattensAgree
    <3> QED
      BY <3>3 DEF Begins
  <2>3. f[n] = g[n] /\ (n + 1) - 1 = n /\ n + 1 # 1
    BY <1>1, <1>6, <2>2
  <2> QED
    BY <1>3, <1>4, <2>1, <2>3 DEF more
<1> QED
  BY <1>5, <1>6

-----------------------------------------------------------------------------
(* The matcher is in the longest state there can be. *)

Spelt == Spelling(dict)
Compiled == Built /\ dict.words # <<>>

\* What is to be reported at the end e.
Reports(e) ==
    LET found == EndingWith(dict.words, SubSeq(text, 1, e))
    IN  [k \in DOMAIN found |-> <<e - 1, found[k]>>]

OutInv == Built => \A s \in States(dict) : out[new_id[s]] = dict.outputs[s]

HeldInv ==
    Compiled /\ InText =>
        \E s \in States(dict) : new_id[s] = cur /\ Reaches(dict, Spelt, s, SubSeq(text, 1, i), text[i + 1])

SearchInv ==
    /\ OutInv /\ HeldInv /\ MatchIsExact
    /\ phase \in {"read", "place", "ready"} => reported = <<>>

LEMMA TrieNow ==
    ASSUME IInv, Compiled
    PROVE  Trie(dict, Spelt)
<1>1. ReadInv /\ dict \in Dictionaries /\ Building /\ dict.n > 0 /\ dict.n \in Nat
  BY AutomatonAssumption DEF IInv, ReadInv, Compiled, Built, Building
<1>2. Compiles(dict, Spelt)
  BY <1>1, WriterAssumption DEF Compiled, Spelt
<1>3. \A s \in States(dict) : \A g \in Elements(dict.gotos[s]) : g.next \in States(dict) /\ g.c \in Nat
  BY <1>1, GotosOf
<1> QED
  BY <1>1, <1>2, <1>3 DEF Trie

LEMMA PrefixIs ==
    ASSUME NEW t \in Strings, NEW m \in Nat, m < Len(t)
    PROVE  /\ SubSeq(t, 1, m) \in Strings /\ t[m + 1] \in Nat
           /\ SubSeq(t, 1, m + 1) = Append(SubSeq(t, 1, m), t[m + 1])
<1> DEFINE u == SubSeq(t, 1, m)
           v == SubSeq(t, 1, m + 1)
<1>1. Len(t) \in Nat /\ \A k \in 1 .. Len(t) : t[k] \in Nat
  BY DEF Strings
<1>2. u \in Seq(Nat) /\ Len(u) = m /\ \A k \in 1 .. m : u[k] = t[k]
  <2>1. \A k \in 1 .. m : t[k] \in Nat
    BY <1>1
  <2>2. u \in Seq(Nat) /\ Len(u) = (IF 1 <= m THEN m - 1 + 1 ELSE 0) /\ \A k \in 1 .. m - 1 + 1 : u[k] = t[1 + k - 1]
    BY <2>1, SubSeqProperties
  <2> HIDE DEF u
  <2>3. (IF 1 <= m THEN m - 1 + 1 ELSE 0) = m /\ m - 1 + 1 = m /\ \A k \in 1 .. m : 1 + k - 1 = k
    OBVIOUS
  <2> QED
    BY <2>2, <2>3
<1>3. v \in Seq(Nat) /\ Len(v) = m + 1 /\ \A k \in 1 .. m + 1 : v[k] = t[k]
  <2>1. \A k \in 1 .. m + 1 : t[k] \in Nat
    BY <1>1
  <2>2. /\ v \in Seq(Nat) /\ Len(v) = (IF 1 <= m + 1 THEN m + 1 - 1 + 1 ELSE 0)
        /\ \A k \in 1 .. m + 1 - 1 + 1 : v[k] = t[1 + k - 1]
    BY <2>1, SubSeqProperties
  <2> HIDE DEF v
  <2>3. (IF 1 <= m + 1 THEN m + 1 - 1 + 1 ELSE 0) = m + 1 /\ m + 1 - 1 + 1 = m + 1 /\ \A k \in 1 .. m + 1 : 1 + k - 1 = k
    OBVIOUS
  <2> QED
    BY <2>2, <2>3
<1>4. t[m + 1] \in Nat
  BY <1>1
<1> HIDE DEF u, v
<1>5. /\ Append(u, t[m + 1]) \in Seq(Nat) /\ Len(Append(u, t[m + 1])) = m + 1
      /\ Append(u, t[m + 1])[m + 1] = t[m + 1] /\ \A k \in 1 .. m : Append(u, t[m + 1])[k] = u[k]
  BY <1>2, <1>4, AppendProperties
<1>6. \A k \in 1 .. Len(v) : v[k] = Append(u, t[m + 1])[k]
  <2> TAKE k \in 1 .. Len(v)
  <2>1. k \in 1 .. m \/ k = m + 1
    BY <1>3
  <2>2. k \in 1 .. m => v[k] = Append(u, t[m + 1])[k]
    BY <1>2, <1>3, <1>5
  <2>3. k = m + 1 => v[k] = Append(u, t[m + 1])[k]
    BY <1>3, <1>5
  <2> QED
    BY <2>1, <2>2, <2>3
<1>7. v = Append(u, t[m + 1])
  BY <1>3, <1>5, <1>6, SeqEqual
<1> QED
  BY <1>2, <1>4, <1>7 DEF u, v, Strings

LEMMA ReportsType ==
    ASSUME IInv, Compiled
    PROVE  \E S : \A e \in Nat : Reports(e) \in Seq(S)
<1> DEFINE S == UNION {{Reports(e)[k] : k \in DOMAIN Reports(e)} : e \in Nat}
           ending(e) == {o \in DOMAIN dict.words : EndsWith(SubSeq(text, 1, e), dict.words[o])}
           n(e) == Cardinality(ending(e))
<1>1. IsFiniteSet(DOMAIN dict.words)
  <2>1. DOMAIN dict.words = 1 .. Len(dict.words) /\ Len(dict.words) \in Nat
    BY TrieNow DEF Trie, Compiles
  <2> QED
    BY <2>1, FS_Interval
<1>2. \A e \in Nat : n(e) \in Nat
  <2> TAKE e \in Nat
  <2>1. IsFiniteSet(ending(e))
    BY <1>1, FS_Subset
  <2> QED
    BY <2>1, FS_CardinalityType
<1> HIDE DEF ending
<1>3. \A e \in Nat : DOMAIN Reports(e) = 1 .. n(e) /\ Reports(e) = [k \in 1 .. n(e) |-> Reports(e)[k]]
  <2> TAKE e \in Nat
  <2>1. DOMAIN EndingWith(dict.words, SubSeq(text, 1, e)) = 1 .. n(e)
    BY DEF EndingWith, LongestFirst, ending
  <2> QED
    BY <2>1 DEF Reports
<1> HIDE DEF n
<1>4. ASSUME NEW e \in Nat PROVE Reports(e) \in Seq(S)
  <2>1. \A k \in 1 .. n(e) : Reports(e)[k] \in S
    <3>1. {Reports(e)[k] : k \in DOMAIN Reports(e)} \subseteq S
      OBVIOUS
    <3> HIDE DEF S
    <3> QED
      BY <1>3, <3>1
  <2> HIDE DEF S
  <2> QED
    BY <1>2, <1>3, <2>1
<1> QED
  BY <1>4

\* What has been reported, with one end more.
LEMMA OneEndMore ==
    ASSUME IInv, Compiled, NEW m \in Nat
    PROVE  FlattenSeq([e \in 1 .. m + 1 |-> Reports(e)]) = FlattenSeq([e \in 1 .. m |-> Reports(e)]) \o Reports(m + 1)
<1>1. PICK S : \A e \in Nat : Reports(e) \in Seq(S)
  BY ReportsType
<1> DEFINE before == [e \in 1 .. m |-> Reports(e)]
           after == [e \in 1 .. m + 1 |-> Reports(e)]
<1>2. before \in Seq(Seq(S)) /\ Len(before) = m /\ \A e \in 1 .. m : before[e] = Reports(e)
  BY <1>1
<1>3. after \in Seq(Seq(S)) /\ Len(after) = m + 1 /\ \A e \in 1 .. m + 1 : after[e] = Reports(e)
  BY <1>1
<1>4. Reports(m + 1) \in Seq(S)
  BY <1>1
<1> HIDE DEF before, after
<1>5. /\ Append(before, Reports(m + 1)) \in Seq(Seq(S)) /\ Len(Append(before, Reports(m + 1))) = m + 1
      /\ Append(before, Reports(m + 1))[m + 1] = Reports(m + 1)
      /\ \A e \in 1 .. m : Append(before, Reports(m + 1))[e] = before[e]
  BY <1>2, <1>4, AppendProperties
<1>6. after = Append(before, Reports(m + 1))
  <2>1. \A e \in 1 .. Len(after) : after[e] = Append(before, Reports(m + 1))[e]
    BY <1>2, <1>3, <1>5
  <2> QED
    BY <1>3, <1>5, <2>1, SeqEqual
<1>7. FlattenSeq(after) = FlattenSeq(before) \o Reports(m + 1)
  BY <1>2, <1>4, <1>6, FlattenAppend
<1> QED
  BY <1>7 DEF before, after

LEMMA TargetIs ==
    ASSUME IInv, InText, NEW s \in States(dict), new_id[s] = cur
    PROVE  /\ Built /\ text \in Strings /\ i \in Nat /\ i < Len(text) /\ text[i + 1] \in Nat
           /\ \A g \in Elements(dict.gotos[s]) : g.c = text[i + 1] =>
                 Target = new_id[g.next] /\ Target # NoState /\ g.next \in States(dict)
           /\ (\A g \in Elements(dict.gotos[s]) : g.c # text[i + 1]) => Target = NoState
           /\ cur = 0 <=> s = 0
<1> DEFINE c == text[i + 1]
<1>1. phase = "match" /\ i < Len(text) /\ text \in Seq(Nat) /\ i \in 0 .. Len(text)
  BY DEF InText, IInv, MatchInv
<1>2. c \in Nat /\ i \in Nat /\ text \in Strings
  BY <1>1 DEF Strings
<1>3. /\ Built /\ \A r \in States(dict) : Placed(r)
      /\ 0 \in States(dict) /\ new_id[0] = 0
  BY <1>1, HeldNow
<1>4. CellsInv
  BY <1>1, HeldNow DEF IInv, LayoutInv
<1>5. cur = 0 <=> s = 0
  BY <1>3, <1>4 DEF CellsInv
<1>6. Target = Step(cur, c)
  BY <1>2, <1>3, RootTransitions DEF Target
<1>7. /\ \A g \in Elements(dict.gotos[s]) : g.c = c => Step(new_id[s], c) = new_id[g.next] /\ g.next \in States(dict)
      /\ (\A g \in Elements(dict.gotos[s]) : g.c # c) => Step(new_id[s], c) = NoState
  BY <1>2, <1>3, TransitionsAreGotos
<1> HIDE DEF c
<1>8. \A g \in Elements(dict.gotos[s]) : g.c = c => Target = new_id[g.next] /\ Target # NoState /\ g.next \in States(dict)
  BY <1>3, <1>6, <1>7 DEF Placed
<1>9. (\A g \in Elements(dict.gotos[s]) : g.c # c) => Target = NoState
  BY <1>6, <1>7
<1> QED
  BY <1>1, <1>2, <1>3, <1>5, <1>8, <1>9 DEF c

LEMMA CompiledKept ==
    ASSUME dict' = dict, text' = text
    PROVE  /\ Spelt' = Spelt
           /\ \A e : Reports(e)' = Reports(e)
BY DEF Spelt, Spelling, Paths, States, Reports

LEMMA RemapOutputs == IInv /\ Remap => OutInv'
<1> SUFFICES ASSUME IInv, Remap PROVE OutInv'
  OBVIOUS
<1> DEFINE holder == [u \in Units |-> {s \in States(dict) : new_id[s] = u}]
<1>1. /\ dict' = dict /\ phase = "place" /\ Reached /\ new_id' = new_id
      /\ out' = [u \in Units |->
                    IF holder[u] = {} THEN <<>> ELSE dict.outputs[CHOOSE s \in holder[u] : TRUE]]
  BY DEF Remap, layout
<1>2. CellsInv
  BY <1>1 DEF IInv, ReadInv, LayoutInv, Building
<1>3. \A s \in States(dict) : out'[new_id[s]] = dict.outputs[s]
  <2> TAKE s \in States(dict)
  <2>1. new_id[s] \in Units /\ Placed(s)
    BY <1>1, <1>2 DEF Reached, CellsInv, Placed
  <2>2. holder[new_id[s]] = {s}
    BY <1>2, <2>1 DEF CellsInv
  <2> HIDE DEF holder
  <2> QED
    BY <1>1, <2>1, <2>2
<1> HIDE DEF holder
<1>4. \A s \in States(dict') : out'[new_id'[s]] = dict'.outputs[s]
  BY <1>1, <1>3
<1> QED
  BY <1>4 DEF OutInv

LEMMA NothingReported == reported = <<>> /\ i = 0 => MatchIsExact
<1> SUFFICES ASSUME reported = <<>>, i = 0 PROVE MatchIsExact
  OBVIOUS
<1>1. [e \in 1 .. i |-> Reports(e)] = <<>>
  OBVIOUS
<1>2. FlattenSeq(<<>>) = <<>>
  BY DEF FlattenSeq
<1> QED
  BY <1>1, <1>2 DEF MatchIsExact, Reports

LEMMA StartKeeps == IInv /\ SearchInv /\ StartMatch => SearchInv'
<1> SUFFICES ASSUME IInv, SearchInv, StartMatch PROVE SearchInv'
  OBVIOUS
<1>1. /\ phase = "ready" /\ text' \in Strings /\ dict' = dict /\ i' = i /\ cur' = cur /\ reported' = reported
      /\ new_id' = new_id /\ out' = out /\ phase' = IF dict.n = 0 THEN "done" ELSE "match"
  BY AutomatonAssumption DEF StartMatch, matching, layout, tables, Strings
<1>2. cur = 0 /\ i = 0 /\ reported = <<>>
  BY <1>1 DEF IInv, MatchInv, SearchInv
<1>3. OutInv'
  BY <1>1 DEF SearchInv, OutInv, Built
<1>4. MatchIsExact'
  <2>1. (reported = <<>> /\ i = 0)'
    BY <1>1, <1>2
  <2> QED
    BY <2>1, NothingReported, PTL
<1>5. HeldInv'
  <2> SUFFICES ASSUME Compiled', InText'
               PROVE  \E s \in States(dict) : new_id[s] = 0 /\ Reaches(dict, Spelt, s, SubSeq(text', 1, 0), text'[0 + 1])
    BY <1>1, <1>2, CompiledKept DEF HeldInv, Spelt
  <2>1. Compiled /\ Building
    BY <1>1 DEF Compiled, Built, Building
  <2>2. Trie(dict, Spelt)
    BY <2>1, TrieNow
  <2>3. 0 \in States(dict) /\ Spelt[0] = <<>> /\ new_id[0] = 0
    BY <2>1, <2>2, TrieFacts DEF IInv, LayoutInv, CellsInv
  <2>4. SubSeq(text', 1, 0) = <<>> /\ text'[0 + 1] \in Nat
    <3>1. text' \in Seq(Nat) /\ 0 < Len(text')
      BY <1>1, <1>2 DEF InText, Strings
    <3> QED
      BY <3>1
  <2> DEFINE c == text'[0 + 1]
  <2>5. EndsWith(<<>>, Spelt[0])
    <3>1. <<>> \in Strings
      BY DEF Strings
    <3> QED
      BY <2>3, <3>1, EndsWithNothing
  <2>6. ASSUME NEW r \in States(dict), EndsWith(Append(<<>>, c), Spelt[r])
        PROVE  Len(Spelt[r]) <= Len(Spelt[0]) + 1
    <3>1. Len(Append(<<>>, c)) = 1
      <4>1. <<>> \in Strings /\ Len(<<>>) = 0 /\ c \in Nat
        BY <2>4 DEF Strings
      <4> HIDE DEF c
      <4> QED
        BY <4>1, AppendIs
    <3>2. Len(Spelt[r]) <= Len(Append(<<>>, c))
      BY <2>6 DEF EndsWith
    <3> QED
      BY <2>3, <3>1, <3>2
  <2> HIDE DEF c
  <2>7. Reaches(dict, Spelt, 0, <<>>, c)
    BY <2>5, <2>6 DEF Reaches
  <2> QED
    BY <2>3, <2>4, <2>7 DEF c
<1>6. phase' \notin {"read", "place", "ready"}
  BY <1>1
<1> QED
  BY <1>3, <1>4, <1>5, <1>6 DEF SearchInv

LEMMA FollowKeeps == IInv /\ SearchInv /\ FollowFailure => SearchInv'
<1> SUFFICES ASSUME IInv, SearchInv, FollowFailure PROVE SearchInv'
  OBVIOUS
<1>1. /\ InText /\ Target = NoState /\ cur # 0 /\ cur' = fail[cur] /\ dict' = dict /\ text' = text /\ i' = i
      /\ reported' = reported /\ new_id' = new_id /\ out' = out /\ phase' = phase
  BY DEF FollowFailure, layout, tables
<1>2. OutInv'
  BY <1>1 DEF SearchInv, OutInv, Built
<1>3. MatchIsExact'
  BY <1>1 DEF SearchInv, MatchIsExact, Built
<1>4. HeldInv'
  <2> DEFINE t == SubSeq(text, 1, i)
             c == text[i + 1]
  <2> SUFFICES ASSUME Compiled
               PROVE  \E s \in States(dict) : new_id[s] = fail[cur] /\ Reaches(dict, Spelt, s, t, c)
    BY <1>1, CompiledKept DEF HeldInv, Compiled, Built, InText
  <2>1. PICK s \in States(dict) : new_id[s] = cur /\ Reaches(dict, Spelt, s, t, c)
    BY <1>1 DEF SearchInv, HeldInv
  <2>2. /\ s # 0 /\ text \in Strings /\ i \in Nat /\ i < Len(text) /\ c \in Nat
        /\ \A g \in Elements(dict.gotos[s]) : g.c # c
    BY <1>1, <2>1, TargetIs
  <2>3. t \in Strings
    BY <2>2, PrefixIs
  <2> HIDE DEF t, c
  <2>4. dict.failure[s] \in States(dict) /\ Reaches(dict, Spelt, dict.failure[s], t, c)
    BY <2>1, <2>2, <2>3, TrieNow, LinkReaches
  <2>5. fail[cur] = new_id[dict.failure[s]]
    BY <2>1 DEF Compiled, IInv, TablesInv
  <2> QED
    BY <2>4, <2>5
<1> QED
  BY <1>1, <1>2, <1>3, <1>4 DEF SearchInv, InText

LEMMA ConsumeKeeps == IInv /\ SearchInv /\ Consume => SearchInv'
<1> SUFFICES ASSUME IInv, SearchInv, Consume PROVE SearchInv'
  OBVIOUS
<1>1. /\ InText /\ (Target # NoState \/ cur = 0) /\ cur' = IF Target = NoState THEN 0 ELSE Target
      /\ i' = i + 1 /\ reported' = reported \o [k \in DOMAIN out[cur'] |-> <<i, out[cur'][k]>>]
      /\ dict' = dict /\ text' = text /\ new_id' = new_id /\ out' = out /\ phase' = phase
  BY DEF Consume, layout, tables
<1>2. OutInv'
  BY <1>1 DEF SearchInv, OutInv, Built
<1>3. phase' \notin {"read", "place", "ready"}
  BY <1>1 DEF InText
<1>4. CASE ~Compiled
  <2>1. ~Compiled'
    BY <1>1, <1>4 DEF Compiled, Built
  <2> QED
    BY <1>2, <1>3, <2>1 DEF SearchInv, HeldInv, MatchIsExact, Compiled
<1>5. CASE Compiled
  <2> DEFINE t == SubSeq(text, 1, i)
             c == text[i + 1]
  <2>1. PICK s \in States(dict) : new_id[s] = cur /\ Reaches(dict, Spelt, s, t, c)
    BY <1>1, <1>5 DEF SearchInv, HeldInv
  <2>2. /\ text \in Strings /\ i \in Nat /\ i < Len(text) /\ c \in Nat
        /\ \A g \in Elements(dict.gotos[s]) : g.c = c =>
              Target = new_id[g.next] /\ Target # NoState /\ g.next \in States(dict)
        /\ (\A g \in Elements(dict.gotos[s]) : g.c # c) => Target = NoState
        /\ cur = 0 <=> s = 0
    BY <1>1, <2>1, TargetIs
  <2>3. t \in Strings /\ SubSeq(text, 1, i + 1) = Append(t, c)
    BY <2>2, PrefixIs
  <2> HIDE DEF t, c
  <2>4. Trie(dict, Spelt)
    BY <1>5, TrieNow
  <2>5. 0 \in States(dict) /\ new_id[0] = 0
    BY <1>1, HeldNow DEF InText
  \* Whichever way it went, nothing longer is an end of the text.
  <2>6. PICK r \in States(dict) : new_id[r] = cur' /\ IsLongest(dict, Spelt, r, Append(t, c))
    <3>1. CASE \E g \in Elements(dict.gotos[s]) : g.c = c
      <4>1. PICK g \in Elements(dict.gotos[s]) : g.c = c
        BY <3>1
      <4>2. cur' = new_id[g.next] /\ g.next \in States(dict)
        BY <1>1, <2>2, <4>1
      <4>3. IsLongest(dict, Spelt, g.next, Append(t, c))
        BY <2>1, <2>2, <2>3, <2>4, <4>1, Leads
      <4> QED
        BY <4>2, <4>3
    <3>2. CASE \A g \in Elements(dict.gotos[s]) : g.c # c
      <4>1. cur' = 0 /\ s = 0
        BY <1>1, <2>2, <3>2
      <4>2. IsLongest(dict, Spelt, 0, Append(t, c))
        BY <2>1, <2>2, <2>3, <2>4, <3>2, <4>1, RootReaches
      <4> QED
        BY <2>5, <4>1, <4>2
    <3> QED
      BY <3>1, <3>2
  <2>7. Append(t, c) \in Strings
    BY <2>2, <2>3, AppendIs
  <2>8. HeldInv'
    <3> SUFFICES ASSUME i + 1 < Len(text)
                 PROVE  Reaches(dict, Spelt, r, Append(t, c), text[(i + 1) + 1])
      BY <1>1, <2>3, <2>6, CompiledKept DEF HeldInv, InText
    <3>1. text[(i + 1) + 1] \in Nat
      <4>1. (i + 1) + 1 \in 1 .. Len(text) /\ text \in Seq(Nat)
        BY <2>2 DEF Strings
      <4> QED
        BY <4>1
    <3> QED
      BY <2>4, <2>6, <2>7, <3>1, LongestReaches
  <2>9. MatchIsExact'
    <3>1. out[cur'] = dict.outputs[r] /\ dict.outputs[r] = EndingWith(dict.words, Append(t, c))
      <4>1. out[new_id[r]] = dict.outputs[r]
        BY <1>5 DEF SearchInv, OutInv, Compiled
      <4>2. dict.outputs[r] = EndingWith(dict.words, Append(t, c))
        BY <2>4, <2>6, <2>7, LongestOutputs
      <4> QED
        BY <2>6, <4>1, <4>2
    <3>2. [k \in DOMAIN out[cur'] |-> <<i, out[cur'][k]>>] = Reports(i + 1)
      <4>1. (i + 1) - 1 = i
        BY <2>2
      <4> QED
        BY <2>3, <3>1, <4>1 DEF Reports
    <3>3. reported = FlattenSeq([e \in 1 .. i |-> Reports(e)])
      BY <1>5 DEF SearchInv, MatchIsExact, Compiled, Reports
    <3>4. reported' = FlattenSeq([e \in 1 .. i + 1 |-> Reports(e)])
      BY <1>1, <1>5, <2>2, <3>2, <3>3, OneEndMore
    <3>5. reported' = FlattenSeq([e \in 1 .. i' |-> Reports(e)'])
      BY <1>1, <3>4, CompiledKept
    <3> QED
      BY <3>5 DEF MatchIsExact, Reports
  <2> QED
    BY <1>2, <1>3, <2>8, <2>9 DEF SearchInv
<1> QED
  BY <1>4, <1>5

LEMMA NextSearchInv == IInv /\ SearchInv /\ [Next]_vars => SearchInv'
<1> SUFFICES ASSUME IInv, SearchInv, [Next]_vars PROVE SearchInv'
  OBVIOUS
\* Until a dictionary is ready there is nothing to say of it.
<1>1. CASE \/ Truncated \/ ReadAbsent \/ ReadState \/ RejectState \/ ReadEntries \/ RejectEntries
           \/ PlaceLeaf \/ PlaceChildren \/ RejectGraph \/ RejectLinks
  <2>1. /\ reported' = reported /\ phase \in {"read", "place"}
        /\ dict' = dict /\ (phase' \in {"read", "place", "rejected"} \/ dict.n = 0)
    BY <1>1 DEF Truncated, ReadAbsent, ReadState, RejectState, ReadEntries, RejectEntries, PlaceLeaf,
                PlaceChildren, RejectGraph, RejectLinks, Reject, matching
  <2>2. ~Built'
    BY <2>1 DEF Built
  <2>3. reported' = <<>>
    BY <2>1 DEF SearchInv
  <2> QED
    BY <2>2, <2>3 DEF SearchInv, OutInv, HeldInv, MatchIsExact, Compiled
<1>2. CASE Remap
  <2>1. /\ reported' = reported /\ phase = "place" /\ phase' = "ready" /\ i' = i
    BY <1>2 DEF Remap, matching
  <2>2. reported' = <<>> /\ i' = 0
    BY <2>1 DEF SearchInv, IInv, MatchInv
  <2>3. MatchIsExact'
    <3>1. (reported = <<>> /\ i = 0)'
      BY <2>2
    <3> QED
      BY <3>1, NothingReported, PTL
  <2> QED
    BY <1>2, <2>1, <2>2, <2>3, RemapOutputs DEF SearchInv, HeldInv, InText
<1>3. CASE EndMatch \/ UNCHANGED vars
  <2>1. /\ dict' = dict /\ text' = text /\ i' = i /\ cur' = cur /\ reported' = reported /\ new_id' = new_id
        /\ out' = out /\ (phase' = phase \/ (phase = "match" /\ phase' = "done"))
    BY <1>3 DEF EndMatch, vars, matching, layout, tables
  <2>2. OutInv' /\ MatchIsExact'
    BY <2>1 DEF SearchInv, OutInv, MatchIsExact, Built
  <2>3. HeldInv'
    BY <2>1, CompiledKept DEF SearchInv, HeldInv, InText, Compiled, Built
  <2> QED
    BY <2>1, <2>2, <2>3 DEF SearchInv
<1> QED
  BY <1>1, <1>2, <1>3, StartKeeps, FollowKeeps, ConsumeKeeps DEF Next

(***************************************************************************)
(* For every dictionary that KyTea's writer compiled from words, whatever  *)
(* the words and the text, and however the cells came to be laid out:      *)
(* match() reports each occurrence of each word, at its end, longest       *)
(* first, and nothing else, up to the character it has got to.             *)
(***************************************************************************)
THEOREM MatchesAreExact == Spec => []MatchIsExact
<1>1. Init => IInv
  BY InitIInv
<1>2. Init => SearchInv
  <2> SUFFICES ASSUME Init PROVE SearchInv
    OBVIOUS
  <2>1. phase = "read" /\ reported = <<>> /\ i = 0 /\ ~Built
    BY DEF Init, Built
  <2> QED
    BY <2>1 DEF SearchInv, OutInv, HeldInv, MatchIsExact, Compiled
<1>3. IInv /\ [Next]_vars => IInv'
  BY NextIInv
<1>4. SearchInv => MatchIsExact
  BY DEF SearchInv
<1> QED
  BY <1>1, <1>2, <1>3, <1>4, NextSearchInv, PTL DEF Spec

-----------------------------------------------------------------------------
(* The paths of a dictionary's goto graph *)

Longer(d, P) == UNION {{<<g.next, Append(p[2], g.c)>> : g \in Elements(d.gotos[p[1]])} : p \in P}

\* The function that Paths recurs by.
PathsOf(d, f, n) == f = [k \in 0 .. n |-> IF k = 0 THEN {<<0, <<>>>>} ELSE Longer(d, f[k - 1])]

LEMMA PathsExist ==
    ASSUME NEW d
    PROVE  \A n \in Nat : \E f : PathsOf(d, f, n)
<1> DEFINE S == {n \in Nat : \E f : PathsOf(d, f, n)}
<1>1. 0 \in S
  <2> DEFINE f == [k \in 0 .. 0 |-> {<<0, <<>>>>}]
  <2>1. f = [k \in 0 .. 0 |-> IF k = 0 THEN {<<0, <<>>>>} ELSE Longer(d, f[k - 1])]
    OBVIOUS
  <2> QED
    BY <2>1 DEF PathsOf
<1>2. ASSUME NEW n \in S PROVE n + 1 \in S
  <2>1. PICK h : PathsOf(d, h, n)
    OBVIOUS
  <2> DEFINE f == [k \in 0 .. n + 1 |-> IF k <= n THEN h[k] ELSE Longer(d, h[n])]
  <2>2. \A k \in 0 .. n : h[k] = IF k = 0 THEN {<<0, <<>>>>} ELSE Longer(d, h[k - 1])
    BY <2>1 DEF PathsOf
  <2>3. (\A k \in 0 .. n : f[k] = h[k]) /\ f[n + 1] = Longer(d, h[n])
    OBVIOUS
  <2>4. f = [k \in 0 .. n + 1 |-> f[k]]
    OBVIOUS
  <2> HIDE DEF f
  <2>5. \A k \in 0 .. n + 1 : f[k] = IF k = 0 THEN {<<0, <<>>>>} ELSE Longer(d, f[k - 1])
    <3> TAKE k \in 0 .. n + 1
    <3>1. CASE k = n + 1
      <4>1. k # 0 /\ k - 1 = n /\ n \in 0 .. n
        BY <3>1
      <4> QED
        BY <2>3, <3>1, <4>1
    <3>2. CASE k \in 0 .. n
      <4>1. k # 0 => k - 1 \in 0 .. n
        BY <3>2
      <4> QED
        BY <2>2, <2>3, <3>2, <4>1
    <3> QED
      BY <3>1, <3>2
  <2>6. PathsOf(d, f, n + 1)
    BY <2>4, <2>5 DEF PathsOf
  <2> QED
    BY <2>6
<1> HIDE DEF S
<1>3. S = Nat
  <2>1. S \subseteq Nat
    BY DEF S
  <2> QED
    BY <1>1, <1>2, <2>1, Induct
<1> QED
  BY <1>3 DEF S

LEMMA PathsAre ==
    ASSUME NEW d, d.n \in Nat
    PROVE  \E f : PathsOf(d, f, d.n) /\ Paths(d) = UNION {f[k] : k \in 0 .. d.n}
<1> DEFINE f == CHOOSE h : h = [k \in 0 .. d.n |-> IF k = 0 THEN {<<0, <<>>>>} ELSE Longer(d, h[k - 1])]
<1>1. \E h : h = [k \in 0 .. d.n |-> IF k = 0 THEN {<<0, <<>>>>} ELSE Longer(d, h[k - 1])]
  BY PathsExist DEF PathsOf
<1>2. PathsOf(d, f, d.n)
  BY <1>1 DEF PathsOf
<1>3. Paths(d) = UNION {f[k] : k \in 0 .. d.n}
  BY DEF Paths, Longer
<1> HIDE DEF f
<1> QED
  BY <1>2, <1>3

Extends(d, p, q) == \E g \in Elements(d.gotos[p[1]]) : q = <<g.next, Append(p[2], g.c)>>

LEMMA StepOfPath ==
    ASSUME NEW d, NEW f, NEW n \in Nat, PathsOf(d, f, n)
    PROVE  /\ f[0] = {<<0, <<>>>>}
           /\ \A k \in 0 .. n - 1 : \A q :
                 q \in f[k + 1] <=> \E p \in f[k] : Extends(d, p, q)
<1>1. f[0] = {<<0, <<>>>>}
  BY DEF PathsOf
<1>2. \A k \in 0 .. n - 1 : f[k + 1] = Longer(d, f[k])
  <2> TAKE k \in 0 .. n - 1
  <2>1. k + 1 \in 0 .. n /\ k + 1 # 0 /\ (k + 1) - 1 = k
    OBVIOUS
  <2> QED
    BY <2>1 DEF PathsOf
<1>3. \A k \in 0 .. n - 1 : \A q :
         q \in f[k + 1] <=> \E p \in f[k] : Extends(d, p, q)
  <2> TAKE k \in 0 .. n - 1
  <2>1. f[k + 1] = UNION {{<<g.next, Append(p[2], g.c)>> : g \in Elements(d.gotos[p[1]])} : p \in f[k]}
    BY <1>2 DEF Longer
  <2> DEFINE next(p) == {<<g.next, Append(p[2], g.c)>> : g \in Elements(d.gotos[p[1]])}
  <2>2. \A p, q : q \in next(p) <=> \E g \in Elements(d.gotos[p[1]]) : q = <<g.next, Append(p[2], g.c)>>
    OBVIOUS
  <2>3. f[k + 1] = UNION {next(p) : p \in f[k]}
    BY <2>1
  <2> HIDE DEF next
  <2>4. \A q : q \in f[k + 1] <=> \E p \in f[k] : q \in next(p)
    BY <2>3
  <2>5. \A p, q : q \in next(p) <=> Extends(d, p, q)
    BY <2>2 DEF Extends
  <2> QED
    BY <2>4, <2>5
<1> QED
  BY <1>1, <1>3

\* What lies inside the dictionary, whether or not it is a trie.
Closes(d) ==
    /\ d.n \in Nat \ {0}
    /\ \A s \in States(d) : \A g \in Elements(d.gotos[s]) : g.next \in States(d) /\ g.c \in Nat

LEMMA PathType ==
    ASSUME NEW d, NEW f, Closes(d), PathsOf(d, f, d.n)
    PROVE  \A k \in 0 .. d.n : \A p \in f[k] :
              p[1] \in States(d) /\ p[2] \in Strings /\ Len(p[2]) = k /\ p = <<p[1], p[2]>>
<1> DEFINE IsPath(p, k) == p[1] \in States(d) /\ p[2] \in Strings /\ Len(p[2]) = k /\ p = <<p[1], p[2]>>
           S == {k \in Nat : k <= d.n => \A p \in f[k] : IsPath(p, k)}
<1>1. d.n \in Nat /\ d.n # 0
  BY DEF Closes
<1>2. 0 \in S
  <2>1. f[0] = {<<0, <<>>>>}
    BY <1>1, StepOfPath
  <2>2. 0 \in States(d) /\ <<>> \in Strings /\ Len(<<>>) = 0
    BY <1>1 DEF States, Strings
  <2> QED
    BY <2>1, <2>2
<1>3. ASSUME NEW k \in S PROVE k + 1 \in S
  <2> SUFFICES ASSUME k + 1 <= d.n, NEW q \in f[k + 1] PROVE IsPath(q, k + 1)
    OBVIOUS
  <2>1. k \in 0 .. d.n - 1 /\ k <= d.n
    BY <1>1
  <2>2. PICK p \in f[k] : Extends(d, p, q)
    BY <1>1, <2>1, StepOfPath
  <2>3. PICK g \in Elements(d.gotos[p[1]]) : q = <<g.next, Append(p[2], g.c)>>
    BY <2>2 DEF Extends
  <2>4. p[1] \in States(d) /\ p[2] \in Strings /\ Len(p[2]) = k
    BY <2>1
  <2>5. g.next \in States(d) /\ g.c \in Nat
    BY <2>4 DEF Closes
  <2>6. Append(p[2], g.c) \in Strings /\ Len(Append(p[2], g.c)) = k + 1
    BY <2>4, <2>5, AppendIs
  <2> QED
    BY <2>3, <2>5, <2>6
<1> HIDE DEF S
<1>4. S = Nat
  <2>1. S \subseteq Nat
    BY DEF S
  <2> QED
    BY <1>2, <1>3, <2>1, Induct
<1>5. \A k \in 0 .. d.n : k \in S /\ k <= d.n
  BY <1>1, <1>4
<1> QED
  BY <1>5 DEF S

\* Gotos that ascend spell each state's strings differently.
LEMMA AppendedSame ==
    ASSUME NEW t \in Strings, NEW u \in Strings, NEW c \in Nat, NEW d \in Nat, Append(t, c) = Append(u, d)
    PROVE  t = u /\ c = d
<1>1. /\ Len(t) \in Nat /\ Len(u) \in Nat
      /\ Len(Append(t, c)) = Len(t) + 1 /\ Append(t, c)[Len(t) + 1] = c /\ \A k \in 1 .. Len(t) : Append(t, c)[k] = t[k]
      /\ Len(Append(u, d)) = Len(u) + 1 /\ Append(u, d)[Len(u) + 1] = d /\ \A k \in 1 .. Len(u) : Append(u, d)[k] = u[k]
  <2>1. Len(Append(t, c)) = Len(t) + 1 /\ Append(t, c)[Len(t) + 1] = c /\ \A k \in 1 .. Len(t) : Append(t, c)[k] = t[k]
    BY AppendIs
  <2>2. Len(Append(u, d)) = Len(u) + 1 /\ Append(u, d)[Len(u) + 1] = d /\ \A k \in 1 .. Len(u) : Append(u, d)[k] = u[k]
    BY AppendIs
  <2>3. Len(t) \in Nat /\ Len(u) \in Nat
    BY DEF Strings
  <2> QED
    BY <2>1, <2>2, <2>3
<1>2. Len(t) = Len(u)
  BY <1>1
<1>3. \A k \in 1 .. Len(t) : t[k] = u[k]
  BY <1>1, <1>2
<1>4. t = u
  BY <1>2, <1>3, SeqEqual DEF Strings
<1> QED
  BY <1>1, <1>2, <1>4

LEMMA PathsDiffer ==
    ASSUME NEW d, NEW f, Closes(d), PathsOf(d, f, d.n),
           \A s \in States(d) : \A g, h \in Elements(d.gotos[s]) : g.c = h.c => g = h
    PROVE  \A k \in 0 .. d.n : \A p, q \in f[k] : p[2] = q[2] => p = q
<1> DEFINE S == {k \in Nat : k <= d.n => \A p, q \in f[k] : p[2] = q[2] => p = q}
<1>1. d.n \in Nat /\ d.n # 0
  BY DEF Closes
<1>2. 0 \in S
  <2>1. f[0] = {<<0, <<>>>>}
    BY <1>1, StepOfPath
  <2> QED
    BY <2>1
<1>3. ASSUME NEW k \in S PROVE k + 1 \in S
  <2> SUFFICES ASSUME k + 1 <= d.n, NEW p \in f[k + 1], NEW q \in f[k + 1], p[2] = q[2] PROVE p = q
    OBVIOUS
  <2>1. k \in 0 .. d.n - 1 /\ k \in 0 .. d.n /\ k <= d.n
    BY <1>1
  <2>2. PICK pp \in f[k] : Extends(d, pp, p)
    BY <1>1, <2>1, StepOfPath
  <2>3. PICK g \in Elements(d.gotos[pp[1]]) : p = <<g.next, Append(pp[2], g.c)>>
    BY <2>2 DEF Extends
  <2>4. PICK qq \in f[k] : Extends(d, qq, q)
    BY <1>1, <2>1, StepOfPath
  <2>5. PICK h \in Elements(d.gotos[qq[1]]) : q = <<h.next, Append(qq[2], h.c)>>
    BY <2>4 DEF Extends
  <2>6. pp[1] \in States(d) /\ qq[1] \in States(d) /\ pp[2] \in Strings /\ qq[2] \in Strings
    BY <2>1, PathType
  <2>7. g.c \in Nat /\ h.c \in Nat
    BY <2>6 DEF Closes
  <2>8. Append(pp[2], g.c) = Append(qq[2], h.c)
    BY <2>3, <2>5
  <2>9. pp[2] = qq[2] /\ g.c = h.c
    BY <2>6, <2>7, <2>8, AppendedSame
  <2>10. pp = qq
    BY <2>1, <2>9
  <2>11. g = h
    BY <2>6, <2>9, <2>10
  <2> QED
    BY <2>3, <2>5, <2>10, <2>11
<1> HIDE DEF S
<1>4. S = Nat
  <2>1. S \subseteq Nat
    BY DEF S
  <2> QED
    BY <1>2, <1>3, <2>1, Induct
<1>5. \A k \in 0 .. d.n : k \in S /\ k <= d.n
  BY <1>1, <1>4
<1> QED
  BY <1>5 DEF S

-----------------------------------------------------------------------------
(* A well formed dictionary is a tree *)

Ranges(d) ==
    \A s \in States(d) :
        /\ d.failure[s] < d.n /\ \A g \in Elements(d.gotos[s]) : g.next < d.n
        /\ \A k \in DOMAIN d.outputs[s] : d.outputs[s][k] < Len(d.lengths)
        /\ \A j, k \in DOMAIN d.gotos[s] : j < k => d.gotos[s][j].c < d.gotos[s][k].c

\* Every state but the root has one parent and one edge from it, and "deep"
\* counts the edges from the root.
Tree(d, deep) ==
    /\ deep \in [States(d) -> Nat]
    /\ deep[0] = 0 /\ \A s \in States(d) : deep[s] < d.n
    /\ \A s \in States(d) : \A g \in Elements(d.gotos[s]) : g.next # 0 /\ deep[g.next] = deep[s] + 1
    /\ \A t \in States(d) \ {0} : \E s \in States(d) : \E g \in Elements(d.gotos[s]) : g.next = t
    /\ \A s, t \in States(d) : \A g \in Elements(d.gotos[s]), h \in Elements(d.gotos[t]) :
          g.next = h.next => s = t /\ g = h

Linked(d, deep) ==
    /\ \A s \in States(d) \ {0} : deep[d.failure[s]] < deep[s]
    /\ \A s \in States(d) : \A o \in Elements(d.outputs[s]) : d.lengths[o + 1] \in 1 .. deep[s]

\* In a tree the paths of length k lead to the states of that depth, one each.
LEMMA TreePaths ==
    ASSUME NEW d, NEW f, NEW deep, Closes(d), Tree(d, deep), PathsOf(d, f, d.n)
    PROVE  /\ \A k \in 0 .. d.n : \A p \in f[k] : deep[p[1]] = k
           /\ \A k \in 0 .. d.n : \A s \in States(d) : deep[s] = k => \E p \in f[k] : p[1] = s
           /\ \A k \in 0 .. d.n : \A p, q \in f[k] : p[1] = q[1] => p = q
<1> DEFINE Good(k) == /\ \A p \in f[k] : deep[p[1]] = k
                      /\ \A s \in States(d) : deep[s] = k => \E p \in f[k] : p[1] = s
                      /\ \A p, q \in f[k] : p[1] = q[1] => p = q
           S == {k \in Nat : k <= d.n => Good(k)}
<1>1. d.n \in Nat /\ d.n # 0
  BY DEF Closes
<1>2. \A k \in 0 .. d.n : \A p \in f[k] : p[1] \in States(d)
  BY PathType
<1>3. \A s \in States(d) : deep[s] \in Nat
  BY DEF Tree
<1>4. 0 \in S
  <2>1. f[0] = {<<0, <<>>>>}
    BY <1>1, StepOfPath
  <2>2. \A s \in States(d) : deep[s] = 0 => s = 0
    <3> SUFFICES ASSUME NEW s \in States(d), deep[s] = 0, s # 0 PROVE FALSE
      OBVIOUS
    <3>1. PICK u \in States(d) : \E g \in Elements(d.gotos[u]) : g.next = s
      BY DEF Tree
    <3>2. deep[s] = deep[u] + 1
      BY <3>1 DEF Tree
    <3> QED
      BY <1>3, <3>2
  <2>3. deep[0] = 0
    BY DEF Tree
  <2>4. \A p \in f[0] : p[1] = 0
    BY <2>1
  <2>5. \E p \in f[0] : p[1] = 0
    BY <2>1
  <2>6. \A p, q \in f[0] : p = q
    BY <2>1
  <2>7. Good(0)
    BY <2>2, <2>3, <2>4, <2>5, <2>6
  <2> QED
    BY <2>7
<1>5. ASSUME NEW k \in S PROVE k + 1 \in S
  <2> SUFFICES ASSUME k + 1 <= d.n PROVE Good(k + 1)
    OBVIOUS
  <2>1. k \in 0 .. d.n - 1 /\ k \in 0 .. d.n /\ k <= d.n /\ k \in Nat
    BY <1>1
  <2>2. \A q : q \in f[k + 1] <=> \E p \in f[k] : Extends(d, p, q)
    BY <1>1, <2>1, StepOfPath
  <2>3. Good(k)
    BY <2>1
  <2>4. \A q \in f[k + 1] : deep[q[1]] = k + 1
    <3> TAKE q \in f[k + 1]
    <3>1. PICK p \in f[k] : Extends(d, p, q)
      BY <2>2
    <3>2. PICK g \in Elements(d.gotos[p[1]]) : q = <<g.next, Append(p[2], g.c)>>
      BY <3>1 DEF Extends
    <3>3. p[1] \in States(d) /\ deep[p[1]] = k
      BY <1>2, <2>1, <2>3
    <3>4. deep[g.next] = deep[p[1]] + 1
      BY <3>3 DEF Tree
    <3> QED
      BY <3>2, <3>3, <3>4
  <2>5. ASSUME NEW s \in States(d), deep[s] = k + 1 PROVE \E q \in f[k + 1] : q[1] = s
    <3>1. s # 0
      BY <2>1, <2>5 DEF Tree
    <3>2. PICK u \in States(d) : \E g \in Elements(d.gotos[u]) : g.next = s
      BY <3>1 DEF Tree
    <3>3. PICK g \in Elements(d.gotos[u]) : g.next = s
      BY <3>2
    <3>4. deep[s] = deep[u] + 1
      BY <3>3 DEF Tree
    <3>5. deep[u] = k
      BY <1>3, <2>1, <2>5, <3>4
    <3>6. PICK p \in f[k] : p[1] = u
      BY <2>3, <3>5
    <3>7. <<g.next, Append(p[2], g.c)>> \in f[k + 1]
      BY <2>2, <3>6 DEF Extends
    <3> QED
      BY <3>3, <3>7
  <2>6. ASSUME NEW p \in f[k + 1], NEW q \in f[k + 1], p[1] = q[1] PROVE p = q
    <3>1. PICK pp \in f[k] : Extends(d, pp, p)
      BY <2>2
    <3>2. PICK g \in Elements(d.gotos[pp[1]]) : p = <<g.next, Append(pp[2], g.c)>>
      BY <3>1 DEF Extends
    <3>3. PICK qq \in f[k] : Extends(d, qq, q)
      BY <2>2
    <3>4. PICK h \in Elements(d.gotos[qq[1]]) : q = <<h.next, Append(qq[2], h.c)>>
      BY <3>3 DEF Extends
    <3>5. pp[1] \in States(d) /\ qq[1] \in States(d) /\ g.next = h.next
      BY <1>2, <2>1, <2>6, <3>2, <3>4
    <3>6. pp[1] = qq[1] /\ g = h
      BY <3>5 DEF Tree
    <3>7. pp = qq
      BY <2>3, <3>6
    <3> QED
      BY <3>2, <3>4, <3>6, <3>7
  <2> QED
    BY <2>4, <2>5, <2>6
<1> HIDE DEF Good
<1>6. S = Nat
  <2>1. S \subseteq Nat
    OBVIOUS
  <2> HIDE DEF S
  <2> QED
    BY <1>4, <1>5, <2>1, Induct
<1>7. \A k \in 0 .. d.n : Good(k)
  <2> TAKE k \in 0 .. d.n
  <2>1. k \in S /\ k <= d.n
    BY <1>1, <1>6
  <2> QED
    BY <2>1
<1> QED
  BY <1>7 DEF Good

\* The links and the entries are of the strings' lengths.
LEMMA LengthsAreDepths ==
    ASSUME NEW d, NEW deep, d.n \in Nat, \A s \in States(d) : d.failure[s] \in Nat,
           \A p \in Paths(d) : Len(p[2]) = deep[p[1]],
           {p[1] : p \in Paths(d)} = States(d)
    PROVE  WellFormed(d) <=> Ranges(d) /\ Cardinality(Paths(d)) = d.n /\ Linked(d, deep)
<1> DEFINE paths == Paths(d)
           length(s) == Len((CHOOSE p \in paths : p[1] = s)[2])
<1>1. WellFormed(d) <=>
         /\ Ranges(d)
         /\ Cardinality(paths) = d.n /\ {p[1] : p \in paths} = States(d)
         /\ \A s \in States(d) \ {0} : length(d.failure[s]) < length(s)
         /\ \A s \in States(d) : \A o \in Elements(d.outputs[s]) : d.lengths[o + 1] \in 1 .. length(s)
  BY DEF WellFormed, Ranges
<1>2. \A s \in States(d) : length(s) = deep[s]
  <2> TAKE s \in States(d)
  <2>1. \E p \in paths : p[1] = s
    OBVIOUS
  <2> DEFINE p == CHOOSE q \in paths : q[1] = s
  <2>2. p \in paths /\ p[1] = s
    BY <2>1
  <2>3. length(s) = Len(p[2])
    OBVIOUS
  <2> HIDE DEF p, length
  <2> QED
    BY <2>2, <2>3
<1> HIDE DEF length
<1>3. Ranges(d) => \A s \in States(d) : d.failure[s] \in States(d)
  BY DEF Ranges, States
<1>4. Ranges(d) => ((\A s \in States(d) \ {0} : length(d.failure[s]) < length(s))
                       <=> (\A s \in States(d) \ {0} : deep[d.failure[s]] < deep[s]))
  BY <1>2, <1>3
<1>5. (\A s \in States(d) : \A o \in Elements(d.outputs[s]) : d.lengths[o + 1] \in 1 .. length(s))
         <=> (\A s \in States(d) : \A o \in Elements(d.outputs[s]) : d.lengths[o + 1] \in 1 .. deep[s])
  BY <1>2
<1> QED
  BY <1>1, <1>4, <1>5 DEF Linked

LEMMA TreesAreWellFormed ==
    ASSUME NEW d, NEW deep, Closes(d), Tree(d, deep), Ranges(d), Linked(d, deep),
           \A s \in States(d) : d.failure[s] \in Nat
    PROVE  WellFormed(d)
<1>1. d.n \in Nat /\ d.n # 0
  BY DEF Closes
<1>2. PICK f : PathsOf(d, f, d.n) /\ Paths(d) = UNION {f[k] : k \in 0 .. d.n}
  BY <1>1, PathsAre
<1> DEFINE P == Paths(d)
<1>3. \A p : p \in P <=> \E k \in 0 .. d.n : p \in f[k]
  BY <1>2
<1> HIDE DEF P
<1>4. \A k \in 0 .. d.n : \A p \in f[k] : p[1] \in States(d) /\ Len(p[2]) = k /\ deep[p[1]] = k
  BY <1>2, PathType, TreePaths
<1>5. \A p \in P : p[1] \in States(d) /\ Len(p[2]) = deep[p[1]]
  BY <1>3, <1>4
<1>6. \A p, q \in P : p[1] = q[1] => p = q
  <2> TAKE p, q \in P
  <2> HAVE p[1] = q[1]
  <2>1. PICK k \in 0 .. d.n : p \in f[k]
    BY <1>3
  <2>2. PICK j \in 0 .. d.n : q \in f[j]
    BY <1>3
  <2>3. k = j
    BY <1>4, <2>1, <2>2
  <2>4. \A x, y \in f[k] : x[1] = y[1] => x = y
    BY <1>2, TreePaths
  <2> QED
    BY <2>1, <2>2, <2>3, <2>4
<1>7. \A s \in States(d) : \E p \in P : p[1] = s
  <2> TAKE s \in States(d)
  <2>1. deep[s] \in Nat /\ deep[s] < d.n
    BY DEF Tree
  <2>2. deep[s] \in 0 .. d.n
    BY <1>1, <2>1
  <2>3. \E p \in f[deep[s]] : p[1] = s
    BY <1>2, <2>2, TreePaths
  <2> QED
    BY <1>3, <2>2, <2>3
<1>8. Cardinality(P) = d.n
  <2> DEFINE g == [s \in States(d) |-> CHOOSE p \in P : p[1] = s]
  <2>1. \A s \in States(d) : g[s] \in P /\ g[s][1] = s
    BY <1>7
  <2>2. g \in [States(d) -> P]
    BY <2>1
  <2> HIDE DEF g
  <2>3. g \in Injection(States(d), P)
    BY <2>1, <2>2 DEF Injection, IsInjective
  <2>4. g \in Surjection(States(d), P)
    BY <1>5, <1>6, <2>1, <2>2 DEF Surjection
  <2>5. ExistsBijection(States(d), P)
    BY <2>3, <2>4 DEF ExistsBijection, Bijection
  <2>6. IsFiniteSet(States(d)) /\ Cardinality(States(d)) = d.n
    BY <1>1, FS_Interval DEF States
  <2> QED
    BY <2>5, <2>6, FS_Bijection
<1>9. {p[1] : p \in P} = States(d)
  BY <1>5, <1>7
<1> QED
  BY <1>1, <1>5, <1>8, <1>9, LengthsAreDepths DEF P

LEMMA CountTo ==
    ASSUME NEW n \in Nat
    PROVE  IsFiniteSet(0 .. n - 1) /\ Cardinality(0 .. n - 1) = n
<1>1. n - 1 \in Int /\ 0 \in Int /\ (IF 0 > n - 1 THEN 0 ELSE (n - 1) - 0 + 1) = n
  OBVIOUS
<1> QED
  BY <1>1, FS_Interval

LEMMA ImageIsFinite ==
    ASSUME NEW S, IsFiniteSet(S), NEW g
    PROVE  IsFiniteSet({g[x] : x \in S})
<1> DEFINE T == {g[x] : x \in S}
           h == [x \in S |-> g[x]]
<1>1. h \in Surjection(S, T)
  BY DEF Surjection
<1> QED
  BY <1>1, FS_Surjection

LEMMA PathsAreFinite ==
    ASSUME NEW d, NEW f, Closes(d), PathsOf(d, f, d.n),
           \A s \in States(d) : IsFiniteSet(Elements(d.gotos[s]))
    PROVE  IsFiniteSet(UNION {f[k] : k \in 0 .. d.n})
<1> DEFINE S == {k \in Nat : k <= d.n => IsFiniteSet(f[k])}
<1>1. d.n \in Nat /\ d.n # 0
  BY DEF Closes
<1>2. 0 \in S
  <2>1. f[0] = {<<0, <<>>>>}
    BY <1>1, StepOfPath
  <2>2. IsFiniteSet({<<0, <<>>>>})
    BY FS_Singleton
  <2> QED
    BY <2>1, <2>2
<1>3. ASSUME NEW k \in S PROVE k + 1 \in S
  <2> SUFFICES ASSUME k + 1 <= d.n PROVE IsFiniteSet(f[k + 1])
    OBVIOUS
  <2>1. k \in 0 .. d.n - 1 /\ k \in 0 .. d.n /\ k <= d.n
    BY <1>1
  <2>2. IsFiniteSet(f[k])
    BY <2>1
  <2> DEFINE step(p) == [g \in Elements(d.gotos[p[1]]) |-> <<g.next, Append(p[2], g.c)>>]
             next(p) == {step(p)[g] : g \in Elements(d.gotos[p[1]])}
             all == [p \in f[k] |-> next(p)]
             found == {all[p] : p \in f[k]}
  <2>3. ASSUME NEW p \in f[k] PROVE IsFiniteSet(next(p))
    <3>1. IsFiniteSet(Elements(d.gotos[p[1]]))
      BY <2>1, PathType
    <3> HIDE DEF step
    <3> QED
      BY <3>1, ImageIsFinite
  <2>4. \A p, q : q \in next(p) <=> Extends(d, p, q)
    BY DEF Extends
  <2> HIDE DEF next
  <2>5. IsFiniteSet(found)
    <3> HIDE DEF all
    <3> QED
      BY <2>2, ImageIsFinite
  <2>6. \A x \in found : IsFiniteSet(x)
    BY <2>3
  <2>7. IsFiniteSet(UNION found)
    <3> HIDE DEF found
    <3> QED
      BY <2>5, <2>6, FS_UNION
  <2>8. \A q : q \in f[k + 1] <=> \E p \in f[k] : Extends(d, p, q)
    BY <1>1, <2>1, StepOfPath
  <2>9. f[k + 1] = UNION found
    BY <2>4, <2>8
  <2> QED
    BY <2>7, <2>9
<1>4. S = Nat
  <2>1. S \subseteq Nat
    OBVIOUS
  <2> HIDE DEF S
  <2> QED
    BY <1>2, <1>3, <2>1, Induct
<1>5. \A k \in 0 .. d.n : IsFiniteSet(f[k])
  <2> TAKE k \in 0 .. d.n
  <2>1. k \in S /\ k <= d.n
    BY <1>1, <1>4
  <2> QED
    BY <2>1
<1> DEFINE levels == {f[k] : k \in 0 .. d.n}
<1>6. IsFiniteSet(levels)
  <2>1. IsFiniteSet(0 .. d.n)
    BY <1>1, FS_Interval
  <2> QED
    BY <2>1, ImageIsFinite
<1>7. \A x \in levels : IsFiniteSet(x)
  BY <1>5
<1> HIDE DEF levels
<1>8. IsFiniteSet(UNION levels)
  BY <1>6, <1>7, FS_UNION
<1> QED
  BY <1>8 DEF levels

\* The keys of every state ascend, so each leads to one edge.
LEMMA KeysDiffer ==
    ASSUME NEW d, NEW s \in States(d), d.gotos[s] \in Gotos,
           \A j, k \in DOMAIN d.gotos[s] : j < k => d.gotos[s][j].c < d.gotos[s][k].c
    PROVE  /\ \A g, h \in Elements(d.gotos[s]) : g.c = h.c => g = h
           /\ \A j, k \in DOMAIN d.gotos[s] : d.gotos[s][j] = d.gotos[s][k] => j = k
           /\ \A g \in Elements(d.gotos[s]) : g.c \in Nat /\ g = [c |-> g.c, next |-> g.next]
           /\ IsFiniteSet(Elements(d.gotos[s]))
<1> DEFINE gotos == d.gotos[s]
<1>1. /\ DOMAIN gotos = 1 .. Len(gotos) /\ Len(gotos) \in Nat
      /\ Elements(gotos) = {gotos[k] : k \in 1 .. Len(gotos)}
      /\ \A k \in 1 .. Len(gotos) : gotos[k] \in Goto
  BY DEF Gotos, Elements
<1>2. \A j, k \in 1 .. Len(gotos) : j < k => gotos[j].c < gotos[k].c
  BY <1>1
<1> HIDE DEF gotos
<1>3. \A k \in 1 .. Len(gotos) : gotos[k].c \in Nat /\ gotos[k] = [c |-> gotos[k].c, next |-> gotos[k].next]
  BY <1>1 DEF Goto
<1>4. \A j, k \in 1 .. Len(gotos) : gotos[j].c = gotos[k].c => j = k
  BY <1>1, <1>2, <1>3
<1>5. IsFiniteSet(Elements(gotos))
  <2>1. IsFiniteSet(1 .. Len(gotos))
    BY <1>1, FS_Interval
  <2> QED
    BY <1>1, <2>1, ImageIsFinite
<1>6. \A g, h \in Elements(gotos) : g.c = h.c => g = h
  BY <1>1, <1>4
<1>7. \A j, k \in DOMAIN gotos : gotos[j] = gotos[k] => j = k
  BY <1>1, <1>4
<1>8. \A g \in Elements(gotos) : g.c \in Nat /\ g = [c |-> g.c, next |-> g.next]
  BY <1>1, <1>3
<1> QED
  BY <1>5, <1>6, <1>7, <1>8 DEF gotos

\* Paths that lead to different states are too few to go on for ever.
LEMMA PathsEnd ==
    ASSUME NEW d, NEW f, Closes(d), PathsOf(d, f, d.n),
           \A j, k \in 0 .. d.n : \A p \in f[j], q \in f[k] : p[1] = q[1] => p = q
    PROVE  f[d.n] = {}
<1>1. d.n \in Nat /\ d.n # 0
  BY DEF Closes
<1>2. \E k \in 0 .. d.n : f[k] = {}
  <2> SUFFICES ASSUME \A k \in 0 .. d.n : f[k] # {} PROVE FALSE
    OBVIOUS
  <2> DEFINE path(k) == CHOOSE p \in f[k] : TRUE
             end == [k \in 0 .. d.n |-> path(k)[1]]
  <2>1. \A k \in 0 .. d.n : path(k) \in f[k]
    OBVIOUS
  <2> HIDE DEF path
  <2>2. \A k \in 0 .. d.n : path(k)[1] \in States(d) /\ Len(path(k)[2]) = k
    BY <2>1, PathType
  <2>3. \A j, k \in 0 .. d.n : path(j)[1] = path(k)[1] => j = k
    <3> TAKE j, k \in 0 .. d.n
    <3> HAVE path(j)[1] = path(k)[1]
    <3>1. path(j) = path(k)
      BY <2>1
    <3> QED
      BY <2>2, <3>1
  <2>4. end \in Injection(0 .. d.n, States(d))
    BY <2>2, <2>3 DEF Injection, IsInjective
  <2>5. IsFiniteSet(States(d)) /\ Cardinality(States(d)) = d.n
    BY <1>1, CountTo DEF States
  <2>6. Cardinality(0 .. d.n) <= Cardinality(States(d))
    <3> HIDE DEF end
    <3> QED
      BY <2>4, <2>5, FS_Injection
  <2>7. Cardinality(0 .. d.n) = d.n + 1
    BY <1>1, FS_Interval
  <2> QED
    BY <1>1, <2>5, <2>6, <2>7
<1>3. PICK k \in 0 .. d.n : f[k] = {}
  BY <1>2
<1> DEFINE S == {j \in Nat : j <= d.n /\ j >= k => f[j] = {}}
<1>4. 0 \in S
  BY <1>3
<1>5. ASSUME NEW j \in S PROVE j + 1 \in S
  <2> SUFFICES ASSUME j + 1 <= d.n, j + 1 >= k PROVE f[j + 1] = {}
    OBVIOUS
  <2>1. CASE j + 1 = k
    BY <1>3, <2>1
  <2>2. CASE j + 1 # k
    <3>1. j >= k /\ j <= d.n /\ j \in 0 .. d.n - 1
      BY <1>1, <2>2
    <3>2. f[j] = {}
      BY <3>1
    <3>3. \A q : q \in f[j + 1] <=> \E p \in f[j] : Extends(d, p, q)
      BY <1>1, <3>1, StepOfPath
    <3> QED
      BY <3>2, <3>3
  <2> QED
    BY <2>1, <2>2
<1>6. S = Nat
  <2>1. S \subseteq Nat
    OBVIOUS
  <2> HIDE DEF S
  <2> QED
    BY <1>4, <1>5, <2>1, Induct
<1>7. d.n \in S /\ d.n <= d.n /\ d.n >= k
  BY <1>1, <1>6
<1> QED
  BY <1>7

LEMMA WellFormedAreTrees ==
    ASSUME NEW d, WellFormed(d), d.n \in Nat \ {0},
           \A s \in States(d) : d.failure[s] \in Nat /\ d.gotos[s] \in Gotos
    PROVE  Ranges(d) /\ \E deep : Tree(d, deep) /\ Linked(d, deep)
<1>1. d.n \in Nat /\ d.n # 0
  OBVIOUS
<1> DEFINE P == Paths(d)
<1>2. Ranges(d) /\ Cardinality(P) = d.n /\ {p[1] : p \in P} = States(d)
  BY DEF WellFormed, Ranges
<1>3. \A s \in States(d) :
         /\ \A g, h \in Elements(d.gotos[s]) : g.c = h.c => g = h
         /\ \A g \in Elements(d.gotos[s]) : g.c \in Nat /\ g = [c |-> g.c, next |-> g.next]
         /\ IsFiniteSet(Elements(d.gotos[s]))
  <2> TAKE s \in States(d)
  <2>1. \A j, k \in DOMAIN d.gotos[s] : j < k => d.gotos[s][j].c < d.gotos[s][k].c
    BY <1>2 DEF Ranges
  <2> QED
    BY <2>1, KeysDiffer
<1>4. Closes(d)
  <2>1. \A s \in States(d) : \A g \in Elements(d.gotos[s]) : g.next \in Nat
    <3> TAKE s \in States(d)
    <3>1. \A k \in DOMAIN d.gotos[s] : d.gotos[s][k] \in Goto
      BY DEF Gotos
    <3> QED
      BY <3>1 DEF Goto, Elements
  <2>2. \A s \in States(d) : \A g \in Elements(d.gotos[s]) : g.next < d.n
    BY <1>2 DEF Ranges
  <2> QED
    BY <1>1, <1>3, <2>1, <2>2 DEF Closes, States
<1>5. PICK f : PathsOf(d, f, d.n) /\ P = UNION {f[k] : k \in 0 .. d.n}
  BY <1>1, PathsAre
<1>6. IsFiniteSet(P)
  BY <1>3, <1>4, <1>5, PathsAreFinite
<1>7. \A p : p \in P <=> \E k \in 0 .. d.n : p \in f[k]
  BY <1>5
<1> HIDE DEF P
<1>8. IsFiniteSet(States(d)) /\ Cardinality(States(d)) = d.n
  BY <1>1, CountTo DEF States
<1>9. \A p, q \in P : p[1] = q[1] => p = q
  <2> DEFINE end == [p \in P |-> p[1]]
  <2>1. end \in Surjection(P, States(d))
    BY <1>2 DEF Surjection
  <2> HIDE DEF end
  <2>2. end \in Injection(P, States(d))
    BY <1>2, <1>6, <1>8, <2>1, FS_SurjSameCardinalityImpliesInj
  <2>3. \A p, q \in P : end[p] = end[q] => p = q
    BY <2>2 DEF Injection, IsInjective
  <2> QED
    BY <2>3 DEF end
<1>10. f[d.n] = {}
  <2>1. \A j, k \in 0 .. d.n : \A p \in f[j], q \in f[k] : p[1] = q[1] => p = q
    BY <1>7, <1>9
  <2> QED
    BY <1>4, <1>5, <2>1, PathsEnd
<1>11. \A k \in 0 .. d.n : \A p \in f[k] :
          p[1] \in States(d) /\ p[2] \in Strings /\ Len(p[2]) = k /\ k < d.n
  <2> TAKE k \in 0 .. d.n
  <2> TAKE p \in f[k]
  <2>1. k # d.n
    BY <1>10
  <2> QED
    BY <1>1, <1>4, <1>5, <2>1, PathType
<1> DEFINE path(s) == CHOOSE p \in P : p[1] = s
           deep == [s \in States(d) |-> Len(path(s)[2])]
<1>12. \A s \in States(d) : path(s) \in P /\ path(s)[1] = s
  <2> TAKE s \in States(d)
  <2>1. \E p \in P : p[1] = s
    BY <1>2
  <2> QED
    BY <2>1
<1>13. \A s \in States(d) : deep[s] = Len(path(s)[2])
  OBVIOUS
<1>14. deep = [s \in States(d) |-> deep[s]]
  OBVIOUS
<1> HIDE DEF path, deep
<1>15. \A p \in P : p[1] \in States(d) /\ Len(p[2]) = deep[p[1]]
  <2> TAKE p \in P
  <2>1. p[1] \in States(d)
    BY <1>7, <1>11
  <2>2. path(p[1]) = p
    BY <1>9, <1>12, <2>1
  <2> QED
    BY <1>13, <2>1, <2>2
<1>16. \A s \in States(d) : \E k \in 0 .. d.n - 1 :
          /\ path(s) \in f[k] /\ k \in 0 .. d.n /\ deep[s] = k
  <2> TAKE s \in States(d)
  <2>1. PICK k \in 0 .. d.n : path(s) \in f[k]
    BY <1>7, <1>12
  <2>2. Len(path(s)[2]) = k /\ k < d.n
    BY <1>11, <2>1
  <2>3. k \in 0 .. d.n - 1
    BY <1>1, <2>2
  <2> QED
    BY <1>13, <2>1, <2>2, <2>3
\* The path to a state goes on along each edge.
<1>17. \A s \in States(d) : \A g \in Elements(d.gotos[s]) :
          /\ <<g.next, Append(path(s)[2], g.c)>> \in P
          /\ path(s)[2] \in Strings /\ g.c \in Nat /\ g.next \in States(d)
          /\ Len(Append(path(s)[2], g.c)) = deep[s] + 1
  <2> TAKE s \in States(d)
  <2> TAKE g \in Elements(d.gotos[s])
  <2>1. PICK k \in 0 .. d.n - 1 : path(s) \in f[k] /\ k \in 0 .. d.n /\ deep[s] = k
    BY <1>16
  <2>2. path(s)[2] \in Strings /\ Len(path(s)[2]) = k
    BY <1>11, <2>1
  <2>3. g.c \in Nat /\ g.next \in States(d)
    BY <1>4 DEF Closes
  <2>4. Extends(d, path(s), <<g.next, Append(path(s)[2], g.c)>>)
    BY <1>12 DEF Extends
  <2>5. <<g.next, Append(path(s)[2], g.c)>> \in f[k + 1]
    <3>1. \A q : q \in f[k + 1] <=> \E p \in f[k] : Extends(d, p, q)
      BY <1>1, <1>5, <2>1, StepOfPath
    <3> QED
      BY <2>1, <2>4, <3>1
  <2>6. k + 1 \in 0 .. d.n
    BY <1>1, <2>1
  <2> QED
    BY <1>7, <2>1, <2>2, <2>3, <2>5, <2>6, AppendIs
<1>18. \A s \in States(d) : deep[s] \in Nat /\ deep[s] < d.n
  BY <1>1, <1>16
<1>19. <<0, <<>>>> \in f[0] /\ <<0, <<>>>> \in P /\ 0 \in States(d)
  <2>1. f[0] = {<<0, <<>>>>}
    BY <1>1, <1>5, StepOfPath
  <2>2. 0 \in 0 .. d.n /\ 0 \in States(d)
    BY <1>1 DEF States
  <2> QED
    BY <1>7, <2>1, <2>2
<1>20. deep[0] = 0
  <2>1. <<0, <<>>>>[1] = 0 /\ <<0, <<>>>>[2] = <<>> /\ Len(<<>>) = 0
    OBVIOUS
  <2> QED
    BY <1>15, <1>19, <2>1
<1>21. \A s \in States(d) : \A g \in Elements(d.gotos[s]) : deep[g.next] = deep[s] + 1 /\ g.next # 0
  <2> TAKE s \in States(d)
  <2> TAKE g \in Elements(d.gotos[s])
  <2> DEFINE q == <<g.next, Append(path(s)[2], g.c)>>
  <2>1. q \in P /\ q[1] = g.next /\ Len(q[2]) = deep[s] + 1
    BY <1>17
  <2> HIDE DEF q
  <2>2. deep[g.next] = deep[s] + 1
    BY <1>15, <2>1
  <2> QED
    BY <1>18, <1>20, <2>2
<1>22. \A t \in States(d) \ {0} : \E s \in States(d) : \E g \in Elements(d.gotos[s]) : g.next = t
  <2> TAKE t \in States(d) \ {0}
  <2>1. PICK k \in 0 .. d.n - 1 : path(t) \in f[k] /\ k \in 0 .. d.n
    BY <1>16
  <2>2. k # 0
    <3>1. f[0] = {<<0, <<>>>>}
      BY <1>1, <1>5, StepOfPath
    <3> QED
      BY <1>12, <2>1, <3>1
  <2>3. k - 1 \in 0 .. d.n - 1 /\ (k - 1) + 1 = k /\ k - 1 \in 0 .. d.n
    BY <1>1, <2>2
  <2>4. \A q : q \in f[(k - 1) + 1] <=> \E p \in f[k - 1] : Extends(d, p, q)
    BY <1>1, <1>5, <2>3, StepOfPath
  <2>5. PICK p \in f[k - 1] : Extends(d, p, path(t))
    BY <2>1, <2>3, <2>4
  <2>6. PICK g \in Elements(d.gotos[p[1]]) : path(t) = <<g.next, Append(p[2], g.c)>>
    BY <2>5 DEF Extends
  <2>7. p[1] \in States(d) /\ g.next = t
    BY <1>11, <1>12, <2>3, <2>6
  <2> QED
    BY <2>7
<1>23. \A s, t \in States(d) : \A g \in Elements(d.gotos[s]), h \in Elements(d.gotos[t]) :
          g.next = h.next => s = t /\ g = h
  <2> TAKE s, t \in States(d)
  <2> TAKE g \in Elements(d.gotos[s]), h \in Elements(d.gotos[t])
  <2> HAVE g.next = h.next
  <2> DEFINE p == <<g.next, Append(path(s)[2], g.c)>>
             q == <<h.next, Append(path(t)[2], h.c)>>
  <2>1. p \in P /\ q \in P /\ p[1] = q[1]
    BY <1>17
  <2>2. p = q
    <3> HIDE DEF p, q
    <3> QED
      BY <1>9, <2>1
  <2>3. Append(path(s)[2], g.c) = Append(path(t)[2], h.c)
    BY <2>2
  <2>4. path(s)[2] = path(t)[2] /\ g.c = h.c
    <3>1. path(s)[2] \in Strings /\ path(t)[2] \in Strings /\ g.c \in Nat /\ h.c \in Nat
      BY <1>17
    <3> QED
      BY <2>3, <3>1, AppendedSame
  <2>5. deep[s] = deep[t]
    BY <1>13, <2>4
  <2>6. PICK k \in 0 .. d.n : path(s) \in f[k] /\ path(t) \in f[k]
    BY <1>16, <2>5
  <2>7. path(s) = path(t)
    BY <1>3, <1>4, <1>5, <2>4, <2>6, PathsDiffer
  <2>8. s = t
    BY <1>12, <2>7
  <2> QED
    BY <1>3, <2>4, <2>8
<1>24. Tree(d, deep)
  <2>1. deep \in [States(d) -> Nat]
    BY <1>14, <1>18
  <2> QED
    BY <1>18, <1>20, <1>21, <1>22, <1>23, <2>1 DEF Tree
<1>25. Linked(d, deep)
  <2>1. {p[1] : p \in Paths(d)} = States(d) /\ \A p \in Paths(d) : Len(p[2]) = deep[p[1]]
    BY <1>2, <1>15 DEF P
  <2> QED
    BY <1>1, <2>1, LengthsAreDepths
<1> QED
  BY <1>2, <1>24, <1>25

-----------------------------------------------------------------------------
(* What the checks have established so far *)

\* Every state placed is the root or was reached from its parent, and no edge
\* goes back to the root.
GrowInv ==
    Building =>
        /\ depth[0] = 0
        /\ \A u \in States(dict) : Expanded(u) => \A g \in Elements(dict.gotos[u]) : g.next # 0
        /\ \A s \in States(dict) \ {0} : Placed(s) =>
              \E u \in States(dict) :
                  /\ Expanded(u) /\ depth[s] = depth[u] + 1
                  /\ \E g \in Elements(dict.gotos[u]) : g.next = s

\* The bound is the least one of the outputs read so far.
BoundInv ==
    phase = "read" =>
        /\ out_bound \in Nat
        /\ \A s \in 0 .. at - 1 : \A k \in DOMAIN dict.outputs[s] : dict.outputs[s][k] < out_bound
        /\ out_bound = 0 \/ \E s \in 0 .. at - 1 : \E k \in DOMAIN dict.outputs[s] : out_bound = dict.outputs[s][k] + 1

EntriesInv == Building => \A s \in States(dict) : \A k \in DOMAIN dict.outputs[s] : dict.outputs[s][k] < Len(dict.lengths)

VerdictInv == reason = "malformed" /\ dict.n > 0 => ~WellFormed(dict)

AcceptInv == GrowInv /\ BoundInv /\ EntriesInv /\ (Built => PayloadsFit) /\ VerdictInv

LEMMA DictTyped ==
    ASSUME ReadInv, dict.n > 0
    PROVE  /\ dict.n \in Nat \ {0} /\ 0 \in States(dict) /\ dict.lengths \in Seq(Nat)
           /\ \A s \in States(dict) : /\ dict.failure[s] \in Nat /\ dict.gotos[s] \in Gotos
                                      /\ dict.outputs[s] \in Seq(Nat)
<1>1. dict \in Dictionaries /\ dict.n \in Nat \ {0}
  BY AutomatonAssumption DEF ReadInv
<1> QED
  BY <1>1, AutomatonAssumption DEF States, Gotos, Goto

\* The layout is a tree when nothing is left to place.
LEMMA BuiltIsTree ==
    ASSUME IInv, GrowInv, Building, stack = <<>>, Reached
    PROVE  Closes(dict) /\ Tree(dict, depth)
<1>1. ReadInv /\ CellsInv /\ ChildrenInv /\ DepthInv /\ dict.n > 0
  BY DEF IInv, LayoutInv, Building
<1>2. dict.n \in Nat \ {0} /\ 0 \in States(dict) /\ \A s \in States(dict) : dict.gotos[s] \in Gotos
  BY <1>1, DictTyped
<1>3. \A s \in States(dict) : Placed(s) /\ Expanded(s)
  BY DEF Reached, Placed, Expanded, Waiting
<1>4. \A s \in States(dict) : \A g \in Elements(dict.gotos[s]) :
         g.c \in Nat /\ g.next \in States(dict) /\ g = [c |-> g.c, next |-> g.next]
  <2> TAKE s \in States(dict)
  <2>1. \A g \in Elements(dict.gotos[s]) : g.next \in States(dict)
    BY <1>1, GotosOf
  <2>2. \A k \in DOMAIN dict.gotos[s] : dict.gotos[s][k] \in Goto
    BY <1>2 DEF Gotos
  <2>3. \A g \in Elements(dict.gotos[s]) : g.c \in Nat /\ g = [c |-> g.c, next |-> g.next]
    BY <2>2 DEF Goto, Elements
  <2> QED
    BY <2>1, <2>3
<1>5. Closes(dict)
  BY <1>2, <1>4 DEF Closes
<1>6. depth \in [States(dict) -> Nat] /\ depth[0] = 0
  BY <1>1 DEF DepthInv, GrowInv
<1>7. \A s \in States(dict) : depth[s] < dict.n
  <2> DEFINE some == {t \in States(dict) : Placed(t)}
  <2>1. IsFiniteSet(States(dict)) /\ Cardinality(States(dict)) = dict.n
    BY <1>2, CountTo DEF States
  <2>2. some = States(dict)
    BY <1>3
  <2> QED
    BY <1>1, <1>3, <2>1, <2>2 DEF DepthInv
<1>8. \A s, t \in States(dict) : \A g \in Elements(dict.gotos[s]), h \in Elements(dict.gotos[t]) :
         g.next = h.next => s = t /\ g = h
  <2> TAKE s, t \in States(dict)
  <2> TAKE g \in Elements(dict.gotos[s]), h \in Elements(dict.gotos[t])
  <2> HAVE g.next = h.next
  <2>1. /\ new_id[g.next] = base[new_id[s]] + g.c /\ check[new_id[g.next]] = new_id[s]
        /\ new_id[h.next] = base[new_id[t]] + h.c /\ check[new_id[h.next]] = new_id[t]
    BY <1>1, <1>3 DEF ChildrenInv
  <2>2. s = t
    BY <1>1, <1>3, <2>1 DEF CellsInv
  <2>3. base[new_id[s]] \in Nat
    <3>1. new_id[s] \in Units
      BY <1>1, <1>3 DEF CellsInv, Placed
    <3> QED
      BY <1>1, <3>1 DEF CellsInv
  <2>4. g.c \in Nat /\ h.c \in Nat
    BY <1>4
  <2>5. g.c = h.c
    BY <2>1, <2>2, <2>3, <2>4
  <2> QED
    BY <1>4, <2>2, <2>5
<1>9. \A t \in States(dict) \ {0} : \E u \in States(dict) :
         depth[t] = depth[u] + 1 /\ \E g \in Elements(dict.gotos[u]) : g.next = t
  BY <1>3 DEF GrowInv
<1>10. \A s \in States(dict) : \A g \in Elements(dict.gotos[s]) : g.next # 0 /\ depth[g.next] = depth[s] + 1
  <2> TAKE s \in States(dict)
  <2> TAKE g \in Elements(dict.gotos[s])
  <2>1. g.next # 0
    BY <1>3 DEF GrowInv
  <2>2. PICK u \in States(dict) : depth[g.next] = depth[u] + 1 /\ \E h \in Elements(dict.gotos[u]) : h.next = g.next
    BY <1>4, <1>9, <2>1
  <2>3. u = s
    BY <1>8, <2>2
  <2> QED
    BY <2>1, <2>2, <2>3
<1> QED
  BY <1>5, <1>6, <1>7, <1>8, <1>9, <1>10 DEF Tree

\* What is built was well formed.
LEMMA BuiltIsWellFormed ==
    ASSUME IInv, AcceptInv, Built
    PROVE  WellFormed(dict)
<1>1. Building /\ ReadInv /\ dict.n > 0 /\ stack = <<>> /\ Reached /\ Shortens
  BY DEF Built, Building, IInv, TablesInv
<1>2. Closes(dict) /\ Tree(dict, depth)
  BY <1>1, BuiltIsTree DEF AcceptInv
<1>3. \A s \in States(dict) : dict.failure[s] \in Nat /\ dict.gotos[s] \in Gotos
  BY <1>1, DictTyped
<1>4. Ranges(dict)
  <2> SUFFICES ASSUME NEW s \in States(dict)
               PROVE  /\ dict.failure[s] < dict.n /\ \A g \in Elements(dict.gotos[s]) : g.next < dict.n
                      /\ \A k \in DOMAIN dict.outputs[s] : dict.outputs[s][k] < Len(dict.lengths)
                      /\ \A j, k \in DOMAIN dict.gotos[s] : j < k => dict.gotos[s][j].c < dict.gotos[s][k].c
    BY DEF Ranges
  <2>1. WellRead(s)
    BY <1>1 DEF ReadInv
  <2>2. \A j, k \in DOMAIN dict.gotos[s] : j < k => dict.gotos[s][j].c < dict.gotos[s][k].c
    BY <1>3, <2>1, AscendingKeys DEF WellRead
  <2>3. \A k \in DOMAIN dict.outputs[s] : dict.outputs[s][k] < Len(dict.lengths)
    BY <1>1 DEF AcceptInv, EntriesInv
  <2> QED
    BY <2>1, <2>2, <2>3 DEF WellRead, InRange
<1>5. Linked(dict, depth)
  BY <1>1 DEF Linked, Shortens, AcceptInv, PayloadsFit
<1> QED
  BY <1>2, <1>3, <1>4, <1>5, TreesAreWellFormed

\* The depths counted so far are the tree's.
LEMMA DepthsAgree ==
    ASSUME IInv, GrowInv, Building, NEW deep, Tree(dict, deep)
    PROVE  \A s \in States(dict) : Placed(s) => depth[s] = deep[s]
<1>1. ReadInv /\ DepthInv /\ dict.n > 0
  BY DEF IInv, LayoutInv, Building
<1>2. \A s \in States(dict) : depth[s] \in Nat /\ deep[s] \in Nat
  BY <1>1 DEF DepthInv, Tree
<1> DEFINE S == {k \in Nat : \A s \in States(dict) : Placed(s) /\ depth[s] = k => deep[s] = k}
<1>3. \A s \in States(dict) \ {0} : Placed(s) =>
         \E u \in States(dict) : Placed(u) /\ depth[s] = depth[u] + 1 /\ deep[s] = deep[u] + 1
  BY DEF GrowInv, Tree, Expanded
<1>4. 0 \in S
  <2> SUFFICES ASSUME NEW s \in States(dict), Placed(s), depth[s] = 0 PROVE deep[s] = 0
    OBVIOUS
  <2>1. s = 0
    BY <1>2, <1>3
  <2> QED
    BY <2>1 DEF Tree
<1>5. ASSUME NEW k \in S PROVE k + 1 \in S
  <2> SUFFICES ASSUME NEW s \in States(dict), Placed(s), depth[s] = k + 1 PROVE deep[s] = k + 1
    OBVIOUS
  <2>1. s # 0
    BY DEF GrowInv
  <2>2. PICK u \in States(dict) : Placed(u) /\ depth[s] = depth[u] + 1 /\ deep[s] = deep[u] + 1
    BY <1>3, <2>1
  <2>3. depth[u] = k
    BY <1>2, <2>2
  <2> QED
    BY <2>2, <2>3
<1>6. S = Nat
  <2>1. S \subseteq Nat
    OBVIOUS
  <2> HIDE DEF S
  <2> QED
    BY <1>4, <1>5, <2>1, Induct
<1>7. \A s \in States(dict) : depth[s] \in S
  BY <1>2, <1>6
<1> QED
  BY <1>7

\* When nothing is left to place, all of a tree has been.
LEMMA TreesAreReached ==
    ASSUME IInv, Building, stack = <<>>, NEW deep, Tree(dict, deep)
    PROVE  Reached
<1>1. CellsInv /\ ChildrenInv /\ ReadInv /\ dict.n > 0
  BY DEF IInv, LayoutInv, Building
<1>2. 0 \in States(dict) /\ Placed(0)
  BY <1>1, DictTyped DEF CellsInv, Placed, NoState
<1>3. \A s \in States(dict) : deep[s] \in Nat
  BY DEF Tree
<1>4. \A u \in States(dict) : Placed(u) => \A g \in Elements(dict.gotos[u]) : Placed(g.next)
  BY <1>1 DEF ChildrenInv, Expanded, Waiting
<1> DEFINE S == {k \in Nat : \A s \in States(dict) : deep[s] = k => Placed(s)}
<1>5. \A s \in States(dict) \ {0} : \E u \in States(dict) :
         deep[s] = deep[u] + 1 /\ \E g \in Elements(dict.gotos[u]) : g.next = s
  BY DEF Tree
<1>6. 0 \in S
  BY <1>2, <1>3, <1>5
<1>7. ASSUME NEW k \in S PROVE k + 1 \in S
  <2> SUFFICES ASSUME NEW s \in States(dict), deep[s] = k + 1 PROVE Placed(s)
    OBVIOUS
  <2>1. s # 0
    BY DEF Tree
  <2>2. PICK u \in States(dict) : deep[s] = deep[u] + 1 /\ \E g \in Elements(dict.gotos[u]) : g.next = s
    BY <1>5, <2>1
  <2>3. deep[u] = k
    BY <1>3, <2>2
  <2>4. Placed(u)
    BY <2>3
  <2> QED
    BY <1>4, <2>2, <2>4
<1>8. S = Nat
  <2>1. S \subseteq Nat
    OBVIOUS
  <2> HIDE DEF S
  <2> QED
    BY <1>6, <1>7, <2>1, Induct
<1>9. \A s \in States(dict) : Placed(s)
  BY <1>3, <1>8
<1> QED
  BY <1>9 DEF Reached, Placed

\* Every check refuses only what is not well formed.
LEMMA RefusedIsMalformed ==
    ASSUME IInv, AcceptInv, dict.n > 0, RejectState \/ RejectEntries \/ RejectGraph \/ RejectLinks
    PROVE  ~WellFormed(dict)
<1> SUFFICES ASSUME WellFormed(dict) PROVE FALSE
  OBVIOUS
<1>1. ReadInv /\ GrowInv /\ BoundInv
  BY DEF IInv, AcceptInv
<1>2. /\ dict.n \in Nat \ {0} /\ 0 \in States(dict) /\ dict.lengths \in Seq(Nat)
      /\ \A s \in States(dict) : /\ dict.failure[s] \in Nat /\ dict.gotos[s] \in Gotos
                                 /\ dict.outputs[s] \in Seq(Nat)
  BY <1>1, DictTyped
<1>3. Ranges(dict) /\ \E deep : Tree(dict, deep) /\ Linked(dict, deep)
  BY <1>2, WellFormedAreTrees
<1>4. PICK deep : Tree(dict, deep) /\ Linked(dict, deep)
  BY <1>3
<1>5. \A s \in States(dict) : WellRead(s)
  <2> SUFFICES ASSUME NEW s \in States(dict) PROVE InRange(s) /\ Ascending(dict.gotos[s])
    BY DEF WellRead
  <2>1. InRange(s)
    BY <1>3 DEF Ranges, InRange
  <2>2. \A j, k \in DOMAIN dict.gotos[s] : j < k => dict.gotos[s][j].c < dict.gotos[s][k].c
    BY <1>3 DEF Ranges
  <2>3. \A k \in 2 .. Len(dict.gotos[s]) : k - 1 \in DOMAIN dict.gotos[s] /\ k \in DOMAIN dict.gotos[s] /\ k - 1 < k
    <3>1. DOMAIN dict.gotos[s] = 1 .. Len(dict.gotos[s]) /\ Len(dict.gotos[s]) \in Nat
      BY <1>2 DEF Gotos
    <3> QED
      BY <3>1
  <2>4. Ascending(dict.gotos[s])
    BY <2>2, <2>3 DEF Ascending
  <2> QED
    BY <2>1, <2>4
<1>6. CASE RejectState
  <2>1. phase = "read" /\ at < dict.n /\ ~WellRead(at)
    BY <1>6 DEF RejectState
  <2>2. at \in States(dict)
    BY <1>1, <1>2, <2>1 DEF ReadInv, States
  <2> QED
    BY <1>5, <2>1, <2>2
<1>7. CASE RejectEntries
  <2>1. phase = "read" /\ at = dict.n /\ out_bound > Len(dict.lengths)
    BY <1>7 DEF RejectEntries
  <2>2. Len(dict.lengths) \in Nat
    BY <1>2
  <2>3. PICK s \in 0 .. at - 1 : \E k \in DOMAIN dict.outputs[s] : out_bound = dict.outputs[s][k] + 1
    BY <1>1, <2>1, <2>2 DEF BoundInv
  <2>4. s \in States(dict)
    BY <2>1 DEF States
  <2>5. PICK k \in DOMAIN dict.outputs[s] : out_bound = dict.outputs[s][k] + 1
    BY <2>3
  <2>6. dict.outputs[s][k] \in Nat /\ dict.outputs[s][k] < Len(dict.lengths)
    BY <1>2, <1>3, <2>4 DEF Ranges
  <2> QED
    BY <2>1, <2>2, <2>5, <2>6
<1>8. CASE RejectGraph
  <2>1. phase = "place" /\ stack # <<>> /\ ~ChildrenAreNew(dict.gotos[Popped])
    BY <1>8 DEF RejectGraph
  <2>2. Building /\ StackInv /\ CellsInv
    BY <2>1 DEF Building, IInv, LayoutInv
  <2>3. Popped \in States(dict) /\ Placed(Popped) /\ Waiting(Popped)
    BY <2>1, <2>2, PoppedFrom
  <2> DEFINE gotos == dict.gotos[Popped]
  <2>4. /\ gotos \in Gotos
        /\ \A g \in Elements(gotos) : g.next # 0 /\ g.next \in States(dict)
    BY <1>1, <1>2, <1>4, <2>2, <2>3, GotosOf DEF Tree
  <2>5. \A g \in Elements(gotos) : new_id[g.next] = NoState
    <3> SUFFICES ASSUME NEW g \in Elements(gotos), Placed(g.next) PROVE FALSE
      BY DEF Placed
    <3>1. PICK u \in States(dict) : Expanded(u) /\ \E h \in Elements(dict.gotos[u]) : h.next = g.next
      BY <1>1, <2>2, <2>4 DEF GrowInv
    <3>2. u = Popped
      BY <1>4, <2>3, <3>1 DEF Tree
    <3> QED
      BY <2>3, <3>1, <3>2 DEF Expanded
  <2>6. \A j, k \in DOMAIN gotos : gotos[j].next = gotos[k].next => j = k
    <3> TAKE j, k \in DOMAIN gotos
    <3> HAVE gotos[j].next = gotos[k].next
    <3>1. gotos[j] \in Elements(gotos) /\ gotos[k] \in Elements(gotos)
      BY DEF Elements
    <3>2. gotos[j] = gotos[k]
      BY <1>4, <2>3, <3>1 DEF Tree
    <3>3. \A x, y \in DOMAIN gotos : x < y => gotos[x].c < gotos[y].c
      BY <1>3, <2>3 DEF Ranges
    <3> QED
      BY <2>3, <2>4, <3>2, <3>3, KeysDiffer
  <2> QED
    BY <2>1, <2>5, <2>6 DEF ChildrenAreNew
<1>9. CASE RejectLinks
  <2>1. phase = "place" /\ stack = <<>> /\ ~(Reached /\ Shortens /\ PayloadsFit)
    BY <1>9 DEF RejectLinks
  <2>2. Building
    BY <2>1 DEF Building
  <2>3. Reached
    BY <1>4, <2>1, <2>2, TreesAreReached
  <2>4. \A s \in States(dict) : depth[s] = deep[s]
    BY <1>1, <1>4, <2>2, <2>3, DepthsAgree DEF Reached, Placed
  <2>5. \A s \in States(dict) : dict.failure[s] \in States(dict)
    BY <1>1, <2>2, GotosOf
  <2>6. Shortens
    BY <1>4, <2>4, <2>5 DEF Linked, Shortens
  <2>7. PayloadsFit
    BY <1>4, <2>4 DEF Linked, PayloadsFit
  <2> QED
    BY <2>1, <2>3, <2>6, <2>7
<1> QED
  BY <1>6, <1>7, <1>8, <1>9

\* Placing the children keeps the tree a tree.
LEMMA PlaceChildrenGrows ==
    ASSUME IInv, GrowInv, PlaceChildren
    PROVE  GrowInv'
<1> DEFINE gotos == dict.gotos[Popped]
           edge(s) == CHOOSE g \in Elements(gotos) : g.next = s
           isChild(s) == \E g \in Elements(gotos) : g.next = s
           b == BaseFor(gotos)
<1>1. /\ dict' = dict /\ phase' = phase /\ phase = "place" /\ stack # <<>>
      /\ ChildrenAreNew(gotos)
      /\ new_id' = [s \in States(dict) |-> IF isChild(s) THEN b + edge(s).c ELSE new_id[s]]
      /\ depth' = [s \in States(dict) |-> IF isChild(s) THEN depth[Popped] + 1 ELSE depth[s]]
  BY DEF PlaceChildren
<1>2. Building /\ Building' /\ ReadInv /\ CellsInv /\ StackInv /\ dict.n > 0
  BY <1>1 DEF IInv, ReadInv, LayoutInv, Building
<1>3. Popped \in States(dict) /\ Placed(Popped) /\ Waiting(Popped)
  BY <1>1, <1>2, PoppedFrom
<1>4. \A s \in States(dict) : Waiting(s)' <=> isChild(s) \/ (Waiting(s) /\ s # Popped)
  BY PlaceChildrenKeeps
<1>5. 0 \in States(dict) /\ Placed(0)
  BY <1>2, DictTyped DEF CellsInv, Placed, NoState
<1>6. \A s \in States(dict) : isChild(s) => ~Placed(s)
  BY <1>1 DEF ChildrenAreNew, Placed
<1>7. /\ \A s \in States(dict) : ~isChild(s) => new_id'[s] = new_id[s] /\ depth'[s] = depth[s]
      /\ \A s \in States(dict) : isChild(s) => depth'[s] = depth[Popped] + 1
  BY <1>1
<1> HIDE DEF isChild, edge, b, gotos
<1>8. \A s \in States(dict) : Placed(s) => Placed(s)' /\ depth'[s] = depth[s]
  BY <1>6, <1>7 DEF Placed
<1>9. \A s \in States(dict) : Placed(s)' => isChild(s) \/ Placed(s)
  BY <1>7 DEF Placed
<1>10. \A s \in States(dict) : Expanded(s)' <=> Expanded(s) \/ s = Popped
  <2> TAKE s \in States(dict)
  <2>1. Expanded(s)' <=> Placed(s)' /\ ~Waiting(s)'
    BY DEF Expanded
  <2>2. Expanded(s) <=> Placed(s) /\ ~Waiting(s)
    BY DEF Expanded
  <2> QED
    BY <1>3, <1>4, <1>6, <1>8, <1>9, <2>1, <2>2
<1>11. depth'[0] = 0
  BY <1>2, <1>5, <1>8 DEF GrowInv
<1>12. \A u \in States(dict) : Expanded(u)' => \A g \in Elements(dict.gotos[u]) : g.next # 0
  <2> SUFFICES ASSUME NEW u \in States(dict), Expanded(u)' PROVE \A g \in Elements(dict.gotos[u]) : g.next # 0
    OBVIOUS
  <2>1. CASE Expanded(u)
    BY <1>2, <2>1 DEF GrowInv
  <2>2. CASE u = Popped
    BY <1>5, <1>6, <2>2 DEF isChild, gotos
  <2> QED
    BY <1>10, <2>1, <2>2
<1>13. \A s \in States(dict) \ {0} : Placed(s)' =>
          \E u \in States(dict) :
              /\ Expanded(u)' /\ depth'[s] = depth'[u] + 1
              /\ \E g \in Elements(dict.gotos[u]) : g.next = s
  <2> SUFFICES ASSUME NEW s \in States(dict) \ {0}, Placed(s)'
               PROVE  \E u \in States(dict) :
                         /\ Expanded(u)' /\ depth'[s] = depth'[u] + 1
                         /\ \E g \in Elements(dict.gotos[u]) : g.next = s
    OBVIOUS
  <2>1. CASE isChild(s)
    <3>1. PICK u \in States(dict) : u = Popped
      BY <1>3
    <3>2. Placed(u) /\ Expanded(u)'
      BY <1>3, <1>10, <3>1
    <3>3. depth'[s] = depth'[u] + 1
      BY <1>7, <1>8, <2>1, <3>1, <3>2
    <3>4. \E g \in Elements(dict.gotos[u]) : g.next = s
      BY <2>1, <3>1 DEF isChild, gotos
    <3> QED
      BY <3>2, <3>3, <3>4
  <2>2. CASE Placed(s)
    <3>1. PICK u \in States(dict) : /\ Expanded(u) /\ depth[s] = depth[u] + 1
                                    /\ \E g \in Elements(dict.gotos[u]) : g.next = s
      BY <1>2, <2>2 DEF GrowInv
    <3>2. Placed(u)
      BY <3>1 DEF Expanded
    <3> QED
      BY <1>8, <1>10, <2>2, <3>1, <3>2
  <2> QED
    BY <1>9, <2>1, <2>2
<1> QED
  BY <1>1, <1>11, <1>12, <1>13 DEF GrowInv

LEMMA PlaceLeafGrows ==
    ASSUME IInv, GrowInv, PlaceLeaf
    PROVE  GrowInv'
<1>1. /\ dict' = dict /\ phase' = phase /\ phase = "place" /\ stack # <<>>
      /\ dict.gotos[Popped] = <<>> /\ stack' = Rest /\ new_id' = new_id /\ depth' = depth
  BY DEF PlaceLeaf
<1>2. Building /\ StackInv
  BY <1>1 DEF IInv, ReadInv, LayoutInv, Building
<1>3. /\ Popped \in States(dict) /\ Placed(Popped)
      /\ \A k \in DOMAIN Rest : Rest[k] # Popped
      /\ \A s : Waiting(s) <=> s = Popped \/ \E k \in DOMAIN Rest : Rest[k] = s
  BY <1>1, <1>2, PoppedFrom
<1>4. \A s \in States(dict) : Placed(s)' <=> Placed(s)
  BY <1>1 DEF Placed
<1>5. \A s \in States(dict) : Waiting(s)' <=> Waiting(s) /\ s # Popped
  BY <1>1, <1>3 DEF Waiting
<1>6. \A s \in States(dict) : Expanded(s)' <=> Expanded(s) \/ s = Popped
  BY <1>3, <1>4, <1>5 DEF Expanded
<1>7. Elements(dict.gotos[Popped]) = {}
  BY <1>1 DEF Elements
<1> QED
  BY <1>1, <1>2, <1>4, <1>6, <1>7 DEF GrowInv, Building

LEMMA ReadEntriesGrows ==
    ASSUME IInv, ReadEntries
    PROVE  GrowInv'
<1>1. /\ dict' = dict /\ dict.n > 0 /\ dict.n \in Nat
      /\ new_id' = [s \in States(dict) |-> IF s = 0 THEN 0 ELSE NoState]
      /\ depth' = [s \in States(dict) |-> 0] /\ stack' = <<0>>
  BY AutomatonAssumption DEF ReadEntries, IInv, ReadInv
<1>2. 0 \in States(dict)
  BY <1>1 DEF States
<1>3. \A s \in States(dict) : Placed(s)' <=> s = 0
  BY <1>1 DEF Placed, NoState
<1>4. \A s \in States(dict) : Waiting(s)' <=> s = 0
  BY <1>1 DEF Waiting
<1>5. \A s \in States(dict) : ~Expanded(s)'
  BY <1>3, <1>4 DEF Expanded
<1> QED
  BY <1>1, <1>2, <1>3, <1>5 DEF GrowInv

LEMMA ReadStateBounds ==
    ASSUME IInv, BoundInv, ReadState
    PROVE  BoundInv'
<1>1. /\ phase = "read" /\ at < dict.n /\ at' = at + 1 /\ dict' = dict /\ phase' = phase
      /\ out_bound' = Bound(out_bound, dict.outputs[at])
  BY DEF ReadState
<1>2. /\ dict.n \in Nat /\ at \in 0 .. dict.n /\ dict \in Dictionaries
  BY <1>1, AutomatonAssumption DEF IInv, ReadInv
<1>3. at \in 0 .. dict.n - 1 /\ at \in 0 .. at' - 1 /\ \A s \in 0 .. at' - 1 : s \in 0 .. at - 1 \/ s = at
  BY <1>1, <1>2
<1>4. \A s \in 0 .. at - 1 : s \in 0 .. at' - 1 /\ s \in 0 .. dict.n - 1
  BY <1>1, <1>2
<1>5. \A s \in 0 .. dict.n - 1 : \A k \in DOMAIN dict.outputs[s] : dict.outputs[s][k] \in Nat
  BY <1>2, AutomatonAssumption
<1>6. /\ out_bound \in Nat
      /\ \A s \in 0 .. at - 1 : \A k \in DOMAIN dict.outputs[s] : dict.outputs[s][k] < out_bound
      /\ out_bound = 0 \/ \E s \in 0 .. at - 1 : \E k \in DOMAIN dict.outputs[s] : out_bound = dict.outputs[s][k] + 1
  BY <1>1 DEF BoundInv
<1>7. dict.outputs[at] \in Seq(Nat)
  BY <1>2, <1>3, AutomatonAssumption
<1>8. /\ out_bound' \in Nat /\ out_bound <= out_bound'
      /\ \A k \in DOMAIN dict.outputs[at] : dict.outputs[at][k] < out_bound'
      /\ out_bound' = out_bound \/ \E k \in DOMAIN dict.outputs[at] : out_bound' = dict.outputs[at][k] + 1
  BY <1>1, <1>6, <1>7, BoundIs
<1>9. \A s \in 0 .. at' - 1 : \A k \in DOMAIN dict.outputs[s] : dict.outputs[s][k] < out_bound'
  <2> TAKE s \in 0 .. at' - 1
  <2> TAKE k \in DOMAIN dict.outputs[s]
  <2>1. CASE s = at
    BY <1>8, <2>1
  <2>2. CASE s \in 0 .. at - 1
    <3>1. dict.outputs[s][k] \in Nat /\ dict.outputs[s][k] < out_bound
      BY <1>4, <1>5, <1>6, <2>2
    <3> QED
      BY <1>6, <1>8, <3>1
  <2> QED
    BY <1>3, <2>1, <2>2
<1>10. out_bound' = 0 \/ \E s \in 0 .. at' - 1 : \E k \in DOMAIN dict.outputs[s] : out_bound' = dict.outputs[s][k] + 1
  BY <1>3, <1>4, <1>6, <1>8
<1> QED
  BY <1>1, <1>8, <1>9, <1>10 DEF BoundInv

\* The bound of all the outputs is one of each.
LEMMA EntriesBound ==
    ASSUME IInv, BoundInv, ReadEntries
    PROVE  EntriesInv'
<1>1. phase = "read" /\ dict.n > 0 /\ at = dict.n /\ out_bound <= Len(dict.lengths) /\ dict' = dict
  BY DEF ReadEntries
<1>2. ReadInv
  BY DEF IInv
<1>3. dict.lengths \in Seq(Nat) /\ \A s \in States(dict) : dict.outputs[s] \in Seq(Nat)
  BY <1>1, <1>2, DictTyped
<1>4. /\ out_bound \in Nat /\ Len(dict.lengths) \in Nat
      /\ \A s \in States(dict) : \A k \in DOMAIN dict.outputs[s] :
            dict.outputs[s][k] \in Nat /\ dict.outputs[s][k] < out_bound
  <2>1. \A s \in States(dict) : \A k \in DOMAIN dict.outputs[s] : dict.outputs[s][k] \in Nat
    BY <1>3
  <2>2. \A s \in States(dict) : \A k \in DOMAIN dict.outputs[s] : dict.outputs[s][k] < out_bound
    BY <1>1 DEF BoundInv, States
  <2> QED
    BY <1>1, <1>3, <2>1, <2>2 DEF BoundInv
<1>5. \A s \in States(dict) : \A k \in DOMAIN dict.outputs[s] : dict.outputs[s][k] < Len(dict.lengths)
  BY <1>1, <1>4
<1> QED
  BY <1>1, <1>5 DEF EntriesInv

LEMMA NextAcceptInv == IInv /\ AcceptInv /\ [Next]_vars => AcceptInv'
<1> SUFFICES ASSUME IInv, AcceptInv, [Next]_vars PROVE AcceptInv'
  OBVIOUS
<1>0. GrowInv /\ BoundInv /\ EntriesInv /\ (Built => PayloadsFit) /\ VerdictInv /\ ReadInv
  BY DEF AcceptInv, IInv
<1>1. CASE Truncated
  <2>1. dict' = dict /\ phase' = "rejected" /\ reason' = "truncated"
    BY <1>1 DEF Truncated, Reject
  <2> QED
    BY <2>1 DEF AcceptInv, GrowInv, BoundInv, EntriesInv, VerdictInv, Built, Building
<1>2. CASE RejectState \/ RejectEntries \/ RejectGraph \/ RejectLinks
  <2>1. dict' = dict /\ phase' = "rejected"
    BY <1>2 DEF RejectState, RejectEntries, RejectGraph, RejectLinks, Reject
  <2>2. dict.n > 0 => ~WellFormed(dict)
    BY <1>2, RefusedIsMalformed
  <2> QED
    BY <2>1, <2>2 DEF AcceptInv, GrowInv, BoundInv, EntriesInv, VerdictInv, Built, Building
<1>3. CASE ReadAbsent
  <2>1. dict' = dict /\ phase' = "ready" /\ dict.n = 0
    BY <1>3 DEF ReadAbsent
  <2> QED
    BY <2>1 DEF AcceptInv, GrowInv, BoundInv, EntriesInv, VerdictInv, Built, Building
<1>4. CASE ReadState
  <2>1. dict' = dict /\ phase' = "read" /\ reason' = reason
    BY <1>4 DEF ReadState
  <2>2. BoundInv'
    BY <1>0, <1>4, ReadStateBounds
  <2> QED
    BY <1>0, <2>1, <2>2 DEF AcceptInv, GrowInv, EntriesInv, VerdictInv, Built, Building
<1>5. CASE ReadEntries
  <2>1. dict' = dict /\ phase' = "place" /\ reason' = reason
    BY <1>5 DEF ReadEntries
  <2>2. GrowInv' /\ EntriesInv'
    BY <1>0, <1>5, ReadEntriesGrows, EntriesBound
  <2> QED
    BY <1>0, <2>1, <2>2 DEF AcceptInv, BoundInv, VerdictInv, Built
<1>6. CASE PlaceLeaf \/ PlaceChildren
  <2>1. dict' = dict /\ phase' = phase /\ phase = "place" /\ reason' = reason
    BY <1>6 DEF PlaceLeaf, PlaceChildren
  <2>2. GrowInv'
    BY <1>0, <1>6, PlaceLeafGrows, PlaceChildrenGrows
  <2> QED
    BY <1>0, <2>1, <2>2 DEF AcceptInv, BoundInv, EntriesInv, VerdictInv, Built, Building
<1>7. CASE Remap
  <2>1. /\ dict' = dict /\ phase' = "ready" /\ phase = "place" /\ reason' = reason /\ PayloadsFit
        /\ new_id' = new_id /\ depth' = depth /\ stack' = stack
    BY <1>7 DEF Remap, layout
  <2>2. GrowInv'
    BY <1>0, <2>1 DEF GrowInv, Building, Expanded, Placed, Waiting
  <2>3. PayloadsFit'
    BY <2>1 DEF PayloadsFit
  <2> QED
    BY <1>0, <2>1, <2>2, <2>3 DEF AcceptInv, BoundInv, EntriesInv, VerdictInv, Building
<1>8. CASE StartMatch \/ FollowFailure \/ Consume \/ EndMatch \/ UNCHANGED vars
  <2>1. /\ dict' = dict /\ reason' = reason /\ at' = at /\ out_bound' = out_bound
        /\ new_id' = new_id /\ depth' = depth /\ stack' = stack
        /\ phase' = phase \/ (phase = "ready" /\ phase' \in {"match", "done"}) \/ (phase = "match" /\ phase' = "done")
    BY <1>8 DEF StartMatch, FollowFailure, Consume, EndMatch, InText, vars, reading, layout
  <2>2. (Building' => Building) /\ (Built' => Built)
    BY <2>1 DEF Building, Built
  <2>3. GrowInv'
    BY <1>0, <2>1, <2>2 DEF GrowInv, Expanded, Placed, Waiting
  <2>4. BoundInv' /\ EntriesInv' /\ VerdictInv'
    BY <1>0, <2>1, <2>2 DEF BoundInv, EntriesInv, VerdictInv
  <2>5. Built' => PayloadsFit'
    BY <1>0, <2>1, <2>2 DEF PayloadsFit
  <2> QED
    BY <2>3, <2>4, <2>5 DEF AcceptInv
<1> QED
  BY <1>1, <1>2, <1>3, <1>4, <1>5, <1>6, <1>7, <1>8 DEF Next

(***************************************************************************)
(* The checks that build_canonical makes one by one, as it goes, add up:   *)
(* for every dictionary, what was built was a well formed trie with links  *)
(* and entries no longer than its strings, and what was refused as         *)
(* malformed was not.                                                      *)
(***************************************************************************)
THEOREM ChecksAreExact == Spec => []AcceptsTheWellFormed
<1>1. Init => IInv
  BY InitIInv
<1>2. Init => AcceptInv
  <2> SUFFICES ASSUME Init PROVE AcceptInv
    OBVIOUS
  <2>1. phase = "read" /\ reason = "none" /\ at = 0 /\ out_bound = 0
    BY DEF Init
  <2> QED
    BY <2>1 DEF AcceptInv, GrowInv, BoundInv, EntriesInv, VerdictInv, Built, Building
<1>3. IInv /\ [Next]_vars => IInv'
  BY NextIInv
<1>4. IInv /\ AcceptInv => AcceptsTheWellFormed
  <2> SUFFICES ASSUME IInv, AcceptInv, dict.n > 0
               PROVE  /\ phase \in {"ready", "match", "done"} => WellFormed(dict)
                      /\ reason = "malformed" => ~WellFormed(dict)
    BY DEF AcceptsTheWellFormed
  <2>1. phase \in {"ready", "match", "done"} => WellFormed(dict)
    BY BuiltIsWellFormed DEF Built
  <2>2. reason = "malformed" => ~WellFormed(dict)
    BY DEF AcceptInv, VerdictInv
  <2> QED
    BY <2>1, <2>2
<1> QED
  BY <1>1, <1>2, <1>3, <1>4, NextAcceptInv, PTL DEF Spec
=============================================================================
