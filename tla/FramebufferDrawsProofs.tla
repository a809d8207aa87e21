----------------------- MODULE FramebufferDrawsProofs -----------------------
(***************************************************************************)
(* The synchronous renderer with what is behind it, for every application: *)
(* it implements CommandStream, what is bound fits, a draw reads the       *)
(* constants and the streams it was given, and leaves of its pixel what    *)
(* the descriptor it was issued under says.                                *)
(***************************************************************************)
EXTENDS FramebufferDraws, WellFoundedInduction, TLAPS

(* A new block is well formed.                                             *)
LEMMA NewStateType == NewState \in States
  BY DefaultAssumption DEF NewState, States

(* A setter and a command call leave the application's block well formed.  *)
LEMMA SettersType ==
  ASSUME NEW s \in States, NEW v \in Values
  PROVE  /\ SetTo(s, v) \in States
         /\ SetTo(s, v).cmd = s.cmd
         /\ \A c \in Commands : /\ Called(s, c, v) \in States
                                /\ Called(s, c, v).cmd = c
  BY DEF SetTo, Called, States

LEMMA EffectType ==
  ASSUME NEW s \in States, s.cmd \in Commands
  PROVE  Effect(s) \in Effects
  <1>1. s \in [cmd : Commands, val : [Fields -> Values]]
    BY DEF States
  <1> QED
    BY <1>1 DEF Effects
-----------------------------------------------------------------------------
(* The constants of a shader: what it reads at a draw is what was last set *)
(* under each name, for every set of names, every hash function, every     *)
(* layout, and memory without a bound.                                     *)
(*                                                                         *)
(* The argument is about the table: the ranges of its entries lie inside   *)
(* the memory and never overlap, however constants shrink and move, so a   *)
(* call writes over the bytes of its own entry only.                       *)
Before(u, v) == u.offset + u.length <= v.offset

EntriesOK ==
  /\ memory_size \in Nat
  /\ \A h \in DOMAIN variables :
       /\ variables[h].offset \in Nat /\ variables[h].length \in Nat
       /\ variables[h].offset + variables[h].length <= memory_size
  /\ \A g, h \in DOMAIN variables :
       g # h => Before(variables[g], variables[h]) \/ Before(variables[h], variables[g])

(* The entry of a name holds the bytes that were given for it.             *)
Holds(n) ==
  /\ HashOf[n] \in DOMAIN variables
  /\ variables[HashOf[n]].length = given[n].length
  /\ \A i \in Cells(0, given[n].length) :
       data_memory[variables[HashOf[n]].offset + i] = given[n].byte[i]

GivenIsKept ==
  /\ given \in [Names -> Data \cup {NotGiven}]
  /\ \A n \in Names : Alone(n) /\ given[n] # NotGiven => Holds(n)

ShaderKnown == shader \in DOMAIN Layouts \cup {unset} /\ kind \in {"vertex", "pixel"}

ConstantsInv == EntriesOK /\ GivenIsKept /\ ShaderKnown /\ ConstantsExact

LEMMA InitConstantsInv == ConstantsInit => ConstantsInv
  <1> SUFFICES ASSUME ConstantsInit PROVE ConstantsInv
    OBVIOUS
  <1>1. DOMAIN variables = {}
    BY DEF ConstantsInit
  <1> QED
    BY <1>1 DEF ConstantsInit, ConstantsInv, EntriesOK, GivenIsKept, ShaderKnown, ConstantsExact
-----------------------------------------------------------------------------
(* Where set_variable puts the bytes: in the range its entry has, or       *)
(* behind all the others.                                                  *)
OffsetFor(h, length) == IF HasRoom(h, length) THEN variables[h].offset ELSE memory_size

LEMMA DataIsBytes ==
  ASSUME NEW data \in Data
  PROVE  data.length \in Nat
  BY ConstantsAssumption

LEMMA SetVariableEntries ==
  ASSUME EntriesOK, NEW n \in Names, NEW data \in Data, SetVariable(n, data)
  PROVE  LET h == HashOf[n]  offset == OffsetFor(h, data.length) IN
         /\ DOMAIN variables' = DOMAIN variables \cup {h}
         /\ \A g \in DOMAIN variables \ {h} : variables'[g] = variables[g]
         /\ variables'[h].offset = offset /\ variables'[h].length = data.length
         /\ offset \in Nat /\ memory_size' \in Nat
         /\ memory_size <= memory_size' /\ offset + data.length <= memory_size'
         /\ \A g \in DOMAIN variables \ {h} :
              \/ variables[g].offset + variables[g].length <= offset
              \/ offset + data.length <= variables[g].offset
         /\ data_memory' = [i \in Cells(0, memory_size') |->
                              IF i \in Cells(offset, data.length) THEN data.byte[i - offset]
                              ELSE data_memory[i]]
  <1> DEFINE h == HashOf[n]
             offset == OffsetFor(h, data.length)
             entry == [offset |-> offset, length |-> data.length]
  <1>1. data.length \in Nat
    BY DataIsBytes
  <1>2. /\ variables' = [g \in DOMAIN variables \cup {h} |-> IF g = h THEN entry ELSE variables[g]]
        /\ memory_size' = IF HasRoom(h, data.length) THEN memory_size ELSE memory_size + data.length
        /\ data_memory' = [i \in Cells(0, memory_size') |->
                             IF i \in Cells(offset, data.length) THEN data.byte[i - offset]
                             ELSE data_memory[i]]
    BY DEF SetVariable, OffsetFor
  <1>4. CASE HasRoom(h, data.length)
    <2>1. h \in DOMAIN variables /\ data.length <= variables[h].length /\ offset = variables[h].offset
      BY <1>1, <1>4 DEF HasRoom, OffsetFor, EntriesOK
    <2>2. \A g \in DOMAIN variables \ {h} :
            \/ variables[g].offset + variables[g].length <= offset
            \/ offset + data.length <= variables[g].offset
      BY <1>1, <2>1 DEF EntriesOK, Before
    <2>3. offset \in Nat /\ memory_size' = memory_size /\ offset + data.length <= memory_size
      BY <1>1, <1>2, <1>4, <2>1 DEF EntriesOK
    <2> HIDE DEF offset
    <2> QED
      BY <1>2, <2>2, <2>3 DEF EntriesOK, offset
  <1>5. CASE ~HasRoom(h, data.length)
    <2>1. offset = memory_size /\ memory_size' = memory_size + data.length
      BY <1>2, <1>5 DEF OffsetFor
    <2>2. offset \in Nat /\ memory_size' \in Nat /\ memory_size <= memory_size'
          /\ offset + data.length <= memory_size'
      BY <1>1, <2>1 DEF EntriesOK
    <2>3. \A g \in DOMAIN variables \ {h} : variables[g].offset + variables[g].length <= offset
      BY <2>1 DEF EntriesOK
    <2> HIDE DEF offset
    <2> QED
      BY <1>2, <2>2, <2>3 DEF offset
  <1> QED
    BY <1>4, <1>5

LEMMA SetVariableKeepsInv ==
  ASSUME ConstantsInv, NEW n \in Names, NEW data \in Data, SetVariable(n, data)
  PROVE  ConstantsInv'
  <1> DEFINE h == HashOf[n]
             offset == OffsetFor(h, data.length)
  <1>1. /\ DOMAIN variables' = DOMAIN variables \cup {h}
        /\ \A g \in DOMAIN variables \ {h} : variables'[g] = variables[g]
        /\ variables'[h].offset = offset /\ variables'[h].length = data.length
        /\ offset \in Nat /\ memory_size' \in Nat
        /\ memory_size <= memory_size' /\ offset + data.length <= memory_size'
        /\ \A g \in DOMAIN variables \ {h} :
             \/ variables[g].offset + variables[g].length <= offset
             \/ offset + data.length <= variables[g].offset
        /\ data_memory' = [i \in Cells(0, memory_size') |->
                             IF i \in Cells(offset, data.length) THEN data.byte[i - offset]
                             ELSE data_memory[i]]
    BY SetVariableEntries DEF ConstantsInv
  <1>2. data.length \in Nat
    BY DataIsBytes
  <1> HIDE DEF offset
  <1>3. EntriesOK'
    <2>1. ASSUME NEW g \in DOMAIN variables'
          PROVE  /\ variables'[g].offset \in Nat /\ variables'[g].length \in Nat
                 /\ variables'[g].offset + variables'[g].length <= memory_size'
      <3>1. CASE g = h
        BY <1>1, <1>2, <3>1
      <3>2. CASE g # h
        <4>1. g \in DOMAIN variables /\ variables'[g] = variables[g]
          BY <1>1, <2>1, <3>2
        <4> QED
          BY <1>1, <4>1 DEF ConstantsInv, EntriesOK
      <3> QED
        BY <3>1, <3>2
    <2>2. ASSUME NEW g \in DOMAIN variables', NEW k \in DOMAIN variables', g # k
          PROVE  Before(variables'[g], variables'[k]) \/ Before(variables'[k], variables'[g])
      <3>1. CASE g # h /\ k # h
        BY <1>1, <2>2, <3>1 DEF ConstantsInv, EntriesOK
      <3>2. CASE g = h
        BY <1>1, <2>2, <3>2 DEF Before
      <3>3. CASE k = h
        BY <1>1, <2>2, <3>3 DEF Before
      <3> QED
        BY <3>1, <3>2, <3>3
    <2> QED
      BY <1>1, <2>1, <2>2 DEF EntriesOK
  <1>4. given' = [given EXCEPT ![n] = data]
    BY DEF SetVariable
  <1>5. given' \in [Names -> Data \cup {NotGiven}]
    BY <1>4 DEF ConstantsInv, GivenIsKept
  <1>6. ASSUME NEW m \in Names, Alone(m), given'[m] # NotGiven PROVE Holds(m)'
    <2>1. CASE m = n
      <3>1. given'[m] = data /\ HashOf[m] = h
        BY <1>4, <2>1 DEF ConstantsInv, GivenIsKept
      <3>2. ASSUME NEW i \in Cells(0, data.length) PROVE data_memory'[offset + i] = data.byte[i]
        <4>1. /\ offset \in Nat /\ memory_size' \in Nat /\ offset + data.length <= memory_size'
              /\ i \in Nat /\ i < data.length
          BY <1>1, <1>2, <3>2 DEF Cells
        <4>2. /\ offset + i \in Cells(0, memory_size') /\ offset + i \in Cells(offset, data.length)
              /\ offset + i - offset = i
          <5> SUFFICES ASSUME NEW o \in Nat, NEW l \in Nat, NEW end \in Nat, o + l <= end, i \in Nat, i < l
                       PROVE  o + i \in 0 .. 0 + end - 1 /\ o + i \in o .. o + l - 1 /\ o + i - o = i
            BY <1>2, <4>1 DEF Cells
          <5> QED
            OBVIOUS
        <4>3. data_memory' = [k \in Cells(0, memory_size') |->
                                IF k \in Cells(offset, data.length) THEN data.byte[k - offset]
                                ELSE data_memory[k]]
          BY <1>1
        <4>4. ASSUME NEW spot \in Cells(0, memory_size'), spot \in Cells(offset, data.length), NEW k, spot - offset = k
              PROVE  data_memory'[spot] = data.byte[k]
          BY <4>3, <4>4
        <4>5. PICK spot : spot = offset + i
          OBVIOUS
        <4>6. spot \in Cells(0, memory_size') /\ spot \in Cells(offset, data.length) /\ spot - offset = i
          BY <4>1, <4>2, <4>5
        <4>7. data_memory'[spot] = data.byte[i]
          BY <4>4, <4>6
        <4> QED
          BY <4>5, <4>7
      <3> QED
        BY <1>1, <3>1, <3>2 DEF Holds
    <2>2. CASE m # n
      <3>1. given'[m] = given[m] /\ HashOf[m] # h
        BY <1>4, <1>6, <2>2 DEF ConstantsInv, GivenIsKept, Alone
      <3>2. Holds(m)
        BY <1>6, <3>1 DEF ConstantsInv, GivenIsKept
      <3>3. HashOf[m] \in DOMAIN variables \ {h} /\ variables'[HashOf[m]] = variables[HashOf[m]]
        BY <1>1, <3>1, <3>2 DEF Holds
      <3>4. PICK g \in DOMAIN variables \ {h} : g = HashOf[m]
        BY <3>3
      <3>5. /\ variables[g].offset \in Nat /\ variables[g].length \in Nat /\ memory_size \in Nat
            /\ variables[g].offset + variables[g].length <= memory_size
            /\ \/ variables[g].offset + variables[g].length <= offset
               \/ offset + data.length <= variables[g].offset
        BY <1>1 DEF ConstantsInv, EntriesOK
      <3>6. ASSUME NEW i \in Cells(0, given[m].length)
            PROVE  data_memory'[variables[g].offset + i] = given[m].byte[i]
        <4>1. i \in Nat /\ i < variables[g].length
          BY <3>2, <3>4, <3>5, <3>6 DEF Holds, Cells
        <4>2. /\ variables[g].offset + i \in Cells(0, memory_size')
              /\ variables[g].offset + i \notin Cells(offset, data.length)
          <5>1. /\ offset \in Nat /\ memory_size' \in Nat /\ memory_size <= memory_size'
            BY <1>1
          <5> SUFFICES ASSUME NEW o \in Nat, NEW l \in Nat, NEW end \in Nat, NEW last \in Nat,
                              NEW at \in Nat, NEW width \in Nat,
                              o + l <= end, end <= last, o + l <= at \/ at + width <= o, i \in Nat, i < l
                       PROVE  o + i \in 0 .. 0 + last - 1 /\ o + i \notin at .. at + width - 1
            BY <1>2, <3>5, <4>1, <5>1 DEF Cells
          <5> QED
            OBVIOUS
        <4>3. data_memory[variables[g].offset + i] = given[m].byte[i]
          BY <3>2, <3>4, <3>6 DEF Holds
        <4> QED
          BY <1>1, <4>2, <4>3
      <3> QED
        BY <1>1, <3>1, <3>2, <3>3, <3>4, <3>6 DEF Holds
    <2> QED
      BY <2>1, <2>2
  <1>7. GivenIsKept'
    BY <1>5, <1>6 DEF GivenIsKept, Alone
  <1> QED
    BY <1>3, <1>7 DEF SetVariable, ConstantsInv, ShaderKnown, ConstantsExact
-----------------------------------------------------------------------------
(* What a draw copies to the place of a constant n of the shader.          *)
LEMMA PlaceIsFilled ==
  ASSUME ConstantsInv, Apply, shader # unset,
         NEW n \in Declared(shader), Alone(n), given[n].length = PlaceOf(shader, n).size,
         NEW i \in Cells(0, given[n].length)
  PROVE  block'[PlaceOf(shader, n).offset + i] = given[n].byte[i]
  <1> DEFINE h == HashOf[n]
             cell == PlaceOf(shader, n).offset + i
  <1>1. /\ shader \in DOMAIN Layouts /\ n \in Names
        /\ PlaceOf(shader, n).offset \in Nat /\ PlaceOf(shader, n).size \in Nat \ {0}
        /\ PlaceCells(shader, n) \subseteq Cells(0, Layouts[shader].size)
        /\ \A m \in Declared(shader) \ {n} : PlaceCells(shader, n) \cap PlaceCells(shader, m) = {}
    BY ConstantsAssumption DEF ConstantsInv, ShaderKnown
  <1>2. i \in Nat /\ i < PlaceOf(shader, n).size /\ cell \in PlaceCells(shader, n)
    BY <1>1 DEF Cells, PlaceCells
  <1>3. given[n] # NotGiven
    BY <1>1 DEF NotGiven
  <1>4. Holds(n)
    BY <1>1, <1>3 DEF ConstantsInv, GivenIsKept
  <1>5. /\ h \in DOMAIN variables
        /\ variables[h].offset \in Nat /\ memory_size \in Nat
        /\ variables[h].length = PlaceOf(shader, n).size
        /\ variables[h].offset + variables[h].length <= memory_size
    BY <1>4 DEF Holds, ConstantsInv, EntriesOK
  <1>n. Named(shader, h) = {n} /\ NameFor(shader, h) = n
    <2>1. Declared(shader) \subseteq Names
      BY <1>1, ConstantsAssumption
    <2>2. Named(shader, h) = {n}
      BY <2>1 DEF Named, Alone
    <2> QED
      BY <2>2 DEF NameFor
  <1>6. ~UnitCrashes
    BY DEF Apply
  <1>7. CopiedTo(cell) = {h}
    <2>1. h \in CopiedTo(cell)
      BY <1>2, <1>5, <1>n DEF CopiedTo, Copies
    <2>2. ASSUME NEW g \in CopiedTo(cell) PROVE g = h
      <3>1. g \in DOMAIN variables /\ cell \in PlaceCells(shader, NameFor(shader, g))
        BY DEF CopiedTo
      <3>2. Named(shader, g) # {}
        BY <1>6, <3>1 DEF CopiedTo, Copies, UnitCrashes, ConstantsInv, ShaderKnown
      <3>3. NameFor(shader, g) \in Declared(shader) /\ HashOf[NameFor(shader, g)] = g
        BY <3>2 DEF Named, NameFor
      <3>4. NameFor(shader, g) = n
        BY <1>1, <1>2, <3>1, <3>3
      <3> QED
        BY <3>3, <3>4
    <2> QED
      BY <2>1, <2>2
  <1>8. cell \in Cells(0, Layouts[shader].size)
    BY <1>1, <1>2
  <1>9. PICK junk \in Bytes :
          block' = [k \in Cells(0, Layouts[shader].size) |->
                      IF CopiedTo(k) = {} THEN Resized(shader)[k]
                      ELSE LET g == CHOOSE e \in CopiedTo(k) : TRUE
                               from == variables[g].offset + k - PlaceOf(shader, NameFor(shader, g)).offset
                           IN IF from < memory_size THEN data_memory[from] ELSE junk]
    BY DEF Apply
  <1>10. (CHOOSE g \in CopiedTo(cell) : TRUE) = h
    BY <1>7
  <1>11. /\ variables[h].offset + cell - PlaceOf(shader, n).offset = variables[h].offset + i
         /\ variables[h].offset + i < memory_size
    BY <1>1, <1>2, <1>5
  <1>12. block'[cell] = data_memory[variables[h].offset + i]
    <2> HIDE DEF cell, h
    <2> QED
      BY <1>5, <1>7, <1>8, <1>9, <1>10, <1>11, <1>n
  <1> QED
    BY <1>4, <1>12 DEF Holds

LEMMA ApplyKeepsInv ==
  ASSUME ConstantsInv, Apply
  PROVE  ConstantsInv'
  <1>1. UNCHANGED <<variables, memory_size, data_memory, given, kind, shader>>
    BY DEF Apply, tableVars
  <1>2. EntriesOK' /\ GivenIsKept' /\ ShaderKnown'
    BY <1>1 DEF ConstantsInv, EntriesOK, Before, GivenIsKept, Holds, ShaderKnown
  <1>3. ConstantsExact'
    BY <1>1, PlaceIsFilled DEF ConstantsExact
  <1> QED
    BY <1>2, <1>3 DEF ConstantsInv

LEMMA NextConstantsInv == ConstantsInv /\ [ConstantsNext]_constantVars => ConstantsInv'
  <1> SUFFICES ASSUME ConstantsInv, [ConstantsNext]_constantVars PROVE ConstantsInv'
    OBVIOUS
  <1>1. ASSUME NEW sh \in DOMAIN Layouts, SetShader(sh) PROVE ConstantsInv'
    BY <1>1 DEF SetShader, tableVars, ConstantsInv, EntriesOK, Before, GivenIsKept, Holds, ShaderKnown,
                ConstantsExact
  <1>2. CASE UNCHANGED constantVars
    BY <1>2 DEF constantVars, tableVars, ConstantsInv, EntriesOK, Before, GivenIsKept, Holds, ShaderKnown,
                ConstantsExact
  <1> QED
    BY <1>1, <1>2, SetVariableKeepsInv, ApplyKeepsInv DEF ConstantsNext

(* A constant set with the length its shader declares is what the shader   *)
(* reads at a draw, whatever was set before, shrunk or moved.              *)
THEOREM ConstantsAreExact == ConstantsSpec => []ConstantsExact
  <1>1. ConstantsInv => ConstantsExact
    BY DEF ConstantsInv
  <1> QED
    BY <1>1, InitConstantsInv, NextConstantsInv, PTL DEF ConstantsSpec

(* The ranges of the table's entries never overlap.                        *)
THEOREM EntriesAreApart == ConstantsSpec => []EntriesOK
  <1>1. ConstantsInv => EntriesOK
    BY DEF ConstantsInv
  <1> QED
    BY <1>1, InitConstantsInv, NextConstantsInv, PTL DEF ConstantsSpec
-----------------------------------------------------------------------------

LEMMA SmallestIs ==
  ASSUME NEW S \in SUBSET Nat, S # {}
  PROVE  /\ Smallest(S) \in S
         /\ \A y \in S : Smallest(S) <= y
  <1> DEFINE R == OpToRel(<, Nat)
  <1>1. \A x, y \in Nat : <<y, x>> \in R <=> y < x
    BY DEF OpToRel
  <1>2. IsWellFoundedOn(R, Nat)
    BY NatLessThanWellFounded
  <1> HIDE DEF R
  <1>3. PICK m \in S : \A y \in S : ~(<<y, m>> \in R)
    BY <1>2, WFMin
  <1>4. ASSUME NEW y \in S PROVE m <= y
    <2>1. m \in Nat /\ y \in Nat /\ ~(<<y, m>> \in R)
      BY <1>3
    <2>2. ~(y < m)
      BY <1>1, <2>1
    <2> QED
      BY <2>1, <2>2
  <1> QED
    BY <1>4 DEF Smallest
-----------------------------------------------------------------------------
(* Where a draw would write, it fits, whatever set_render_targets is given *)
(* and whether it takes or refuses it.                                     *)
TargetLists == Seq(DOMAIN Surfaces \cup {null})
Targets == DOMAIN Surfaces \cup {null}

LEMMA ViewportFits ==
  ASSUME NEW colors \in TargetLists, NEW t \in Bound(colors), NEW ds
  PROVE  /\ ViewportOf(colors, ds).w \in Nat /\ ViewportOf(colors, ds).h \in Nat
         /\ t \in DOMAIN Surfaces
         /\ Surfaces[t].width >= ViewportOf(colors, ds).w
         /\ Surfaces[t].height >= ViewportOf(colors, ds).h
  <1> DEFINE W == {Surfaces[s].width : s \in Bound(colors)} \cup {FLOAT_MAX}
             H == {Surfaces[s].height : s \in Bound(colors)} \cup {FLOAT_MAX}
  <1>1. Bound(colors) \subseteq DOMAIN Surfaces /\ colors # <<>>
    BY DEF Bound, TargetLists
  <1>2. /\ W \subseteq Nat /\ H \subseteq Nat
        /\ Surfaces[t].width \in W /\ Surfaces[t].height \in H
    BY <1>1, TargetsAssumption
  <1>3. ViewportOf(colors, ds) = [w |-> Smallest(W), h |-> Smallest(H)]
    BY <1>1 DEF ViewportOf
  <1> HIDE DEF W, H
  <1>4. /\ Smallest(W) \in W /\ Smallest(W) <= Surfaces[t].width
        /\ Smallest(H) \in H /\ Smallest(H) <= Surfaces[t].height
    BY <1>2, SmallestIs
  <1>5. /\ Smallest(W) \in Nat /\ Smallest(H) \in Nat
        /\ Surfaces[t].width \in Nat /\ Surfaces[t].height \in Nat
    BY <1>2, <1>4
  <1> QED
    BY <1>1, <1>3, <1>4, <1>5

LEMMA SetTargetsFit ==
  ASSUME NEW colors \in TargetLists, NEW ds \in Targets, set_render_targets(colors, ds)
  PROVE  TargetsFit'
  <1>1. CASE TargetsRefused(colors, ds)
    <2>1. color_targets' = <<>> /\ depth_stencil_target' = null
      BY <1>1 DEF set_render_targets, NoTargets
    <2>2. Bound(color_targets') = {}
      BY <2>1 DEF Bound
    <2> QED
      BY <2>1, <2>2 DEF TargetsFit
  <1>2. CASE ~TargetsRefused(colors, ds)
    <2>1. /\ target_vp' = ViewportOf(colors, ds) /\ target_sample_count' = SamplesOf(colors, ds)
          /\ color_targets' = colors /\ depth_stencil_target' = ds
      BY <1>2 DEF set_render_targets, TargetsAssigned
    <2>2. ASSUME NEW t \in Bound(colors)
          PROVE  /\ Surfaces[t].width >= target_vp'.w /\ Surfaces[t].height >= target_vp'.h
                 /\ Surfaces[t].sample_count = target_sample_count'
      <3>1. Surfaces[t].sample_count = SamplesOf(colors, ds)
        <4>1. colors # <<>> /\ Bound(colors) # {}
          BY DEF Bound
        <4>2. (CHOOSE s \in Bound(colors) : TRUE) \in Bound(colors)
          BY <4>1
        <4> QED
          BY <1>2, <4>1, <4>2 DEF SamplesOf, TargetsRefused
      <3> QED
        BY <2>1, <3>1, ViewportFits
    <2>3. ASSUME ds # null
          PROVE  /\ Surfaces[ds].width >= target_vp'.w /\ Surfaces[ds].height >= target_vp'.h
                 /\ Surfaces[ds].sample_count = target_sample_count'
                 /\ Surfaces[ds].format = "rg32f"
      <3>1. ~DepthRefused(colors, ds) /\ ds \in DOMAIN Surfaces
        BY <1>2, <2>3 DEF TargetsRefused, Targets
      <3>2. /\ Surfaces[ds].width \in Nat /\ Surfaces[ds].height \in Nat
            /\ ~(Surfaces[ds].width < ViewportOf(colors, ds).w)
            /\ ~(Surfaces[ds].height < ViewportOf(colors, ds).h)
        BY <3>1, TargetsAssumption DEF DepthRefused
      <3>3. ViewportOf(colors, ds).w \in Nat /\ ViewportOf(colors, ds).h \in Nat
        <4>1. CASE colors = <<>>
          BY <3>2, <4>1 DEF ViewportOf
        <4>2. CASE Bound(colors) # {}
          BY <4>2, ViewportFits
        <4>3. CASE colors # <<>> /\ Bound(colors) = {}
          <5>1. {FLOAT_MAX} \in SUBSET Nat /\ {FLOAT_MAX} # {}
            BY TargetsAssumption
          <5>2. ViewportOf(colors, ds) = [w |-> Smallest({FLOAT_MAX}), h |-> Smallest({FLOAT_MAX})]
            BY <4>3 DEF ViewportOf
          <5> QED
            BY <5>1, <5>2, SmallestIs
        <4> QED
          BY <4>1, <4>2, <4>3
      <3> QED
        BY <2>1, <3>1, <3>2, <3>3 DEF DepthRefused
    <2> QED
      BY <2>1, <2>2, <2>3 DEF TargetsFit
  <1> QED
    BY <1>1, <1>2
-----------------------------------------------------------------------------
(* Each slot has the binding it was last given, unless the call that gave  *)
(* it was ignored; and after a draw each register of the vertex shader is  *)
(* tied to the element of its semantic.                                    *)
StreamsInv ==
  /\ \A s \in Slots : given_buffers[s].taken => buffer_descs[s] = given_buffers[s].binding
  /\ layout \in DOMAIN InputLayouts \cup {"none"} /\ cpp_vs \in DOMAIN RegisterMaps \cup {"none"}
  /\ assembled /\ cpp_vs # "none" =>
       /\ layout # "none"
       /\ register_to_input_element_desc = RegisterMap(InputLayouts[layout], RegisterMaps[cpp_vs])

LEMMA InitStreamsInv == StreamsInit => StreamsInv
  BY DEF StreamsInit, StreamsInv

LEMMA SetBuffersKeepsStreams ==
  ASSUME StreamsInv, NEW start, NEW bindings, set_vertex_buffers(start, bindings)
  PROVE  StreamsInv'
  <1>1. ASSUME NEW s \in Slots, given_buffers'[s].taken
        PROVE  buffer_descs'[s] = given_buffers'[s].binding
    BY <1>1 DEF set_vertex_buffers, BindingFor, StreamsInv
  <1> QED
    BY <1>1 DEF set_vertex_buffers, StreamsInv

LEMMA SettersKeepStreams ==
  ASSUME StreamsInv,
         \/ \E l \in DOMAIN InputLayouts : set_input_layout(l)
         \/ \E sh \in DOMAIN RegisterMaps : set_vertex_shader(sh)
         \/ Assemble
         \/ UNCHANGED assemblyVars
  PROVE  StreamsInv'
  BY DEF set_input_layout, set_vertex_shader, Assemble, assemblyVars, StreamsInv

(* find_desc returns an element of the semantic if there is one.           *)
LEMMA FindDescIs ==
  ASSUME NEW elements, elements \in Seq(Range(elements)), NEW semantic
  PROVE  LET found == find_desc(elements, semantic) IN
         IF \E i \in DOMAIN elements : elements[i].semantic = semantic
         THEN found \in DOMAIN elements /\ found # 0
         ELSE found = 0
  <1> DEFINE I == {i \in 1 .. Len(elements) : elements[i].semantic = semantic}
  <1>1. DOMAIN elements = 1 .. Len(elements) /\ Len(elements) \in Nat
    OBVIOUS
  <1>2. find_desc(elements, semantic) = IF I # {} THEN Min(I) ELSE 0
    BY DEF find_desc, SelectInSeq
  <1>3. I # {} => Min(I) \in I
    <2>1. Min(I) = Smallest(I)
      BY DEF Min, Smallest
    <2>2. I \in SUBSET Nat
      BY <1>1
    <2> HIDE DEF I
    <2> QED
      BY <2>1, <2>2, SmallestIs
  <1>4. I # {} <=> \E i \in DOMAIN elements : elements[i].semantic = semantic
    BY <1>1
  <1>5. \A i \in I : i \in DOMAIN elements /\ i # 0
    BY <1>1
  <1> HIDE DEF I
  <1> QED
    BY <1>2, <1>3, <1>4, <1>5

LEMMA StreamsExact == StreamsInv => FetchExact
  <1> SUFFICES ASSUME StreamsInv, assembled, cpp_vs # "none",
                      NEW semantic \in DOMAIN RegisterMaps[cpp_vs]
               PROVE  LET map == RegisterMaps[cpp_vs]
                          elements == InputLayouts[layout]
                          slot == elements[find_desc(elements, semantic)].input_slot
                      IN IF \A other \in DOMAIN map : \E i \in DOMAIN elements : elements[i].semantic = other
                         THEN given_buffers[slot].taken =>
                                FetchedFrom(map[semantic]) = {given_buffers[slot].binding}
                         ELSE FetchedFrom(map[semantic]) = {}
    BY DEF FetchExact
  <1> DEFINE map == RegisterMaps[cpp_vs]
             elements == InputLayouts[layout]
             Desc(other) == elements[find_desc(elements, other)]
             complete == \A other \in DOMAIN map : \E i \in DOMAIN elements : elements[i].semantic = other
  <1>1. /\ layout \in DOMAIN InputLayouts /\ cpp_vs \in DOMAIN RegisterMaps
        /\ register_to_input_element_desc = RegisterMap(elements, map)
    BY DEF StreamsInv
  <1>2. /\ elements \in Seq(Range(elements))
        /\ \A i \in DOMAIN elements : elements[i].input_slot \in Slots
        /\ \A a, b \in DOMAIN map : map[a] = map[b] => a = b
    BY <1>1, StreamAssumption DEF IsInjective
  <1>3. \A other : /\ (find_desc(elements, other) # 0 <=> \E i \in DOMAIN elements : elements[i].semantic = other)
                   /\ find_desc(elements, other) # 0 => find_desc(elements, other) \in DOMAIN elements
    BY <1>2, FindDescIs
  <1>4. CASE ~complete
    <2>1. register_to_input_element_desc = {}
      BY <1>1, <1>3, <1>4 DEF RegisterMap
    <2> QED
      BY <1>4, <2>1 DEF FetchedFrom
  <1>5. CASE complete
    <2>1. register_to_input_element_desc = {[register |-> map[other], desc |-> Desc(other)] : other \in DOMAIN map}
      BY <1>1, <1>3, <1>5 DEF RegisterMap
    <2>2. PICK pair : pair = [register |-> map[semantic], desc |-> Desc(semantic)]
      OBVIOUS
    <2>3. {q \in register_to_input_element_desc : q.register = map[semantic]} = {pair}
      <3>1. ASSUME NEW q \in register_to_input_element_desc, q.register = map[semantic] PROVE q = pair
        <4>1. PICK other \in DOMAIN map : q = [register |-> map[other], desc |-> Desc(other)]
          BY <2>1
        <4>2. other = semantic
          BY <1>2, <3>1, <4>1
        <4> QED
          BY <2>2, <4>1, <4>2
      <3>2. pair \in register_to_input_element_desc /\ pair.register = map[semantic]
        BY <2>1, <2>2
      <3> QED
        BY <3>1, <3>2
    <2>4. FetchedFrom(map[semantic]) = {buffer_descs[q.desc.input_slot] : q \in {pair}}
      BY <2>3 DEF FetchedFrom
    <2>5. FetchedFrom(map[semantic]) = {buffer_descs[Desc(semantic).input_slot]}
      BY <2>2, <2>4
    <2>6. Desc(semantic).input_slot \in Slots
      BY <1>2, <1>3, <1>5
    <2> QED
      BY <1>5, <2>5, <2>6 DEF StreamsInv
  <1> QED
    BY <1>4, <1>5
-----------------------------------------------------------------------------
FrameInv ==
  /\ application \in DOMAIN Programs
  /\ state \in States
  /\ partial = <<>> => executed = issued
  /\ TargetsFit /\ ConstantsInv /\ StreamsInv

LEMMA InitFrameInv == FrameInit => FrameInv
  <1> SUFFICES ASSUME FrameInit PROVE FrameInv
    OBVIOUS
  <1>1. TargetsFit
    <2>1. Bound(color_targets) = {} /\ depth_stencil_target = null
      BY DEF FrameInit, TargetsInit, Bound
    <2> QED
      BY <2>1 DEF TargetsFit
  <1>2. state \in States /\ executed = issued /\ application \in DOMAIN Programs
    BY NewStateType DEF FrameInit, Init
  <1> QED
    BY <1>1, <1>2, InitConstantsInv, InitStreamsInv DEF FrameInit, FrameInv

(* A draw takes the constants and the streams over, or touches neither.    *)
LEMMA CoreDrawKeeps ==
  ASSUME FrameInv, CoreDraw, UNCHANGED targetVars
  PROVE  TargetsFit' /\ ConstantsInv' /\ StreamsInv'
  <1>1. TargetsFit'
    BY DEF FrameInv, targetVars, TargetsFit, Bound
  <1>2. Apply \/ UNCHANGED constantVars
    BY DEF CoreDraw
  <1>3. Assemble \/ UNCHANGED assemblyVars
    BY DEF CoreDraw
  <1> QED
    BY <1>1, <1>2, <1>3, NextConstantsInv, SettersKeepStreams DEF FrameInv, ConstantsNext

LEMMA PipeUnchanged ==
  ASSUME FrameInv, UNCHANGED pipeVars
  PROVE  TargetsFit' /\ ConstantsInv' /\ StreamsInv'
  <1>1. TargetsFit'
    BY DEF FrameInv, pipeVars, targetVars, TargetsFit, Bound
  <1> QED
    BY <1>1, NextConstantsInv, SettersKeepStreams DEF FrameInv, pipeVars

LEMMA ProgramOK ==
  ASSUME application \in DOMAIN Programs
  PROVE  /\ program.pipelines \cup program.arguments \cup program.clears \cup program.others \subseteq Values
         /\ program.clears # {} => "clear_depth_stencil" \in Calls
         /\ \A t \in program.targets : t.colors \in TargetLists /\ t.ds \in Targets
         /\ program.constants \subseteq Names /\ program.shaders \subseteq DOMAIN Layouts
         /\ program.layouts \subseteq DOMAIN InputLayouts
         /\ program.vertex_shaders \subseteq DOMAIN RegisterMaps
  BY DrawsAssumption DEF program, TargetLists, Targets

(* A command's own block, and the effect it is asked for.                  *)
LEMMA CalledEffect ==
  ASSUME state \in States, NEW c \in Calls, NEW v \in Values, state' = Called(state, c, v)
  PROVE  state' \in States /\ Effect(state') \in Effects
  <1>1. c \in Commands
    BY SyncAssumption
  <1>2. state' \in States /\ state'.cmd = c
    BY <1>1, SettersType
  <1> QED
    BY <1>1, <1>2, EffectType

StreamStep == Stream!StreamNext \/ UNCHANGED Stream!streamVars

LEMMA CallIsIssueAndComplete ==
  ASSUME state \in States, executed = issued, NEW c \in Calls, NEW v \in Values, Call(c, v)
  PROVE  state' \in States /\ executed' = issued' /\ StreamStep
  <1>1. state' \in States /\ Effect(state') \in Effects
    BY CalledEffect DEF Call
  <1>2. Stream!IssueAndComplete(Effect(state')) /\ executed' = issued'
    BY DEF Call, Stream!IssueAndComplete
  <1> QED
    BY <1>1, <1>2 DEF StreamStep, Stream!StreamNext

LEMMA SettersStep ==
  ASSUME FrameInv, partial = <<>>, Setters
  PROVE  FrameInv' /\ StreamStep
  <1> USE DEF FrameInv, StreamStep, Stream!streamVars
  <1>1. ASSUME NEW v \in program.pipelines, SetPipeline(v) PROVE FrameInv' /\ StreamStep
    <2>1. state' \in States
      BY <1>1, ProgramOK, SettersType DEF SetPipeline, Set
    <2> QED
      BY <1>1, <2>1, PipeUnchanged DEF SetPipeline, Set, fbVars
  <1>2. ASSUME NEW a, LetGo(a) PROVE FrameInv' /\ StreamStep
    BY <1>2, PipeUnchanged DEF LetGo, vars, fbVars
  <1>3. ASSUME NEW t \in program.targets, set_render_targets(t.colors, t.ds), UNCHANGED <<constantVars, assemblyVars>>
        PROVE  TargetsFit' /\ ConstantsInv' /\ StreamsInv'
    BY <1>3, ProgramOK, SetTargetsFit, NextConstantsInv, SettersKeepStreams
  <1>4. ASSUME UNCHANGED <<targetVars, assemblyVars>>,
               \/ \E n \in program.constants, data \in Data : SetVariable(n, data)
               \/ \E sh \in program.shaders : SetShader(sh)
        PROVE  TargetsFit' /\ ConstantsInv' /\ StreamsInv'
    <2>1. TargetsFit'
      BY <1>4 DEF targetVars, TargetsFit, Bound
    <2>2. ConstantsNext
      BY <1>4, ProgramOK DEF ConstantsNext
    <2> QED
      BY <1>4, <2>1, <2>2, NextConstantsInv, SettersKeepStreams
  <1>5. ASSUME UNCHANGED <<targetVars, constantVars>>,
               \/ \E b \in program.buffers : set_vertex_buffers(b.starts_slot, b.bindings)
               \/ \E l \in program.layouts : set_input_layout(l)
               \/ \E sh \in program.vertex_shaders : set_vertex_shader(sh)
        PROVE  TargetsFit' /\ ConstantsInv' /\ StreamsInv'
    <2>1. TargetsFit'
      BY <1>5 DEF targetVars, TargetsFit, Bound
    <2>2. StreamsInv'
      BY <1>5, ProgramOK, SetBuffersKeepsStreams, SettersKeepStreams
    <2> QED
      BY <1>5, <2>1, <2>2, NextConstantsInv
  <1>6. CASE UNCHANGED <<vars, fbVars, objectVars>> /\ TargetsFit' /\ ConstantsInv' /\ StreamsInv'
    BY <1>6 DEF vars, fbVars, objectVars
  <1> QED
    BY <1>1, <1>2, <1>3, <1>4, <1>5, <1>6 DEF Setters

LEMMA CommandedStep ==
  ASSUME FrameInv, partial = <<>>, Commanded
  PROVE  FrameInv' /\ StreamStep
  <1> USE DEF FrameInv
  <1>1. ASSUME NEW c \in Calls, NEW v \in Values, DrawCall(c, v) PROVE FrameInv' /\ StreamStep
    <2>1. state' \in States /\ executed' = issued' /\ StreamStep
      BY <1>1, CallIsIssueAndComplete DEF DrawCall
    <2> QED
      BY <1>1, <2>1, CoreDrawKeeps DEF DrawCall
  <1>2. ASSUME NEW c \in Calls, NEW v \in Values, DrawCallEntered(c, v) PROVE FrameInv' /\ StreamStep
    <2>1. state' \in States /\ Effect(state') \in Effects
      BY <1>2, CalledEffect DEF DrawCallEntered
    <2>2. Stream!Issue(Effect(state'))
      BY <1>2 DEF DrawCallEntered, Stream!Issue
    <2> QED
      BY <1>2, <2>1, <2>2, CoreDrawKeeps DEF DrawCallEntered, StreamStep, Stream!StreamNext
  <1>3. ASSUME NEW c \in Calls, NEW v \in Values, Call(c, v), UNCHANGED <<pipeVars, application, partial>>
        PROVE  FrameInv' /\ StreamStep
    <2>1. state' \in States /\ executed' = issued' /\ StreamStep
      BY <1>3, CallIsIssueAndComplete
    <2> QED
      BY <1>3, <2>1, PipeUnchanged
  <1>4. ASSUME NEW v \in Values, ClearCall(v), "clear_depth_stencil" \in Calls PROVE FrameInv' /\ StreamStep
    BY <1>3, <1>4 DEF ClearCall, FbClear, objectVars
  <1>5. ASSUME NEW c \in Calls, NEW v \in Values, OtherCall(c, v) PROVE FrameInv' /\ StreamStep
    BY <1>3, <1>5 DEF OtherCall, fbVars, objectVars
  <1> QED
    BY <1>1, <1>2, <1>4, <1>5, ProgramOK DEF Commanded

LEMMA NextFrameInv == FrameInv /\ [FrameNext]_frameVars => FrameInv' /\ StreamStep
  <1> SUFFICES ASSUME FrameInv, [FrameNext]_frameVars PROVE FrameInv' /\ StreamStep
    OBVIOUS
  <1>1. CASE partial = <<>> /\ Flush /\ UNCHANGED <<fbVars, pipeVars, objectVars>>
    <2>1. Stream!Flushed
      BY <1>1 DEF Flush, Stream!Flushed, FrameInv
    <2> QED
      BY <1>1, <2>1, PipeUnchanged DEF Flush, FrameInv, fbVars, objectVars, StreamStep, Stream!StreamNext
  <1>2. CASE Turn
    BY <1>2, PipeUnchanged DEF Turn, EarlyZTurn, vars, objectVars, FrameInv, StreamStep, Stream!streamVars
  <1>3. CASE UNCHANGED frameVars
    BY <1>3, PipeUnchanged DEF frameVars, vars, fbVars, objectVars, FrameInv, StreamStep, Stream!streamVars
  <1> QED
    BY <1>1, <1>2, <1>3, SettersStep, CommandedStep DEF FrameNext, Application

(* Whatever an application sets, clears and draws, its commands take       *)
(* effect in their order, each with the state it was issued under.         *)
THEOREM FrameImplementsStream == FrameSpec => ImplementsStream
  <1>1. FrameInit => Stream!StreamInit
    BY DEF FrameInit, Init, Stream!StreamInit
  <1>2. FrameInv /\ [FrameNext]_frameVars => [Stream!StreamNext]_(Stream!streamVars)
    BY NextFrameInv DEF StreamStep
  <1> QED
    BY <1>1, <1>2, InitFrameInv, NextFrameInv, PTL DEF FrameSpec, ImplementsStream, Stream!StreamSpec

(* Every surface a draw would write is large enough and has the samples    *)
(* that it writes.                                                         *)
THEOREM BoundTargetsFit == FrameSpec => []TargetsFit
  <1>1. FrameInv => TargetsFit
    BY DEF FrameInv
  <1> QED
    BY <1>1, InitFrameInv, NextFrameInv, PTL DEF FrameSpec

(* A compiled shader reads the constants it was given, in any application. *)
THEOREM DrawnConstantsExact == FrameSpec => []ConstantsExact
  <1>1. FrameInv => ConstantsExact
    BY DEF FrameInv, ConstantsInv
  <1> QED
    BY <1>1, InitFrameInv, NextFrameInv, PTL DEF FrameSpec

(* A C++ vertex shader reads the buffers that were bound for it.           *)
THEOREM FetchedExact == FrameSpec => []FetchExact
  <1>1. FrameInv => FetchExact
    BY StreamsExact DEF FrameInv
  <1> QED
    BY <1>1, InitFrameInv, NextFrameInv, PTL DEF FrameSpec
-----------------------------------------------------------------------------
(* What a draw leaves of its pixel.  A fold over fragments is a function   *)
(* on the sets of their indices, and such functions are compared by the    *)
(* least index at which they could differ.                                 *)
LEMMA LeastNatural ==
  ASSUME NEW S \in SUBSET Nat, S # {}
  PROVE  \E m \in S : \A y \in S : m <= y
  <1> DEFINE R == OpToRel(<, Nat)
  <1>1. \A x, y \in Nat : <<y, x>> \in R <=> y < x
    BY DEF OpToRel
  <1>2. IsWellFoundedOn(R, Nat)
    BY NatLessThanWellFounded
  <1> HIDE DEF R
  <1>3. PICK m \in S : \A y \in S : ~(<<y, m>> \in R)
    BY <1>2, WFMin
  <1>4. ASSUME NEW y \in S PROVE m <= y
    <2>1. m \in Nat /\ y \in Nat /\ ~(<<y, m>> \in R)
      BY <1>3
    <2>2. ~(y < m)
      BY <1>1, <2>1
    <2> QED
      BY <2>1, <2>2
  <1> QED
    BY <1>4

LEMMA AllNaturals ==
  ASSUME NEW T \in SUBSET Nat, 0 \in T, \A n \in T : n + 1 \in T
  PROVE  T = Nat
  <1> SUFFICES ASSUME Nat \ T # {} PROVE FALSE
    OBVIOUS
  <1>1. PICK m \in Nat \ T : \A y \in Nat \ T : m <= y
    BY LeastNatural
  <1>2. m - 1 \in Nat /\ ~(m <= m - 1) /\ m = (m - 1) + 1
    BY <1>1
  <1>3. m - 1 \in T
    BY <1>1, <1>2
  <1> QED
    BY <1>1, <1>2, <1>3

(* A fold over 1 .. N exists: g gives what it makes of each part.          *)
IsFold(g, N, base, F) ==
  g = [S \in SUBSET (1 .. N) |-> IF S = {} THEN base ELSE F[g[S \ {Max(S)}], Max(S)]]

LEMMA MaxOfNew ==
  ASSUME NEW n \in Nat, NEW S \in SUBSET (1 .. n + 1), n + 1 \in S
  PROVE  Max(S) = n + 1
  <1>1. n + 1 \in S /\ \A y \in S : n + 1 >= y
    OBVIOUS
  <1>2. Max(S) \in S /\ \A y \in S : Max(S) >= y
    BY <1>1 DEF Max
  <1>3. \A y \in S : y \in Int
    OBVIOUS
  <1>4. \A x \in Int : x >= n + 1 /\ n + 1 >= x => x = n + 1
    OBVIOUS
  <1> QED
    BY ONLY <1>1, <1>2, <1>3, <1>4, Zenon

LEMMA FoldExists ==
  ASSUME NEW A, NEW base \in A, NEW N \in Nat, NEW F \in [A \X (1 .. N) -> A]
  PROVE  \E g \in [SUBSET (1 .. N) -> A] : IsFold(g, N, base, F)
  <1> DEFINE P(n) == \E g \in [SUBSET (1 .. n) -> A] : IsFold(g, n, base, F)
             T == {n \in Nat : n <= N => P(n)}
  <1>1. P(0)
    <2> DEFINE g == [S \in SUBSET (1 .. 0) |-> base]
    <2>1. \A S \in SUBSET (1 .. 0) : S = {}
      OBVIOUS
    <2>2. g = [S \in SUBSET (1 .. 0) |-> IF S = {} THEN base ELSE F[g[S \ {Max(S)}], Max(S)]]
      BY <2>1
    <2> QED
      BY <2>2 DEF IsFold
  <1>2. ASSUME NEW n \in Nat, n + 1 <= N, P(n) PROVE P(n + 1)
    <2>1. PICK f \in [SUBSET (1 .. n) -> A] : IsFold(f, n, base, F)
      BY <1>2
    <2> DEFINE g == [S \in SUBSET (1 .. n + 1) |->
                       IF n + 1 \in S THEN F[f[S \ {n + 1}], n + 1] ELSE f[S]]
    <2>2. \A S \in SUBSET (1 .. n + 1) : S \ {n + 1} \in SUBSET (1 .. n)
      OBVIOUS
    <2>3. \A S \in SUBSET (1 .. n + 1) : n + 1 \notin S => S \in SUBSET (1 .. n)
      OBVIOUS
    <2>4. n + 1 \in 1 .. N
      BY <1>2
    <2>5. g \in [SUBSET (1 .. n + 1) -> A]
      BY <2>2, <2>3, <2>4
    <2>6. ASSUME NEW S \in SUBSET (1 .. n + 1)
          PROVE  g[S] = IF S = {} THEN base ELSE F[g[S \ {Max(S)}], Max(S)]
      <3>1. CASE n + 1 \in S
        <4>1. Max(S) = n + 1
          BY <3>1, MaxOfNew
        <4>2. S \ {n + 1} \in SUBSET (1 .. n + 1) /\ n + 1 \notin S \ {n + 1}
          OBVIOUS
        <4>3. g[S \ {n + 1}] = f[S \ {n + 1}]
          BY <4>2
        <4>4. g[S] = F[f[S \ {n + 1}], n + 1]
          BY <3>1
        <4> QED
          BY ONLY <3>1, <4>1, <4>3, <4>4
      <3>2. CASE n + 1 \notin S
        <4>1. S \in SUBSET (1 .. n)
          BY <2>3, <3>2
        <4>2. g[S] = f[S]
          BY <3>2
        <4>3. f[S] = IF S = {} THEN base ELSE F[f[S \ {Max(S)}], Max(S)]
          BY <2>1, <4>1 DEF IsFold
        <4>4. S \ {Max(S)} \in SUBSET (1 .. n + 1) /\ n + 1 \notin S \ {Max(S)}
          BY <3>2
        <4>5. g[S \ {Max(S)}] = f[S \ {Max(S)}]
          BY <4>4
        <4> QED
          BY ONLY <4>2, <4>3, <4>5
      <3> QED
        BY <3>1, <3>2
    <2>7. IsFold(g, n + 1, base, F)
      BY <2>6 DEF IsFold
    <2> QED
      BY <2>5, <2>7
  <1> HIDE DEF P
  <1>3. \A n \in T : n + 1 \in T
    BY <1>2
  <1>4. N \in T
    <2> HIDE DEF T
    <2>1. T \in SUBSET Nat /\ 0 \in T
      BY <1>1 DEF T
    <2> QED
      BY <1>3, <2>1, AllNaturals
  <1>5. P(N)
    BY <1>4
  <1> QED
    BY <1>5 DEF P

(* What agrees with a fold from step to step is the fold.                  *)
LEMMA FoldsAgree ==
  ASSUME NEW N \in Nat, NEW g, NEW h, h[{}] = g[{}],
         \A S \in SUBSET (1 .. N) :
           S # {} /\ h[S \ {Max(S)}] = g[S \ {Max(S)}] => h[S] = g[S]
  PROVE  h[1 .. N] = g[1 .. N]
  <1> DEFINE T == {n \in Nat : n <= N => \A S \in SUBSET (1 .. n) : h[S] = g[S]}
  <1>1. 0 \in T
    <2>1. \A S \in SUBSET (1 .. 0) : S = {}
      OBVIOUS
    <2> QED
      BY <2>1
  <1>2. ASSUME NEW n \in T PROVE n + 1 \in T
    <2> SUFFICES ASSUME n + 1 <= N, NEW S \in SUBSET (1 .. n + 1) PROVE h[S] = g[S]
      OBVIOUS
    <2>1. \A R \in SUBSET (1 .. n) : h[R] = g[R]
      OBVIOUS
    <2>2. CASE n + 1 \in S
      <3>1. Max(S) = n + 1
        BY <2>2, MaxOfNew
      <3>2. S \ {Max(S)} \in SUBSET (1 .. n) /\ S \in SUBSET (1 .. N)
        BY <3>1
      <3> QED
        BY <2>1, <2>2, <3>2
    <2>3. CASE n + 1 \notin S
      <3>1. S \in SUBSET (1 .. n)
        BY <2>3
      <3> QED
        BY <2>1, <3>1
    <2> QED
      BY <2>2, <2>3
  <1>3. N \in T
    <2> HIDE DEF T
    <2>1. T \in SUBSET Nat
      BY DEF T
    <2> QED
      BY <1>1, <1>2, <2>1, AllNaturals
  <1>4. 1 .. N \in SUBSET (1 .. N)
    OBVIOUS
  <1> QED
    BY <1>3, <1>4

(* A masked stencil is a byte, and one masked whole is itself.             *)
LEMMA MaskedIsByte ==
  ASSUME NEW x \in Int
  PROVE  /\ \A mask \in LowBitMasks : Masked(x, mask) \in 0 .. 255
         /\ x \in 0 .. 255 => Masked(x, 255) = x
  <1>1. /\ x % 1 \in 0 .. 0 /\ x % 2 \in 0 .. 1 /\ x % 4 \in 0 .. 3 /\ x % 8 \in 0 .. 7 /\ x % 16 \in 0 .. 15
        /\ x % 32 \in 0 .. 31 /\ x % 64 \in 0 .. 63 /\ x % 128 \in 0 .. 127 /\ x % 256 \in 0 .. 255
    OBVIOUS
  <1>2. x \in 0 .. 255 => x % 256 = x
    OBVIOUS
  <1> QED
    BY <1>1, <1>2 DEF Masked, LowBitMasks

LEMMA MinIs ==
  ASSUME NEW x \in Int
  PROVE  Min({255, x}) = IF x < 255 THEN x ELSE 255
  <1> DEFINE m == IF x < 255 THEN x ELSE 255
  <1>1. m \in {255, x} /\ \A y \in {255, x} : m <= y
    OBVIOUS
  <1>2. Min({255, x}) \in {255, x} /\ \A y \in {255, x} : Min({255, x}) <= y
    BY <1>1 DEF Min
  <1> QED
    BY <1>2

LEMMA OperateIsInt ==
  ASSUME NEW op \in StencilOps, NEW ref \in Int, NEW cur \in 0 .. 255
  PROVE  Operate(op, ref, cur) \in Int
  <1>1. Min({255, cur + 1}) \in Int
    BY MinIs
  <1> QED
    BY <1>1 DEF Operate, StencilOps

(* The operations but one do to a byte what is meant, once it is masked.   *)
LEMMA OperateIsMeant ==
  ASSUME NEW op \in StencilOps \ {"decr_sat"}, NEW ref \in 0 .. 255, NEW cur \in 0 .. 255
  PROVE  Masked(Operate(op, ref, cur), 255) = Meant(op, ref, cur)
  <1>1. Min({255, cur + 1}) = IF cur + 1 < 255 THEN cur + 1 ELSE 255
    BY MinIs
  <1>2. /\ cur % 256 = cur /\ ref % 256 = ref /\ 0 % 256 = 0
        /\ (-1 - cur) % 256 = 255 - cur
        /\ ((cur + 1) % 256) % 256 = IF cur = 255 THEN 0 ELSE cur + 1
        /\ ((cur - 1 + 256) % 256) % 256 = IF cur = 0 THEN 255 ELSE cur - 1
        /\ (IF cur + 1 < 255 THEN cur + 1 ELSE 255) % 256 = IF cur = 255 THEN 255 ELSE cur + 1
    OBVIOUS
  <1>3. CASE op \in {"keep", "zero", "replace"}
    BY <1>2, <1>3 DEF Operate, Meant, Masked
  <1>4. CASE op = "incr_sat"
    BY <1>1, <1>2, <1>4 DEF Operate, Meant, Masked
  <1>5. CASE op = "invert"
    BY <1>2, <1>5 DEF Operate, Meant, Masked
  <1>6. CASE op \in {"incr_wrap", "decr_wrap"}
    BY <1>2, <1>6 DEF Operate, Meant, Masked
  <1> QED
    BY <1>3, <1>4, <1>5, <1>6 DEF StencilOps

(* The one operation the code can pick of a state's six.                   *)
LEMMA PickedOperation ==
  ASSUME NEW desc \in DepthStencilDescs, NEW f \in FragmentTypes, NEW ref, NEW cur, desc.stencil_enable
  PROVE  /\ Face(desc, f.front_face) \in FaceDescs
         /\ stencil_operation(desc, f.front_face, TRUE, TRUE, ref, cur)
              = Operate(Face(desc, f.front_face).stencil_pass_op, ref, cur)
  <1>1. desc.front_face \in FaceDescs /\ desc.back_face \in FaceDescs
    BY DEF DepthStencilDescs
  <1>3. CASE f.front_face = TRUE
    <2>2. 1 + One(~f.front_face) * 3 + One(~TRUE) + One(TRUE) = 2
      BY <1>3 DEF One
    <2>3. Operations(desc)[2] = desc.front_face.stencil_pass_op
      BY DEF Operations
    <2> QED
      BY <1>1, <1>3, <2>2, <2>3 DEF stencil_operation, Face
  <1>4. CASE f.front_face = FALSE
    <2>2. 1 + One(~f.front_face) * 3 + One(~TRUE) + One(TRUE) = 5
      BY <1>4 DEF One
    <2>3. Operations(desc)[5] = desc.back_face.stencil_pass_op
      BY DEF Operations
    <2> QED
      BY <1>1, <1>4, <2>2, <2>3 DEF stencil_operation, Face
  <1>5. f.front_face \in BOOLEAN
    BY DEF FragmentTypes
  <1> QED
    BY <1>3, <1>4, <1>5

(* The stencil a sample is left with is a byte.                            *)
LEMMA TestedType ==
  ASSUME NEW p, p.desc \in DepthStencilDescs, p.stencil_ref \in Int,
         NEW f \in FragmentTypes, NEW s \in Samples, NEW acc, NEW early,
         NEW sample \in SampleTypes, NEW paint \in Nat
  PROVE  Tested(p, f, s, acc, early, sample, paint) \in SampleTypes
  <1>1. PICK desc \in DepthStencilDescs : desc = p.desc
    OBVIOUS
  <1>2. PICK ref : ref = IF desc.stencil_enable THEN Masked(p.stencil_ref, desc.stencil_read_mask) ELSE 0
    OBVIOUS
  <1>3. PICK old : old = IF "read_stencil" \in acc THEN Masked(sample.stencil, desc.stencil_read_mask) ELSE 0
    OBVIOUS
  <1>4. PICK new : new = stencil_operation(desc, f.front_face, TRUE, TRUE, ref, old)
    OBVIOUS
  <1>5. PICK stencil : stencil = IF early THEN 0 ELSE Masked(new, desc.stencil_write_mask)
    OBVIOUS
  <1>6. desc.stencil_read_mask \in LowBitMasks /\ desc.stencil_write_mask \in LowBitMasks
    BY DEF DepthStencilDescs
  <1>7. sample.stencil \in Int /\ sample.depth \in Int /\ sample.paint \in Nat
    BY DEF SampleTypes
  <1>8. ref \in Int
    <2>1. Masked(p.stencil_ref, desc.stencil_read_mask) \in 0 .. 255
      BY <1>6, MaskedIsByte
    <2> QED
      BY <1>2, <2>1
  <1>9. old \in 0 .. 255
    <2>1. Masked(sample.stencil, desc.stencil_read_mask) \in 0 .. 255
      BY <1>6, <1>7, MaskedIsByte
    <2> QED
      BY <1>3, <2>1
  <1>10. new \in Int
    <2>1. CASE desc.stencil_enable
      <3>2. PICK op \in StencilOps : op = Face(desc, f.front_face).stencil_pass_op
        BY <2>1, PickedOperation DEF FaceDescs
      <3>3. new = Operate(op, ref, old)
        BY <1>4, <2>1, <3>2, PickedOperation
      <3>4. Operate(op, ref, old) \in Int
        BY <1>8, <1>9, OperateIsInt
      <3> QED
        BY <3>3, <3>4
    <2>2. CASE ~desc.stencil_enable
      BY <1>4, <1>9, <2>2 DEF stencil_operation
    <2> QED
      BY <2>1, <2>2
  <1>11. stencil \in 0 .. 255
    <2>1. Masked(new, desc.stencil_write_mask) \in 0 .. 255
      BY <1>6, <1>10, MaskedIsByte
    <2> QED
      BY <1>5, <2>1
  <1>12. DepthAt(f, s) \in Int
    BY FramebufferAssumption DEF DepthAt, FragmentTypes
  <1>13. [Written(f, s, acc, sample, stencil) EXCEPT !.paint = paint] \in SampleTypes
    <2>1. sample \in [depth : Int, stencil : 0 .. 255, paint : Nat]
      BY DEF SampleTypes
    <2> QED
      BY <1>11, <1>12, <2>1 DEF Written, SampleTypes
  <1>14. \/ Tested(p, f, s, acc, early, sample, paint) = sample
         \/ Tested(p, f, s, acc, early, sample, paint) = [Written(f, s, acc, sample, stencil) EXCEPT !.paint = paint]
    BY <1>1, <1>2, <1>3, <1>4, <1>5 DEF Tested
  <1> QED
    BY <1>13, <1>14

(* What the framebuffer has worked out for a plain descriptor makes it do  *)
(* what the descriptor says.                                               *)
LEMMA TestedIsMeant ==
  ASSUME NEW p, p.desc \in DepthStencilDescs, p.stencil_ref \in Int, Plain(p.desc),
         NEW f \in FragmentTypes, NEW s \in Samples,
         NEW early \in BOOLEAN, early => ~p.desc.stencil_enable,
         NEW sample \in SampleTypes, NEW paint \in Nat
  PROVE  Tested(p, f, s, AccessFor(p.desc), early, sample, paint) = Standard(p, f, s, sample, paint)
  <1>1. PICK desc \in DepthStencilDescs : desc = p.desc
    OBVIOUS
  <1>2. PICK acc : acc = AccessFor(desc)
    OBVIOUS
  <1>3. PICK face : face = Face(desc, f.front_face)
    OBVIOUS
  <1>4. PICK op : op = face.stencil_pass_op
    OBVIOUS
  <1>5. /\ desc.stencil_read_mask = 255 /\ desc.stencil_write_mask = 255
        /\ f.front_face \in BOOLEAN
        /\ face.stencil_fail_op = "keep" /\ face.stencil_depth_fail_op = "keep"
        /\ op \in StencilOps \ {"decr_sat"}
    <2>1. /\ face \in FaceDescs /\ face \in {desc.front_face, desc.back_face}
          /\ f.front_face \in BOOLEAN
      BY <1>3 DEF DepthStencilDescs, FragmentTypes, Face
    <2>2. op \in StencilOps
      BY <1>4, <2>1 DEF FaceDescs
    <2> QED
      BY <1>1, <1>4, <2>1, <2>2 DEF Plain
  <1>6. /\ "read_depth" \in acc <=> desc.depth_enable /\ desc.depth_func \notin {"never", "always"}
        /\ "write_depth" \in acc <=> desc.depth_enable /\ desc.depth_write_mask /\ desc.depth_func # "never"
        /\ "read_stencil" \in acc <=> desc.stencil_enable
        /\ "write_stencil" \in acc <=> desc.stencil_enable
    BY <1>2 DEF AccessFor
  <1>7. PICK depth_pass \in BOOLEAN :
          depth_pass <=> (desc.depth_enable => Compare(desc.depth_func, DepthAt(f, s), sample.depth))
    OBVIOUS
  <1>8. DepthPasses(desc, f, s, acc, sample) <=> depth_pass
    <2>1. \A x, y : (Compare("never", x, y) <=> FALSE) /\ (Compare("always", x, y) <=> TRUE)
      BY DEF Compare
    <2>2. CASE "read_depth" \in acc
      BY <1>7, <2>2 DEF DepthPasses, depth_test
    <2>3. CASE "read_depth" \notin acc
      BY <1>6, <1>7, <2>1, <2>3 DEF DepthPasses, depth_test
    <2> QED
      BY <2>2, <2>3
  <1>9. CASE desc.stencil_enable
    <2>1. PICK ref : ref = Masked(p.stencil_ref, 255)
      OBVIOUS
    <2>2. PICK cur : cur = sample.stencil
      OBVIOUS
    <2>3. cur \in 0 .. 255 /\ cur \in Int
      BY <2>2 DEF SampleTypes
    <2>4. ref \in 0 .. 255
      BY <2>1, MaskedIsByte DEF LowBitMasks
    <2>5. Masked(cur, 255) = cur
      BY <2>3, MaskedIsByte
    <2>6. PICK stencil : stencil = Meant(op, ref, cur)
      OBVIOUS
    <2>7. Masked(stencil_operation(desc, f.front_face, TRUE, TRUE, ref, cur), 255) = stencil
      <3>1. stencil_operation(desc, f.front_face, TRUE, TRUE, ref, cur) = Operate(op, ref, cur)
        BY <1>3, <1>4, <1>9, PickedOperation
      <3>2. Masked(Operate(op, ref, cur), 255) = Meant(op, ref, cur)
        <4>1. op \in StencilOps \ {"decr_sat"}
          BY <1>5
        <4> QED
          BY ONLY <2>3, <2>4, <4>1, OperateIsMeant, Zenon
      <3> QED
        BY <2>6, <3>1, <3>2
    <2>8. ~early
      BY <1>1, <1>9
    <2>9. PICK stencil_pass \in BOOLEAN : stencil_pass <=> Compare(face.stencil_func, ref, cur)
      OBVIOUS
    <2>10. stencil_test(desc, f.front_face, ref, cur) <=> stencil_pass
      BY <1>3, <1>9, <2>9 DEF stencil_test
    <2>11. StencilPasses(p, f, sample) <=> stencil_pass
      BY <1>1, <1>3, <1>5, <1>9, <2>1, <2>2, <2>5, <2>9 DEF StencilPasses
    <2>12. Tested(p, f, s, acc, early, sample, paint)
             = IF depth_pass /\ stencil_pass
               THEN [Written(f, s, acc, sample, stencil) EXCEPT !.paint = paint] ELSE sample
      <3>1. ref = IF desc.stencil_enable THEN Masked(p.stencil_ref, desc.stencil_read_mask) ELSE 0
        BY <1>5, <1>9, <2>1
      <3>2. cur = IF "read_stencil" \in acc THEN Masked(sample.stencil, desc.stencil_read_mask) ELSE 0
        BY <1>5, <1>6, <1>9, <2>2, <2>5
      <3>3. stencil = IF early THEN 0
                      ELSE Masked(stencil_operation(desc, f.front_face, TRUE, TRUE, ref, cur), desc.stencil_write_mask)
        BY <1>5, <2>7, <2>8
      <3>4. Tested(p, f, s, acc, early, sample, paint)
              = IF DepthPasses(desc, f, s, acc, sample) /\ (early \/ stencil_test(desc, f.front_face, ref, cur))
                THEN [Written(f, s, acc, sample, stencil) EXCEPT !.paint = paint] ELSE sample
        BY <1>1, <3>1, <3>2, <3>3 DEF Tested
      <3> QED
        BY <1>8, <2>8, <2>10, <3>4
    <2>13. Meant("keep", ref, cur) = cur
      BY DEF Meant
    <2>14. Standard(p, f, s, sample, paint)
             = [depth   |-> IF stencil_pass /\ depth_pass /\ desc.depth_enable /\ desc.depth_write_mask
                            THEN DepthAt(f, s) ELSE sample.depth,
                stencil |-> IF stencil_pass /\ depth_pass THEN stencil ELSE cur,
                paint   |-> IF stencil_pass /\ depth_pass THEN paint ELSE sample.paint]
      BY <1>1, <1>3, <1>4, <1>5, <1>7, <1>9, <2>1, <2>2, <2>6, <2>11, <2>13 DEF Standard, DepthAt
    <2>15. depth_pass /\ desc.depth_enable => desc.depth_func # "never"
      BY <1>7 DEF Compare
    <2> QED
      BY <1>1, <1>2, <1>6, <1>9, <2>2, <2>12, <2>14, <2>15 DEF Written, SampleTypes
  <1>10. CASE ~desc.stencil_enable
    <2>1. PICK old : old = IF "read_stencil" \in acc THEN Masked(sample.stencil, desc.stencil_read_mask) ELSE 0
      OBVIOUS
    <2>2. PICK stencil :
            stencil = IF early THEN 0
                      ELSE Masked(stencil_operation(desc, f.front_face, TRUE, TRUE, 0, old), desc.stencil_write_mask)
      OBVIOUS
    <2>3. Tested(p, f, s, acc, early, sample, paint)
            = IF DepthPasses(desc, f, s, acc, sample) /\ (early \/ stencil_test(desc, f.front_face, 0, old))
              THEN [Written(f, s, acc, sample, stencil) EXCEPT !.paint = paint] ELSE sample
      <3>1. 0 = IF desc.stencil_enable THEN Masked(p.stencil_ref, desc.stencil_read_mask) ELSE 0
        BY <1>10
      <3> QED
        BY <1>1, <2>1, <2>2, <3>1 DEF Tested
    <2>4. stencil_test(desc, f.front_face, 0, old)
      BY <1>10 DEF stencil_test
    <2>5. Tested(p, f, s, acc, early, sample, paint)
            = IF depth_pass THEN [Written(f, s, acc, sample, stencil) EXCEPT !.paint = paint] ELSE sample
      BY <1>8, <2>3, <2>4
    <2>6. Standard(p, f, s, sample, paint)
             = [depth   |-> IF depth_pass /\ desc.depth_enable /\ desc.depth_write_mask
                            THEN DepthAt(f, s) ELSE sample.depth,
                stencil |-> sample.stencil,
                paint   |-> IF depth_pass THEN paint ELSE sample.paint]
      BY <1>1, <1>7, <1>10 DEF Standard, StencilPasses, DepthAt
    <2>7. depth_pass /\ desc.depth_enable => desc.depth_func # "never"
      BY <1>7 DEF Compare
    <2> QED
      BY <1>1, <1>2, <1>6, <1>10, <2>5, <2>6, <2>7 DEF Written, SampleTypes
  <1> QED
    BY <1>9, <1>10

LEMMA MaxIsIn ==
  ASSUME NEW N \in Nat, NEW S \in SUBSET (1 .. N), S # {}
  PROVE  Max(S) \in S
  <1> DEFINE T == {n \in Nat : \E x \in S : n = N - x}
  <1>1. \A x \in S : x \in Int /\ N - x \in Nat
    OBVIOUS
  <1>2. T \in SUBSET Nat /\ T # {}
    BY <1>1
  <1>3. PICK m \in T : \A y \in T : m <= y
    BY <1>2, LeastNatural
  <1>4. PICK x \in S : m = N - x
    BY <1>3
  <1>5. ASSUME NEW y \in S PROVE x >= y
    <2>1. N - y \in T
      BY <1>1
    <2>2. N - x <= N - y
      BY <1>3, <1>4, <2>1
    <2>3. x \in Int /\ y \in Int
      BY <1>1
    <2> HIDE DEF T
    <2> QED
      BY <2>2, <2>3
  <1> QED
    BY <1>4, <1>5 DEF Max

PixelTypes == [Samples -> SampleTypes]

(* F is what the framebuffer does with each fragment, and what it should.  *)
Renders(F, p, fragments, acc, early, paint) ==
  /\ F \in [PixelTypes \X (1 .. Len(fragments)) -> PixelTypes]
  /\ \A px \in PixelTypes, k \in 1 .. Len(fragments) :
       F[px, k] = [s \in Samples |-> IF s \in fragments[k].mask
                                    THEN Tested(p, fragments[k], s, acc, early, px[s], paint) ELSE px[s]]
Means(F, p, fragments, paint) ==
  /\ F \in [PixelTypes \X (1 .. Len(fragments)) -> PixelTypes]
  /\ \A px \in PixelTypes, k \in 1 .. Len(fragments) :
       F[px, k] = [s \in Samples |-> IF s \in fragments[k].mask
                                    THEN Standard(p, fragments[k], s, px[s], paint) ELSE px[s]]

LEMMA RenderedIsFold ==
  ASSUME NEW p, NEW fragments \in Seq(FragmentTypes), NEW acc, NEW early, NEW paint,
         NEW F, Renders(F, p, fragments, acc, early, paint),
         NEW g \in [SUBSET (1 .. Len(fragments)) -> PixelTypes], IsFold(g, Len(fragments), pixel, F)
  PROVE  Rendered(p, fragments, acc, early, paint) = g[1 .. Len(fragments)]
  <1> DEFINE After(px, f) == [s \in Samples |-> IF s \in f.mask THEN Tested(p, f, s, acc, early, px[s], paint) ELSE px[s]]
             N == Len(fragments)
             iter == CHOOSE h : h = [S \in SUBSET (1 .. N) |->
                                       IF S = {} THEN pixel ELSE After(h[S \ {Max(S)}], fragments[Max(S)])]
  <1>1. N \in Nat /\ DOMAIN fragments = 1 .. N
    BY ONLY fragments \in Seq(FragmentTypes)
  <1>2. Rendered(p, fragments, acc, early, paint) = iter[1 .. N]
    BY <1>1 DEF Rendered, FoldLeft, MapThenFoldSet
  <1>3. \A px \in PixelTypes, k \in 1 .. N : F[px, k] = After(px, fragments[k])
    BY DEF Renders
  <1> HIDE DEF After
  <1>4. ASSUME NEW S \in SUBSET (1 .. N), S # {}
        PROVE  g[S] = After(g[S \ {Max(S)}], fragments[Max(S)])
    <2>1. g[S] = F[g[S \ {Max(S)}], Max(S)]
      BY <1>4 DEF IsFold
    <2>2. Max(S) \in 1 .. N
      BY <1>1, <1>4, MaxIsIn
    <2>3. g[S \ {Max(S)}] \in PixelTypes
      OBVIOUS
    <2> QED
      BY <1>3, <2>1, <2>2, <2>3
  <1>5. g[{}] = pixel
    BY DEF IsFold
  <1>6. g = [S \in SUBSET (1 .. N) |-> IF S = {} THEN pixel ELSE After(g[S \ {Max(S)}], fragments[Max(S)])]
    <2>1. g = [S \in SUBSET (1 .. N) |-> g[S]]
      OBVIOUS
    <2> QED
      BY <1>4, <1>5, <2>1
  <1>7. iter = [S \in SUBSET (1 .. N) |-> IF S = {} THEN pixel ELSE After(iter[S \ {Max(S)}], fragments[Max(S)])]
    BY <1>6
  <1> HIDE DEF iter
  <1>8. iter[{}] = g[{}]
    BY <1>5, <1>7
  <1>9. ASSUME NEW S \in SUBSET (1 .. N), S # {}, iter[S \ {Max(S)}] = g[S \ {Max(S)}]
        PROVE  iter[S] = g[S]
    BY <1>4, <1>7, <1>9
  <1>10. iter[1 .. N] = g[1 .. N]
    BY <1>1, <1>8, <1>9, FoldsAgree
  <1> QED
    BY <1>2, <1>10

LEMMA StandardIsFold ==
  ASSUME NEW p, NEW fragments \in Seq(FragmentTypes), NEW paint, NEW F, Means(F, p, fragments, paint),
         NEW g \in [SUBSET (1 .. Len(fragments)) -> PixelTypes], IsFold(g, Len(fragments), pixel, F)
  PROVE  StandardPixel(p, fragments, paint) = g[1 .. Len(fragments)]
  <1> DEFINE After(px, f) == [s \in Samples |-> IF s \in f.mask THEN Standard(p, f, s, px[s], paint) ELSE px[s]]
             N == Len(fragments)
             iter == CHOOSE h : h = [S \in SUBSET (1 .. N) |->
                                       IF S = {} THEN pixel ELSE After(h[S \ {Max(S)}], fragments[Max(S)])]
  <1>1. N \in Nat /\ DOMAIN fragments = 1 .. N
    BY ONLY fragments \in Seq(FragmentTypes)
  <1>2. StandardPixel(p, fragments, paint) = iter[1 .. N]
    BY <1>1 DEF StandardPixel, FoldLeft, MapThenFoldSet
  <1>3. \A px \in PixelTypes, k \in 1 .. N : F[px, k] = After(px, fragments[k])
    BY DEF Means
  <1> HIDE DEF After
  <1>4. ASSUME NEW S \in SUBSET (1 .. N), S # {}
        PROVE  g[S] = After(g[S \ {Max(S)}], fragments[Max(S)])
    <2>1. g[S] = F[g[S \ {Max(S)}], Max(S)]
      BY <1>4 DEF IsFold
    <2>2. Max(S) \in 1 .. N
      BY <1>1, <1>4, MaxIsIn
    <2>3. g[S \ {Max(S)}] \in PixelTypes
      OBVIOUS
    <2> QED
      BY <1>3, <2>1, <2>2, <2>3
  <1>5. g[{}] = pixel
    BY DEF IsFold
  <1>6. g = [S \in SUBSET (1 .. N) |-> IF S = {} THEN pixel ELSE After(g[S \ {Max(S)}], fragments[Max(S)])]
    <2>1. g = [S \in SUBSET (1 .. N) |-> g[S]]
      OBVIOUS
    <2> QED
      BY <1>4, <1>5, <2>1
  <1>7. iter = [S \in SUBSET (1 .. N) |-> IF S = {} THEN pixel ELSE After(iter[S \ {Max(S)}], fragments[Max(S)])]
    BY <1>6
  <1> HIDE DEF iter
  <1>8. iter[{}] = g[{}]
    BY <1>5, <1>7
  <1>9. ASSUME NEW S \in SUBSET (1 .. N), S # {}, iter[S \ {Max(S)}] = g[S \ {Max(S)}]
        PROVE  iter[S] = g[S]
    BY <1>4, <1>7, <1>9
  <1>10. iter[1 .. N] = g[1 .. N]
    BY <1>1, <1>8, <1>9, FoldsAgree
  <1> QED
    BY <1>2, <1>10

(* After any fragments the pixel is one; and when the framebuffer has      *)
(* worked out what it keeps for a plain descriptor, it is the one meant.   *)
LEMMA RenderedType ==
  ASSUME NEW p, p.desc \in DepthStencilDescs, p.stencil_ref \in Int,
         NEW fragments \in Seq(FragmentTypes), NEW acc, NEW early, NEW paint \in Nat, pixel \in PixelTypes
  PROVE  /\ Rendered(p, fragments, acc, early, paint) \in PixelTypes
         /\ Plain(p.desc) /\ acc = AccessFor(p.desc) /\ early \in BOOLEAN /\ (early => ~p.desc.stencil_enable)
              => Rendered(p, fragments, acc, early, paint) = StandardPixel(p, fragments, paint)
  <1> DEFINE After(px, f) == [s \in Samples |-> IF s \in f.mask THEN Tested(p, f, s, acc, early, px[s], paint) ELSE px[s]]
             N == Len(fragments)
             F == [x \in PixelTypes \X (1 .. N) |-> After(x[1], fragments[x[2]])]
  <1>1. N \in Nat /\ \A k \in 1 .. N : fragments[k] \in FragmentTypes
    BY ONLY fragments \in Seq(FragmentTypes)
  <1>2. ASSUME NEW px \in PixelTypes, NEW f \in FragmentTypes PROVE After(px, f) \in PixelTypes
    <2>1. \A s \in Samples : px[s] \in SampleTypes
      BY DEF PixelTypes
    <2>2. \A s \in Samples : Tested(p, f, s, acc, early, px[s], paint) \in SampleTypes
      BY <2>1, TestedType
    <2> QED
      BY <2>1, <2>2 DEF PixelTypes
  <1>3. \A px \in PixelTypes, k \in 1 .. N : F[px, k] = After(px, fragments[k])
    <2> HIDE DEF After
    <2> QED
      OBVIOUS
  <1>4. F \in [PixelTypes \X (1 .. N) -> PixelTypes]
    <2> HIDE DEF After
    <2> QED
      BY <1>1, <1>2
  <1>5. PICK G : G = F
    OBVIOUS
  <1> HIDE DEF F
  <1>6. PICK g \in [SUBSET (1 .. N) -> PixelTypes] : IsFold(g, N, pixel, G)
    <2> HIDE DEF N
    <2> QED
      BY <1>1, <1>4, <1>5, FoldExists
  <1>7. Rendered(p, fragments, acc, early, paint) = g[1 .. N]
    <2>1. Renders(G, p, fragments, acc, early, paint)
      BY <1>3, <1>4, <1>5 DEF Renders
    <2> QED
      BY ONLY fragments \in Seq(FragmentTypes), <1>6, <2>1, RenderedIsFold
  <1>8. g[1 .. N] \in PixelTypes
    OBVIOUS
  <1>9. ASSUME Plain(p.desc), acc = AccessFor(p.desc), early \in BOOLEAN, early => ~p.desc.stencil_enable
        PROVE  StandardPixel(p, fragments, paint) = g[1 .. N]
    <2>1. ASSUME NEW px \in PixelTypes, NEW k \in 1 .. N
          PROVE  G[px, k] = [s \in Samples |-> IF s \in fragments[k].mask
                                              THEN Standard(p, fragments[k], s, px[s], paint) ELSE px[s]]
      <3>1. fragments[k] \in FragmentTypes /\ \A s \in Samples : px[s] \in SampleTypes
        BY <1>1 DEF PixelTypes
      <3>2. \A s \in Samples : Tested(p, fragments[k], s, acc, early, px[s], paint) = Standard(p, fragments[k], s, px[s], paint)
        BY <1>9, <3>1, TestedIsMeant
      <3>3. G[px, k] = After(px, fragments[k])
        BY <1>3, <1>5
      <3> QED
        BY <3>2, <3>3
    <2> QED
      <3>1. Means(G, p, fragments, paint)
        BY <1>4, <1>5, <2>1 DEF Means
      <3> QED
        BY ONLY fragments \in Seq(FragmentTypes), <1>6, <3>1, StandardIsFold
  <1> QED
    BY <1>7, <1>8, <1>9
-----------------------------------------------------------------------------
(* What the framebuffer remembers of the last draw, as long as the state   *)
(* it was for is alive: its functions are those of that state.             *)
Remembered ==
  ds_target /\ ~recycled =>
    /\ ds_state \in DOMAIN heap /\ heap[ds_state] \in DOMAIN Descs
    /\ access = AccessFor(Descs[heap[ds_state]])
    /\ early_z_enabled => ~Descs[heap[ds_state]].stencil_enable

(* The state that is set is alive, and the one the pipeline speaks of.     *)
ObjectsOK ==
  /\ state.val["pipeline"] \in DOMAIN Pipelines
  /\ heap \in [DOMAIN program.heap -> DOMAIN Descs \cup {free}]
  /\ ds_address \in DOMAIN heap /\ heap[ds_address] = Pipelines[state.val["pipeline"]].desc
  /\ recycled \in BOOLEAN

HistoryOK == issued \in Seq(Effects) /\ synced \in 0 .. Len(issued)

PixelOK == FbTypeOK /\ partial \in Seq(FragmentTypes)

DrawInv == FrameInv /\ HistoryOK /\ ObjectsOK /\ PixelOK /\ Remembered

LEMMA CurrentType ==
  ASSUME ObjectsOK
  PROVE  /\ Current.desc = Descs[heap[ds_address]] /\ Current.ds_state = ds_address
         /\ Current.desc \in DepthStencilDescs /\ Current.stencil_ref \in Int /\ Current.output_depth \in BOOLEAN
  <1>1. PICK v \in DOMAIN Pipelines : v = state.val["pipeline"]
    BY DEF ObjectsOK
  <1>2. /\ Pipelines[v].desc \in DOMAIN Descs /\ Pipelines[v].stencil_ref \in Int
        /\ Pipelines[v].output_depth \in BOOLEAN
    BY DrawsAssumption
  <1>3. Descs[Pipelines[v].desc] \in DepthStencilDescs
    BY <1>2, FramebufferAssumption
  <1> QED
    BY <1>1, <1>2, <1>3 DEF Current, PipelineOf, ObjectsOK

LEMMA InitDrawInv == FrameInit => DrawInv
  <1> SUFFICES ASSUME FrameInit PROVE DrawInv
    OBVIOUS
  <1>1. FrameInv /\ application \in DOMAIN Programs
    BY InitFrameInv DEF FrameInit
  <1>2. HistoryOK
    <2>1. issued = <<>> /\ synced = 0 /\ Len(<<>>) = 0
      BY DEF FrameInit, Init
    <2> QED
      BY <2>1 DEF HistoryOK
  <1>3. ObjectsOK
    <2>1. PICK p : p = program
      OBVIOUS
    <2>2. /\ p.heap \in [DOMAIN p.heap -> DOMAIN Descs \cup {free}]
          /\ \E a \in DOMAIN p.heap : p.heap[a] = Pipelines[Default].desc
      BY <1>1, <2>1, DrawsAssumption DEF program
    <2>3. heap = p.heap /\ ds_address = (CHOOSE a \in DOMAIN heap : heap[a] = Pipelines[Default].desc)
          /\ recycled = FALSE
      BY <2>1 DEF FrameInit
    <2>4. ds_address \in DOMAIN heap /\ heap[ds_address] = Pipelines[Default].desc
      BY <2>2, <2>3
    <2>5. state.val["pipeline"] = Default
      BY DEF FrameInit, Init, NewState, Fields
    <2> QED
      BY <2>1, <2>2, <2>3, <2>4, <2>5, DrawsAssumption DEF ObjectsOK
  <1>4. PixelOK
    <2>1. partial \in Seq(FragmentTypes) /\ Len(partial) <= 1
      <3>1. partial = <<>> /\ Len(<<>>) = 0
        BY DEF FrameInit, FbInit
      <3> QED
        BY <3>1
    <2>2. pixel \in [Samples -> SampleTypes]
      <3>1. [depth |-> far_depth, stencil |-> 0, paint |-> 0] \in SampleTypes
        BY FramebufferAssumption DEF SampleTypes
      <3> QED
        BY <3>1 DEF FrameInit, FbInit
    <2>3. ds_target = FALSE /\ access = {} /\ early_z_enabled \in BOOLEAN
      BY DEF FrameInit, FbInit
    <2> QED
      BY <2>1, <2>2, <2>3 DEF PixelOK, FbTypeOK
  <1>5. Remembered
    BY DEF FrameInit, FbInit, Remembered
  <1> QED
    BY <1>1, <1>2, <1>3, <1>4, <1>5 DEF DrawInv

LEMMA SetPipelineKeeps ==
  ASSUME DrawInv, NEW v \in program.pipelines, SetPipeline(v)
  PROVE  HistoryOK' /\ ObjectsOK' /\ PixelOK' /\ Remembered'
  <1> USE DEF DrawInv
  <1>1. v \in DOMAIN Pipelines /\ v \in Values
    BY DrawsAssumption DEF FrameInv, program
  <1>2. state' = SetTo(state, v) /\ state' \in States /\ state'.val["pipeline"] = v
    BY <1>1, SettersType DEF SetPipeline, Set, SetTo, States, Fields, FrameInv
  <1>3. PICK a \in DOMAIN heap : /\ heap[a] \in {free, Pipelines[v].desc}
                                /\ heap' = [heap EXCEPT ![a] = Pipelines[v].desc] /\ ds_address' = a
    BY DEF SetPipeline
  <1>4. HistoryOK' /\ PixelOK'
    BY DEF SetPipeline, Set, HistoryOK, PixelOK, FbTypeOK, fbVars
  <1>5. Pipelines[v].desc \in DOMAIN Descs /\ program' = program /\ recycled' = recycled
    BY <1>1, DrawsAssumption DEF SetPipeline, program
  <1>6. ObjectsOK'
    BY <1>1, <1>2, <1>3, <1>5 DEF ObjectsOK
  <1>7. ASSUME ds_state \in DOMAIN heap, heap[ds_state] \in DOMAIN Descs
        PROVE  ds_state \in DOMAIN heap' /\ heap'[ds_state] = heap[ds_state]
    BY <1>3, <1>7, DrawsAssumption
  <1>8. Remembered'
    BY <1>5, <1>7 DEF Remembered, SetPipeline, fbVars
  <1> QED
    BY <1>4, <1>6, <1>8

LEMMA LetGoKeeps ==
  ASSUME DrawInv, NEW a, LetGo(a)
  PROVE  HistoryOK' /\ ObjectsOK' /\ PixelOK' /\ Remembered'
  <1> USE DEF DrawInv
  <1>1. HistoryOK' /\ PixelOK'
    BY DEF LetGo, vars, HistoryOK, PixelOK, FbTypeOK, fbVars
  <1>2. program' = program /\ state' = state /\ DOMAIN heap' = DOMAIN heap
    BY DEF LetGo, program, vars
  <1>3. ObjectsOK'
    BY <1>2 DEF LetGo, ObjectsOK
  <1>4. Remembered'
    BY <1>2 DEF LetGo, Remembered, fbVars, ObjectsOK
  <1> QED
    BY <1>1, <1>3, <1>4

LEMMA MinIsIn ==
  ASSUME NEW S \in SUBSET Nat, S # {}
  PROVE  Min(S) \in S
  BY LeastNatural DEF Min

(* A draw updates what is kept for a state, and paints the fragments up to *)
(* the first that enters the loop of the early test.                       *)
LEMMA DrawPaints ==
  ASSUME PixelOK, NEW p, p.desc \in DepthStencilDescs, p.stencil_ref \in Int, p.output_depth \in BOOLEAN,
         NEW fragments \in Seq(FragmentTypes), NEW paint \in Nat, FbDraw(p, fragments, paint)
  PROVE  /\ PixelOK'
         /\ partial' = <<>> => pixel' = Rendered(p, fragments, access', early_z_enabled', paint)
  <1>1. PICK acc : acc = access'
    OBVIOUS
  <1>2. PICK early \in BOOLEAN : early = early_z_enabled'
    BY DEF FbDraw, FbUpdate, EarlyZFor, PixelOK, FbTypeOK
  <1>3. acc \subseteq {"read_depth", "write_depth", "read_stencil", "write_stencil"} /\ ds_target' = TRUE
    BY <1>1 DEF FbDraw, FbUpdate, AccessFor, PixelOK, FbTypeOK
  <1>4. PICK first : first = SelectInSeq(fragments, LAMBDA f : early /\ f.mask \notin {{}, Samples})
    OBVIOUS
  <1>5. PICK done : done = IF first = 0 THEN fragments ELSE SubSeq(fragments, 1, first - 1)
    OBVIOUS
  <1>6. /\ pixel' = Rendered(p, done, acc, early, paint)
        /\ partial' = IF first = 0 THEN <<>> ELSE <<fragments[first]>>
    BY <1>1, <1>2, <1>4, <1>5 DEF FbDraw
  <1>7. first = 0 \/ (first \in 1 .. Len(fragments) /\ first \in Nat \ {0})
    <2> DEFINE I == {i \in 1 .. Len(fragments) : early /\ fragments[i].mask \notin {{}, Samples}}
    <2>1. first = IF I # {} THEN Min(I) ELSE 0
      BY <1>4 DEF SelectInSeq
    <2>2. I \in SUBSET Nat /\ I \subseteq 1 .. Len(fragments)
      OBVIOUS
    <2> HIDE DEF I
    <2> QED
      BY <2>1, <2>2, MinIsIn
  <1>8. done \in Seq(FragmentTypes)
    BY <1>5, <1>7
  <1>9. partial' \in Seq(FragmentTypes) /\ Len(partial') <= 1
    <2>1. CASE first = 0
      <3>1. partial' = <<>> /\ Len(<<>>) = 0
        BY <1>6, <2>1
      <3> QED
        BY <3>1
    <2>2. CASE first \in 1 .. Len(fragments)
      <3>1. PICK f \in FragmentTypes : f = fragments[first]
        BY <2>2
      <3>2. partial' = <<f>> /\ Len(<<f>>) = 1
        BY <1>6, <1>7, <2>2, <3>1
      <3> QED
        BY <3>2
    <2> QED
      BY <1>7, <2>1, <2>2
  <1>10. pixel' \in PixelTypes
    <2>1. pixel \in PixelTypes
      BY DEF PixelOK, FbTypeOK, PixelTypes
    <2> QED
      BY <1>6, <1>8, <2>1, RenderedType
  <1>11. PixelOK'
    BY <1>1, <1>2, <1>3, <1>9, <1>10 DEF PixelOK, FbTypeOK, PixelTypes
  <1>12. ASSUME partial' = <<>> PROVE done = fragments
    BY <1>5, <1>6, <1>12
  <1> QED
    BY <1>1, <1>2, <1>6, <1>11, <1>12

(* What a draw finds worked out for its state, unless it mistakes another  *)
(* for it, is right for it.                                                *)
LEMMA DrawUpdates ==
  ASSUME ObjectsOK, PixelOK, Remembered, NEW fragments, NEW paint, FbDraw(Current, fragments, paint),
         ~Mistaken \/ Changed(Current)
  PROVE  /\ access' = AccessFor(Current.desc)
         /\ early_z_enabled' \in BOOLEAN
         /\ early_z_enabled' => ~Current.desc.stencil_enable
  <1>1. Current.desc = Descs[heap[ds_address]] /\ Current.ds_state = ds_address
    BY CurrentType
  <1>2. CASE Changed(Current)
    BY <1>2 DEF FbDraw, FbUpdate, EarlyZFor
  <1>3. CASE ~Changed(Current)
    <2>1. ds_state = ds_address /\ ds_target /\ ~recycled
      BY <1>1, <1>3 DEF Changed, Mistaken, PixelOK, FbTypeOK, ObjectsOK
    <2>2. access' = access /\ early_z_enabled' = early_z_enabled
      BY <1>3 DEF FbDraw, FbUpdate
    <2> QED
      BY <1>1, <2>1, <2>2 DEF Remembered, PixelOK, FbTypeOK
  <1> QED
    BY <1>2, <1>3

LEMMA CoreDrawPaints ==
  ASSUME DrawInv, CoreDraw, NEW c \in Calls \cap Draws, NEW v \in program.arguments,
         state' = Called(state, c, v), Len(issued') \in Nat, UNCHANGED <<application, heap, ds_address>>
  PROVE  /\ ObjectsOK' /\ PixelOK' /\ Remembered'
         /\ partial' = <<>> /\ AtHome /\ Plain(Current.desc) /\ ~Mistaken =>
              pixel' = StandardPixel(Current, FragmentsOf(state'), Len(issued'))
  <1>1. state'.val["pipeline"] = state.val["pipeline"] /\ state'.val["arguments"] = v
    <2>1. "pipeline" \notin Assigned(c) /\ "arguments" \in Assigned(c)
      BY SyncAssumption DEF Assigned, Commands, Draws, Clears, Asyncs
    <2> QED
      BY <2>1 DEF Called, Fields
  <1>2. CASE NothingBound
    <2>1. ~AtHome
      BY <1>2 DEF NothingBound, AtHome
    <2> QED
      BY <1>1, <1>2, <2>1 DEF CoreDraw, DrawInv, ObjectsOK, PixelOK, FbTypeOK, Remembered, fbVars, program
  <1>3. CASE ~NothingBound
    <2>1. PICK fragments : fragments = IF AtHome THEN FragmentsOf(state') ELSE <<>>
      OBVIOUS
    <2>2. FbDraw(Current, fragments, Len(issued')) /\ recycled' = (recycled /\ ~Changed(Current))
      BY <1>3, <2>1 DEF CoreDraw
    <2>3. fragments \in Seq(FragmentTypes)
      <3>1. FragmentsOf(state') \in Seq(FragmentTypes)
        BY <1>1, DrawsAssumption DEF DrawInv, FrameInv, FragmentsOf, program
      <3> QED
        BY <2>1, <3>1
    <2>4. /\ Current.desc \in DepthStencilDescs /\ Current.stencil_ref \in Int /\ Current.output_depth \in BOOLEAN
          /\ Current.desc = Descs[heap[ds_address]] /\ Current.ds_state = ds_address
      BY CurrentType DEF DrawInv
    <2>5. PixelOK' /\ (partial' = <<>> => pixel' = Rendered(Current, fragments, access', early_z_enabled', Len(issued')))
      BY <2>2, <2>3, <2>4, DrawPaints DEF DrawInv
    <2>6. ObjectsOK'
      BY <1>1, <2>2 DEF DrawInv, ObjectsOK, program
    <2>7. Remembered'
      <3> SUFFICES ASSUME ~recycled' PROVE Remembered'
        BY DEF Remembered
      <3>1. ~Mistaken \/ Changed(Current)
        BY <2>2 DEF Mistaken
      <3>2. /\ access' = AccessFor(Current.desc)
            /\ early_z_enabled' => ~Current.desc.stencil_enable
        BY <2>2, <3>1, DrawUpdates DEF DrawInv
      <3>3. ds_state' = ds_address
        BY <2>2, <2>4 DEF FbDraw, FbUpdate
      <3>4. heap[ds_address] \in DOMAIN Descs
        BY DrawsAssumption DEF DrawInv, ObjectsOK
      <3> QED
        BY <2>4, <3>2, <3>3, <3>4 DEF Remembered, DrawInv, ObjectsOK
    <2>8. ASSUME partial' = <<>>, AtHome, Plain(Current.desc), ~Mistaken
          PROVE  pixel' = StandardPixel(Current, FragmentsOf(state'), Len(issued'))
      <3>1. fragments = FragmentsOf(state')
        BY <2>1, <2>8
      <3>2. /\ access' = AccessFor(Current.desc) /\ early_z_enabled' \in BOOLEAN
            /\ early_z_enabled' => ~Current.desc.stencil_enable
        BY <2>2, <2>8, DrawUpdates DEF DrawInv
      <3>3. PICK acc, early, paint : acc = access' /\ early = early_z_enabled' /\ paint = Len(issued')
        OBVIOUS
      <3>4. pixel \in PixelTypes
        BY DEF DrawInv, PixelOK, FbTypeOK, PixelTypes
      <3>5. Rendered(Current, fragments, acc, early, paint) = StandardPixel(Current, fragments, paint)
        BY <2>3, <2>4, <2>8, <3>2, <3>3, <3>4, RenderedType
      <3>6. pixel' = Rendered(Current, fragments, acc, early, paint)
        BY <2>5, <2>8, <3>3
      <3> QED
        BY <3>1, <3>3, <3>5, <3>6
    <2> QED
      BY <2>5, <2>6, <2>7, <2>8
  <1> QED
    BY <1>2, <1>3

(* A call adds to the history what it is executed with.                    *)
LEMMA CallHistory ==
  ASSUME DrawInv, NEW c \in Calls, NEW v \in Values, state' = Called(state, c, v),
         issued' = Append(issued, Effect(state')), synced' = synced
  PROVE  HistoryOK' /\ Len(issued') \in Nat
  <1>1. PICK e \in Effects : e = Effect(state')
    BY CalledEffect DEF DrawInv, FrameInv
  <1>2. issued' \in Seq(Effects) /\ Len(issued') = Len(issued) + 1 /\ Len(issued) \in Nat
    BY <1>1 DEF DrawInv, HistoryOK
  <1>3. synced \in 0 .. Len(issued)
    BY DEF DrawInv, HistoryOK
  <1>4. synced \in 0 .. Len(issued')
    BY ONLY <1>2, <1>3
  <1> QED
    BY <1>2, <1>4 DEF HistoryOK

(* The pipeline is what it was after any command.                          *)
LEMMA CalledPipeline ==
  ASSUME NEW c \in Commands, NEW v, state' = Called(state, c, v)
  PROVE  state'.val["pipeline"] = state.val["pipeline"] /\ state'.cmd = c
  <1>1. "pipeline" \notin Assigned(c)
    BY DEF Assigned, Commands, Draws, Clears, Asyncs
  <1> QED
    BY <1>1 DEF Called, Fields

DrawStep ==
  Drawn /\ Plain(Current.desc) /\ ~Mistaken =>
    pixel' = StandardPixel(Current, FragmentsOf(state'), Len(issued'))

LEMMA CommandedKeeps ==
  ASSUME DrawInv, Commanded
  PROVE  HistoryOK' /\ ObjectsOK' /\ PixelOK' /\ Remembered' /\ DrawStep
  <1> DEFINE Goal == HistoryOK' /\ ObjectsOK' /\ PixelOK' /\ Remembered' /\ DrawStep
  <1>1. /\ application \in DOMAIN Programs
        /\ program.arguments \subseteq Values /\ program.clears \subseteq Values /\ program.others \subseteq Values
        /\ program.clears \subseteq DOMAIN ClearArgs
        /\ program.clears # {} => "clear_depth_stencil" \in Calls
    BY ProgramOK, DrawsAssumption DEF DrawInv, FrameInv, program
  <1>2. Calls \subseteq Commands
    BY SyncAssumption
  <1>3. ASSUME NEW c \in Calls \cap Draws, NEW v \in program.arguments, DrawCall(c, v)
        PROVE  Goal
    <2>1. HistoryOK' /\ Len(issued') \in Nat
      BY <1>1, <1>3, CallHistory DEF DrawCall, Call
    <2> QED
      BY <1>3, <2>1, CoreDrawPaints DEF DrawCall, Call, DrawStep, Drawn
  <1>4. ASSUME NEW c \in Calls \cap Draws, NEW v \in program.arguments, DrawCallEntered(c, v)
        PROVE  Goal
    <2>1. HistoryOK' /\ Len(issued') \in Nat
      BY <1>1, <1>4, CallHistory DEF DrawCallEntered
    <2> QED
      BY <1>4, <2>1, CoreDrawPaints DEF DrawCallEntered, DrawStep, Drawn
  <1>5. ASSUME NEW v \in program.clears, ClearCall(v)
        PROVE  Goal
    <2>1. /\ "clear_depth_stencil" \in Calls \ Draws /\ Call("clear_depth_stencil", v) /\ FbClear(ClearArgs[v])
          /\ UNCHANGED objectVars /\ v \in Values
      BY <1>1, <1>5 DEF ClearCall, Draws
    <2>2. HistoryOK'
      BY <2>1, CallHistory DEF Call
    <2>3. state'.val["pipeline"] = state.val["pipeline"] /\ state'.cmd = "clear_depth_stencil"
      BY <1>2, <2>1, CalledPipeline DEF Call
    <2>4. ObjectsOK' /\ Remembered'
      BY <2>1, <2>3 DEF DrawInv, ObjectsOK, Remembered, FbClear, objectVars, program
    <2>5. pixel' \in PixelTypes
      <3>1. PICK c : c = ClearArgs[v] /\ c.depth \in Int /\ c.stencil \in 0 .. 255
        BY <1>1, DrawsAssumption
      <3>2. \A s \in Samples : pixel[s] \in SampleTypes
        BY DEF DrawInv, PixelOK, FbTypeOK
      <3>3. \A s \in Samples :
              [pixel[s] EXCEPT !.depth = IF "depth" \in c.flags THEN c.depth ELSE @,
                               !.stencil = IF "stencil" \in c.flags THEN c.stencil ELSE @] \in SampleTypes
        <4> SUFFICES ASSUME NEW s \in Samples
                     PROVE  [pixel[s] EXCEPT !.depth = IF "depth" \in c.flags THEN c.depth ELSE @,
                                             !.stencil = IF "stencil" \in c.flags THEN c.stencil ELSE @]
                              \in SampleTypes
          OBVIOUS
        <4>1. PICK sample \in SampleTypes : sample = pixel[s]
          BY <3>2
        <4>2. PICK d \in Int : d = IF "depth" \in c.flags THEN c.depth ELSE sample.depth
          BY <3>1 DEF SampleTypes
        <4>3. PICK t \in 0 .. 255 : t = IF "stencil" \in c.flags THEN c.stencil ELSE sample.stencil
          BY <3>1 DEF SampleTypes
        <4>4. [sample EXCEPT !.depth = d, !.stencil = t] \in SampleTypes
          BY DEF SampleTypes
        <4> QED
          BY <4>1, <4>2, <4>3, <4>4
      <3> QED
        BY <2>1, <3>1, <3>3 DEF FbClear, PixelTypes
    <2>6. PixelOK'
      BY <2>1, <2>5 DEF DrawInv, PixelOK, FbTypeOK, FbClear, PixelTypes
    <2> QED
      BY <2>1, <2>2, <2>3, <2>4, <2>6 DEF DrawStep, Drawn
  <1>6. ASSUME NEW c \in Calls \ (Draws \cup {"clear_depth_stencil"}), NEW v \in program.others, OtherCall(c, v)
        PROVE  Goal
    <2>1. HistoryOK'
      BY <1>1, <1>6, CallHistory DEF OtherCall, Call
    <2>2. state'.val["pipeline"] = state.val["pipeline"] /\ state'.cmd = c
      BY <1>2, <1>6, CalledPipeline DEF OtherCall, Call
    <2>3. ObjectsOK' /\ Remembered' /\ PixelOK'
      BY <1>6, <2>2 DEF OtherCall, DrawInv, ObjectsOK, Remembered, PixelOK, FbTypeOK, fbVars, objectVars, program
    <2> QED
      BY <1>6, <2>1, <2>2, <2>3 DEF DrawStep, Drawn
  <1> HIDE DEF Goal
  <1>7. Goal
    BY <1>3, <1>4, <1>5, <1>6 DEF Commanded
  <1> QED
    BY <1>7 DEF Goal

(* A turn of the loop in early_z_test writes the depth of one sample.      *)
LEMMA TurnKeeps ==
  ASSUME DrawInv, Turn
  PROVE  HistoryOK' /\ ObjectsOK' /\ PixelOK' /\ Remembered' /\ DrawStep
  <1>1. UNCHANGED <<vars, objectVars, ds_state, ds_target, access, early_z_enabled, partial>>
    BY DEF Turn, EarlyZTurn
  <1>2. HistoryOK' /\ ObjectsOK' /\ Remembered' /\ DrawStep
    BY <1>1 DEF DrawInv, HistoryOK, ObjectsOK, Remembered, DrawStep, Drawn, vars, objectVars, program
  <1>3. PICK f \in FragmentTypes : f = Head(partial)
    BY DEF DrawInv, PixelOK, Turn, EarlyZTurn
  <1>4. PICK s : s = Min(f.mask)
    OBVIOUS
  <1>5. \A r \in Samples : pixel[r] \in SampleTypes
    BY DEF DrawInv, PixelOK, FbTypeOK
  <1>6. s \in Samples => Written(f, s, access, pixel[s], 0) \in SampleTypes
    <2> SUFFICES ASSUME s \in Samples PROVE Written(f, s, access, pixel[s], 0) \in SampleTypes
      OBVIOUS
    <2>1. DepthAt(f, s) \in Int
      BY FramebufferAssumption DEF DepthAt, FragmentTypes
    <2>2. PICK sample \in SampleTypes : sample = pixel[s]
      BY <1>5
    <2>3. PICK d \in Int : d = IF "write_depth" \in access THEN DepthAt(f, s) ELSE sample.depth
      BY <2>1 DEF SampleTypes
    <2>4. PICK t \in 0 .. 255 : t = IF "write_stencil" \in access THEN 0 ELSE sample.stencil
      BY DEF SampleTypes
    <2>5. [sample EXCEPT !.depth = d, !.stencil = t] \in SampleTypes
      BY DEF SampleTypes
    <2> QED
      BY <2>2, <2>3, <2>4, <2>5 DEF Written
  <1>7. pixel' = pixel \/ pixel' = [pixel EXCEPT ![s] = Written(f, s, access, pixel[s], 0)]
    BY <1>3, <1>4 DEF Turn, EarlyZTurn
  <1>8. pixel' \in PixelTypes
    BY <1>6, <1>7 DEF DrawInv, PixelOK, FbTypeOK, PixelTypes
  <1>9. PixelOK'
    BY <1>1, <1>8 DEF DrawInv, PixelOK, FbTypeOK, PixelTypes
  <1> QED
    BY <1>2, <1>9

LEMMA NextDrawInv == DrawInv /\ [FrameNext]_frameVars => DrawInv' /\ DrawStep
  <1> SUFFICES ASSUME DrawInv, [FrameNext]_frameVars PROVE DrawInv' /\ DrawStep
    OBVIOUS
  <1>1. FrameInv'
    BY NextFrameInv DEF DrawInv
  <1>2. CASE UNCHANGED <<vars, fbVars, objectVars>>
    BY <1>1, <1>2 DEF DrawInv, HistoryOK, ObjectsOK, PixelOK, FbTypeOK, Remembered, DrawStep, Drawn,
                      vars, fbVars, objectVars, program
  <1>3. CASE Flush /\ UNCHANGED <<fbVars, pipeVars, objectVars>>
    <2>1. HistoryOK'
      <3>1. Len(issued) \in Nat
        BY DEF DrawInv, HistoryOK
      <3> QED
        BY <1>3, <3>1 DEF Flush, DrawInv, HistoryOK
    <2> QED
      BY <1>1, <1>3, <2>1 DEF Flush, DrawInv, ObjectsOK, PixelOK, FbTypeOK, Remembered, DrawStep, Drawn,
                              fbVars, objectVars, program
  <1>4. ASSUME NEW v \in program.pipelines, SetPipeline(v) PROVE DrawInv' /\ DrawStep
    BY <1>1, <1>4, SetPipelineKeeps DEF DrawInv, DrawStep, Drawn, SetPipeline, Set
  <1>5. ASSUME NEW a, LetGo(a) PROVE DrawInv' /\ DrawStep
    BY <1>1, <1>5, LetGoKeeps DEF DrawInv, DrawStep, Drawn, LetGo, vars
  <1>6. CASE Commanded
    BY <1>1, <1>6, CommandedKeeps DEF DrawInv
  <1>7. CASE Turn
    BY <1>1, <1>7, TurnKeeps DEF DrawInv
  <1>8. CASE UNCHANGED frameVars
    BY <1>2, <1>8 DEF frameVars
  <1> QED
    BY <1>2, <1>3, <1>4, <1>5, <1>6, <1>7, <1>8 DEF FrameNext, Application, Setters

(* Every variable of the composition keeps its type; a stencil is a byte,  *)
(* and the depth-stencil state that is set is alive.                       *)
THEOREM FrameTypeOK == FrameSpec => []TypeOK
  <1>1. DrawInv => TypeOK
    BY CurrentType DEF DrawInv, FrameInv, HistoryOK, ObjectsOK, PixelOK, TypeOK
  <1> QED
    BY <1>1, InitDrawInv, NextDrawInv, PTL DEF FrameSpec

(* What a draw leaves of its pixel is what the descriptor it was issued    *)
(* under says, whatever was drawn before it.                               *)
THEOREM DrawsAreExact == FrameSpec => DrawnExact
  <1>1. DrawInv /\ [FrameNext]_frameVars =>
          [Drawn /\ Plain(Current.desc) /\ ~Mistaken =>
             pixel' = StandardPixel(Current, FragmentsOf(state'), Len(issued'))]_frameVars
    BY NextDrawInv DEF DrawStep
  <1> QED
    BY <1>1, InitDrawInv, NextDrawInv, PTL DEF FrameSpec, DrawnExact
=============================================================================
