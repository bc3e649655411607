---------------------------- MODULE ReplayProofs ----------------------------
(***************************************************************************)
(* Proofs about module Replay, for any databases in any order, any         *)
(* statements of the fifteen kinds, any number of them logged.             *)
(*                                                                         *)
(* The argument: a statement leaves a sound instance sound (no name leads  *)
(* nowhere, no id is in two stores), so replays are sound too; a statement *)
(* that is not about pipelines does the same over every registry; hence    *)
(* what recovery makes of a database that is alone with its pipelines is   *)
(* what its own log makes of its own checkpoint, and the invariant says    *)
(* that this is what is in its memory.                                     *)
(***************************************************************************)
EXTENDS Replay, SequenceTheorems, FiniteSetTheorems, TLAPS

-----------------------------------------------------------------------------
(* A set of numbers has a least one.                                        *)
LEMMA LeastOf ==
  ASSUME NEW T \in SUBSET Nat, T # {}
  PROVE  \E n \in T : \A k \in T : n <= k
<1> DEFINE R == OpToRel(<, Nat)
<1>1. IsWellFoundedOn(R, Nat)
  BY NatLessThanWellFounded
<1>2. \A x, y \in Nat : << x, y >> \in R <=> x < y
  BY DEF OpToRel
<1> HIDE DEF R
<1>3. PICK x \in T : \A y \in T : ~ (<< y, x >> \in R)
  BY <1>1, WFMin
<1>4. T \subseteq Nat /\ x \in Nat
  OBVIOUS
<1>5. \A k \in T : ~ (k < x)
  BY <1>2, <1>3, <1>4
<1>6. \A k \in T : x <= k
  BY <1>4, <1>5
<1> QED BY <1>6

(* What holds of 0 and goes on from each number to the next holds up to m.  *)
LEMMA Climb ==
  ASSUME NEW m \in Nat, NEW G, 0 \in G, \A n \in 1 .. m : n - 1 \in G => n \in G
  PROVE  \A n \in 0 .. m : n \in G
<1> DEFINE T == {n \in 0 .. m : n \notin G}
<1>1. T \in SUBSET Nat
  OBVIOUS
<1>2. SUFFICES ASSUME T # {} PROVE FALSE
  OBVIOUS
<1>3. PICK n \in T : \A k \in T : n <= k
  BY <1>1, <1>2, LeastOf
<1>4. n # 0 /\ n \in 1 .. m /\ n - 1 \in 0 .. m
  BY <1>3
<1>5. n - 1 \in G
  BY <1>3, <1>4
<1> QED BY <1>3, <1>4, <1>5

-----------------------------------------------------------------------------
(* Instances.                                                               *)

(* A map is a function.                                                     *)
IsMap(f) == f = [x \in DOMAIN f |-> f[x]]

(* An instance has its six maps ...                                         *)
Shaped(inst) ==
  inst = [ names |-> inst.names, store |-> inst.store, lazy |-> inst.lazy,
           tensorDatasets |-> inst.tensorDatasets, vars |-> inst.vars,
           records |-> inst.records ]

(* ... ids from a range, none of them in both stores ...                    *)
Numbered(inst) ==
  /\ \E n \in Nat : DOMAIN inst.store \cup DOMAIN inst.lazy \subseteq 1 .. n
  /\ DOMAIN inst.store \cap DOMAIN inst.lazy = {}

(* ... and every name and every column leads somewhere.                     *)
Sound(inst) ==
  /\ Shaped(inst) /\ Numbered(inst) /\ NamesResolve(inst)
  /\ \A d \in DOMAIN inst.tensorDatasets : Resolves(inst, inst.tensorDatasets[d])

(* One place of a map changes.                                              *)
LEMMA WithMap ==
  ASSUME NEW f, NEW x, NEW y
  PROVE  /\ IsMap(With(f, x, y)) /\ DOMAIN With(f, x, y) = DOMAIN f \cup {x}
         /\ With(f, x, y)[x] = y
         /\ \A z \in DOMAIN f \ {x} : With(f, x, y)[z] = f[z]
BY DEF With, IsMap

(* One map laid over another.                                               *)
LEMMA OverMap ==
  ASSUME NEW f, NEW g
  PROVE  /\ IsMap(Over(f, g)) /\ DOMAIN Over(f, g) = DOMAIN f \cup DOMAIN g
         /\ \A z \in DOMAIN f : Over(f, g)[z] = f[z]
         /\ \A z \in DOMAIN g \ DOMAIN f : Over(f, g)[z] = g[z]
BY DEF Over, IsMap

(* A map without some of its places.                                        *)
LEMMA WithoutMap ==
  ASSUME NEW f, NEW S
  PROVE  /\ IsMap(Without(f, S)) /\ DOMAIN Without(f, S) = DOMAIN f \ S
         /\ \A z \in DOMAIN f \ S : Without(f, S)[z] = f[z]
BY DEF Without, Restrict, IsMap

(* The empty map.                                                           *)
LEMMA NothingMap == IsMap(Nothing) /\ DOMAIN Nothing = {}
BY DEF Nothing, IsMap

(* Over nothing a map is itself, and nothing over a map is the map.         *)
LEMMA OverNothing ==
  ASSUME NEW f, IsMap(f)
  PROVE  Over(f, Nothing) = f /\ Over(Nothing, f) = f
BY DEF Over, Nothing, IsMap

(* A fresh id is in neither store.                                          *)
LEMMA Fresh ==
  ASSUME NEW inst, Numbered(inst)
  PROVE  /\ FreshId(inst) \in Nat
         /\ FreshId(inst) \notin DOMAIN inst.store \cup DOMAIN inst.lazy
         /\ FreshId(inst) \in 1 .. FreshId(inst)
         /\ DOMAIN inst.store \cup DOMAIN inst.lazy \subseteq 1 .. FreshId(inst)
<1> DEFINE S == DOMAIN inst.store \cup DOMAIN inst.lazy \cup {0}
           T == {n \in Nat : \A y \in S : n >= y}
<1>1. PICK n \in Nat : DOMAIN inst.store \cup DOMAIN inst.lazy \subseteq 1 .. n
  BY DEF Numbered
<1>2. S \subseteq Nat /\ 0 \in S /\ n \in T /\ T \in SUBSET Nat
  BY <1>1
<1> HIDE DEF S
<1>3. PICK m \in T : \A k \in T : m <= k
  BY <1>2, LeastOf
<1>4. m \in Nat /\ \A y \in S : m >= y
  BY <1>3
<1>5. m \in S
  <2>1. SUFFICES ASSUME m \notin S PROVE FALSE
    OBVIOUS
  <2>2. m # 0 /\ m - 1 \in Nat
    BY <1>2, <1>4, <2>1
  <2>3. \A y \in S : m - 1 >= y
    BY <1>2, <1>4, <2>1, <2>2
  <2>4. m - 1 \in T
    BY <2>2, <2>3
  <2> QED BY <1>3, <1>4, <2>4
<1>6. Max(S) \in S /\ \A y \in S : Max(S) >= y
  BY <1>4, <1>5 DEF Max
<1>7. FreshId(inst) = 1 + Max(S)
  BY DEF FreshId, S
<1>8. Max(S) \in Nat /\ \A y \in S : y \in Nat /\ Max(S) >= y
  BY <1>2, <1>6
<1>9. \A y \in S : y <= FreshId(inst) /\ y # FreshId(inst)
  BY <1>7, <1>8
<1>10. \A y \in DOMAIN inst.store \cup DOMAIN inst.lazy : y \in S /\ y \in 1 .. n
  BY <1>1 DEF S
<1> QED BY <1>7, <1>8, <1>9, <1>10

-----------------------------------------------------------------------------
(* Names and tensors.                                                       *)

(* What a name needs to lead somewhere.                                     *)
Leads(inst, entry) ==
  entry.id \in DOMAIN (IF entry.kind = "lazy" THEN inst.lazy ELSE inst.store)

(* NamesResolve, name by name.                                              *)
LEMMA NamesLead ==
  ASSUME NEW inst
  PROVE  NamesResolve(inst) <=> \A name \in DOMAIN inst.names : Leads(inst, inst.names[name])
BY DEF NamesResolve, Leads

(* A new instance is sound.                                                 *)
LEMMA NewSound == Sound(NewInstance)
<1>1. /\ Shaped(NewInstance) /\ NewInstance.names = Nothing /\ NewInstance.store = Nothing
      /\ NewInstance.lazy = Nothing /\ NewInstance.tensorDatasets = Nothing
  BY DEF NewInstance, Shaped
<1>2. Numbered(NewInstance)
  <2>1. 0 \in Nat /\ DOMAIN NewInstance.store \cup DOMAIN NewInstance.lazy \subseteq 1 .. 0
    BY <1>1, NothingMap
  <2> QED BY <1>1, <2>1, NothingMap DEF Numbered
<1> QED BY <1>1, <1>2, NothingMap DEF Sound, NamesResolve

(* What InsertNamed returns.                                                *)
LEMMA Inserted ==
  ASSUME NEW inst, Sound(inst), NEW name, NEW tensor, NEW kind
  PROVE  LET id == FreshId(inst)
             new == InsertNamed(inst, name, tensor, kind)
         IN /\ Shaped(new) /\ Numbered(new)
            /\ new.names = With(inst.names, name, [id |-> id, kind |-> kind])
            /\ new.store = With(inst.store, id, tensor)
            /\ new.lazy = inst.lazy /\ new.tensorDatasets = inst.tensorDatasets
            /\ new.vars = inst.vars /\ new.records = inst.records
<1> DEFINE id == FreshId(inst)
           new == InsertNamed(inst, name, tensor, kind)
<1>1. Shaped(inst) /\ Numbered(inst)
  BY DEF Sound
<1>2. /\ new.names = With(inst.names, name, [id |-> id, kind |-> kind])
      /\ new.store = With(inst.store, id, tensor)
      /\ new.lazy = inst.lazy /\ new.tensorDatasets = inst.tensorDatasets
      /\ new.vars = inst.vars /\ new.records = inst.records /\ Shaped(new)
  <2>1. new = [inst EXCEPT !.store = With(@, id, tensor),
                           !.names = With(@, name, [id |-> id, kind |-> kind])]
    BY DEF InsertNamed
  <2> HIDE DEF new, id
  <2> QED BY <1>1, <2>1 DEF Shaped
<1>3. Numbered(new)
  <2>1. DOMAIN new.store = DOMAIN inst.store \cup {id} /\ DOMAIN new.lazy = DOMAIN inst.lazy
    BY <1>2 DEF With
  <2>2. /\ id \in Nat /\ id \notin DOMAIN inst.store \cup DOMAIN inst.lazy /\ id \in 1 .. id
        /\ DOMAIN inst.store \cup DOMAIN inst.lazy \subseteq 1 .. id
    BY <1>1, Fresh
  <2>3. DOMAIN inst.store \cap DOMAIN inst.lazy = {}
    BY <1>1 DEF Numbered
  <2> HIDE DEF id, new
  <2>4. DOMAIN new.store \cup DOMAIN new.lazy \subseteq 1 .. id
    BY <2>1, <2>2
  <2>5. DOMAIN new.store \cap DOMAIN new.lazy = {}
    BY <2>1, <2>2, <2>3
  <2> QED BY <2>2, <2>4, <2>5 DEF Numbered
<1> QED BY <1>2, <1>3

(* A store that only grew resolves what it resolved.                        *)
LEMMA StillResolves ==
  ASSUME NEW inst, NEW new, NEW columns,
         DOMAIN inst.store \subseteq DOMAIN new.store, Resolves(inst, columns)
  PROVE  Resolves(new, columns)
BY DEF Resolves

(* A new tensor under a name, which is not a lazy one.                      *)
LEMMA InsertSound ==
  ASSUME NEW inst, Sound(inst), NEW name, NEW tensor, NEW kind, kind # "lazy"
  PROVE  Sound(InsertNamed(inst, name, tensor, kind))
<1>1. PICK id, new : id = FreshId(inst) /\ new = InsertNamed(inst, name, tensor, kind)
  OBVIOUS
<1>2. /\ Shaped(new) /\ Numbered(new)
      /\ new.names = With(inst.names, name, [id |-> id, kind |-> kind])
      /\ new.store = With(inst.store, id, tensor)
      /\ new.lazy = inst.lazy /\ new.tensorDatasets = inst.tensorDatasets
  BY <1>1, Inserted
<1>3. DOMAIN new.store = DOMAIN inst.store \cup {id} /\ DOMAIN new.names = DOMAIN inst.names \cup {name}
  BY <1>2 DEF With
<1>4. \A n \in DOMAIN new.names : Leads(new, new.names[n])
  <2>1. SUFFICES ASSUME NEW n \in DOMAIN new.names PROVE Leads(new, new.names[n])
    OBVIOUS
  <2>2. CASE n = name
    <3>1. new.names[n] = [id |-> id, kind |-> kind]
      BY <1>2, <2>2 DEF With
    <3> QED BY <1>3, <3>1 DEF Leads
  <2>3. CASE n # name
    <3>1. n \in DOMAIN inst.names /\ new.names[n] = inst.names[n]
      BY <1>2, <1>3, <2>1, <2>3 DEF With
    <3>2. Leads(inst, inst.names[n])
      BY <3>1, NamesLead DEF Sound
    <3> QED BY <1>2, <1>3, <3>1, <3>2 DEF Leads
  <2> QED BY <2>2, <2>3
<1>5. \A d \in DOMAIN new.tensorDatasets : Resolves(new, new.tensorDatasets[d])
  BY <1>2, <1>3, StillResolves DEF Sound
<1>6. Sound(new)
  BY <1>2, <1>4, <1>5, NamesLead DEF Sound
<1> QED BY <1>1, <1>6

(* A name of a tensor is not lazy: lazy ids are in no store.                *)
LEMMA TensorsAreEager ==
  ASSUME NEW inst, Sound(inst), NEW name, HasTensor(inst, name)
  PROVE  inst.names[name].kind # "lazy"
<1>1. name \in DOMAIN inst.names /\ inst.names[name].id \in DOMAIN inst.store
  BY DEF HasTensor
<1>2. Leads(inst, inst.names[name]) /\ DOMAIN inst.store \cap DOMAIN inst.lazy = {}
  BY <1>1, NamesLead DEF Sound, Numbered
<1> QED BY <1>1, <1>2 DEF Leads

(* Another entry that leads somewhere.                                      *)
LEMMA NameSound ==
  ASSUME NEW inst, Sound(inst), NEW name, NEW entry, Leads(inst, entry)
  PROVE  Sound([inst EXCEPT !.names = With(@, name, entry)])
<1>1. PICK new : new = [inst EXCEPT !.names = With(@, name, entry)]
  OBVIOUS
<1>2. /\ Shaped(new) /\ new.names = With(inst.names, name, entry) /\ new.store = inst.store
      /\ new.lazy = inst.lazy /\ new.tensorDatasets = inst.tensorDatasets
  BY <1>1 DEF Sound, Shaped
<1>3. \A n \in DOMAIN new.names : Leads(new, new.names[n])
  <2>1. SUFFICES ASSUME NEW n \in DOMAIN new.names PROVE Leads(new, new.names[n])
    OBVIOUS
  <2>2. n = name => new.names[n] = entry
    BY <1>2 DEF With
  <2>3. n # name => n \in DOMAIN inst.names /\ new.names[n] = inst.names[n]
    BY <1>2 DEF With
  <2>4. n # name => Leads(inst, new.names[n])
    BY <2>3, NamesLead DEF Sound
  <2> QED BY <1>2, <2>2, <2>4 DEF Leads
<1>4. Sound(new)
  BY <1>2, <1>3, NamesLead DEF Sound, Numbered, Resolves
<1> QED BY <1>1, <1>4

(* A change that leaves names, stores and tensor-first datasets alone.      *)
LEMMA RestSound ==
  ASSUME NEW inst, Sound(inst), NEW new, Shaped(new), new.names = inst.names,
         new.store = inst.store, new.lazy = inst.lazy,
         \A d \in DOMAIN new.tensorDatasets : Resolves(inst, new.tensorDatasets[d])
  PROVE  Sound(new)
BY NamesLead DEF Sound, Numbered, Resolves, NamesResolve

-----------------------------------------------------------------------------
(* The statements.                                                          *)

(* LET name = SCALE source: an operand that is a tensor is not lazy, nor is *)
(* what it becomes.                                                         *)
LEMMA UnarySound ==
  ASSUME NEW inst, Sound(inst), NEW p, NEW s
  PROVE  Sound(EvalUnary(inst, p, s).inst) /\ EvalUnary(inst, p, s).pipes = p
<1>1. CASE HasTensor(inst, s.source)
  <2>1. inst.names[s.source].kind # "lazy"
    BY <1>1, TensorsAreEager
  <2> QED BY <1>1, <2>1, InsertSound DEF EvalUnary, Ok
<1>2. CASE ~HasTensor(inst, s.source)
  BY <1>2 DEF EvalUnary, Error
<1> QED BY <1>1, <1>2

(* LAZY LET: the new name leads to the new expression.                      *)
LEMMA LazySound ==
  ASSUME NEW inst, Sound(inst), NEW p, NEW s
  PROVE  Sound(EvalLazyUnary(inst, p, s).inst) /\ EvalLazyUnary(inst, p, s).pipes = p
<1> DEFINE Made(id, x) ==
             [inst EXCEPT !.names = With(@, s.name, [id |-> id, kind |-> "lazy"]),
                          !.lazy = With(@, id, Scaled(x))]
<1>1. ASSUME NEW x PROVE Sound(Made(FreshId(inst), x))
  <2>1. PICK id, new : id = FreshId(inst) /\ new = Made(id, x)
    OBVIOUS
  <2>2. /\ Shaped(new) /\ new.names = With(inst.names, s.name, [id |-> id, kind |-> "lazy"])
        /\ new.store = inst.store /\ new.lazy = With(inst.lazy, id, Scaled(x))
        /\ new.tensorDatasets = inst.tensorDatasets
    BY <2>1 DEF Sound, Shaped
  <2>3. /\ id \in Nat /\ id \notin DOMAIN inst.store \cup DOMAIN inst.lazy /\ id \in 1 .. id
        /\ DOMAIN inst.store \cup DOMAIN inst.lazy \subseteq 1 .. id
    BY <2>1, Fresh DEF Sound
  <2>4. DOMAIN inst.store \cap DOMAIN inst.lazy = {}
    BY DEF Sound, Numbered
  <2>5. DOMAIN new.lazy = DOMAIN inst.lazy \cup {id}
    BY <2>2 DEF With
  <2>6. Numbered(new)
    <3>1. DOMAIN new.store \cup DOMAIN new.lazy \subseteq 1 .. id
      BY <2>2, <2>3, <2>5
    <3> QED BY <2>2, <2>3, <2>4, <2>5, <3>1 DEF Numbered
  <2>7. \A n \in DOMAIN new.names : Leads(new, new.names[n])
    <3>1. SUFFICES ASSUME NEW n \in DOMAIN new.names PROVE Leads(new, new.names[n])
      OBVIOUS
    <3>2. n = s.name => new.names[n] = [id |-> id, kind |-> "lazy"]
      BY <2>2 DEF With
    <3>3. n # s.name => n \in DOMAIN inst.names /\ new.names[n] = inst.names[n]
      BY <2>2 DEF With
    <3>4. n # s.name => Leads(inst, new.names[n])
      BY <3>3, NamesLead DEF Sound
    <3> QED BY <2>2, <2>5, <3>2, <3>4 DEF Leads
  <2>8. \A d \in DOMAIN new.tensorDatasets : Resolves(new, new.tensorDatasets[d])
    BY <2>2 DEF Sound, Resolves
  <2>9. Sound(new)
    BY <2>2, <2>6, <2>7, <2>8, NamesLead DEF Sound
  <2> QED BY <2>1, <2>9
<1>2. CASE HasExpression(inst, s.source)
  BY <1>1, <1>2 DEF EvalLazyUnary, Ok
<1>3. CASE ~HasExpression(inst, s.source) /\ ~IsLazy(inst, s.source) /\ HasTensor(inst, s.source)
  BY <1>1, <1>3 DEF EvalLazyUnary, Ok
<1>4. CASE ~HasExpression(inst, s.source) /\ ~(~IsLazy(inst, s.source) /\ HasTensor(inst, s.source))
  BY <1>4 DEF EvalLazyUnary, Error
<1> QED BY <1>2, <1>3, <1>4

-----------------------------------------------------------------------------
(* SHOW leaves an instance sound ...                                        *)
LEMMA EvaluatedSound ==
  ASSUME NEW inst, Sound(inst), NEW name
  PROVE  Sound(Evaluated(inst, name))
BY InsertSound DEF Evaluated

(* ... and tells clients what it told them before.                          *)
LEMMA EvaluatedContent ==
  ASSUME NEW inst, Sound(inst), NEW name
  PROVE  Content(Evaluated(inst, name)) = Content(inst)
<1>1. CASE ~HasExpression(inst, name)
  BY <1>1 DEF Evaluated
<1>2. CASE HasExpression(inst, name)
  <2>1. PICK id, tensor, new :
          /\ id = FreshId(inst) /\ tensor = inst.lazy[inst.names[name].id]
          /\ new = InsertNamed(inst, name, tensor, "normal")
    OBVIOUS
  <2>2. /\ new.names = With(inst.names, name, [id |-> id, kind |-> "normal"])
        /\ new.store = With(inst.store, id, tensor)
        /\ new.lazy = inst.lazy /\ new.tensorDatasets = inst.tensorDatasets
        /\ new.vars = inst.vars /\ new.records = inst.records
    BY <2>1, Inserted
  <2>3. id \notin DOMAIN inst.store
    BY <2>1, Fresh DEF Sound
  <2>4. name \in DOMAIN inst.names /\ inst.names[name].kind = "lazy"
    BY <1>2 DEF HasExpression, IsLazy
  <2>5. DOMAIN new.names = DOMAIN inst.names
    BY <2>2, <2>4 DEF With
  <2>6. \A i \in DOMAIN inst.store : new.store[i] = inst.store[i]
    BY <2>2, <2>3 DEF With
  <2>7. \A n \in DOMAIN inst.names : ContentOf(new, n) = ContentOf(inst, n)
    <3>1. SUFFICES ASSUME NEW n \in DOMAIN inst.names PROVE ContentOf(new, n) = ContentOf(inst, n)
      OBVIOUS
    <3>2. CASE n = name
      <4>1. new.names[n] = [id |-> id, kind |-> "normal"] /\ new.store[id] = tensor
        BY <2>2, <3>2 DEF With
      <4>2. ContentOf(new, n) = tensor
        BY <4>1 DEF ContentOf
      <4> QED BY <2>1, <2>4, <3>2, <4>2 DEF ContentOf
    <3>3. CASE n # name
      <4>1. new.names[n] = inst.names[n]
        BY <2>2, <3>3 DEF With
      <4>2. Leads(inst, inst.names[n])
        BY NamesLead DEF Sound
      <4> QED BY <2>2, <2>6, <4>1, <4>2 DEF ContentOf, Leads
    <3> QED BY <3>2, <3>3
  <2>8. \A d \in DOMAIN inst.tensorDatasets :
          ColumnContents(new, inst.tensorDatasets[d]) = ColumnContents(inst, inst.tensorDatasets[d])
    BY <2>6 DEF ColumnContents, Sound, Resolves
  <2>9. Content(new) = Content(inst)
    BY <2>2, <2>5, <2>7, <2>8 DEF Content
  <2> QED BY <1>2, <2>1, <2>9 DEF Evaluated
<1> QED BY <1>1, <1>2

(* A SHOW that finds nothing has changed nothing.                           *)
LEMMA ShowFails ==
  ASSUME NEW inst, Sound(inst), NEW p, NEW s, ~Show(inst, p, s).ok
  PROVE  Show(inst, p, s).inst = inst
<1>1. CASE ~HasExpression(inst, s.name)
  BY <1>1 DEF Show, Evaluated, Ok, Error
<1>2. CASE HasExpression(inst, s.name)
  <2>1. PICK id, tensor, new :
          /\ id = FreshId(inst) /\ tensor = inst.lazy[inst.names[s.name].id]
          /\ new = InsertNamed(inst, s.name, tensor, "normal")
    OBVIOUS
  <2>2. /\ new.names = With(inst.names, s.name, [id |-> id, kind |-> "normal"])
        /\ new.store = With(inst.store, id, tensor)
    BY <2>1, Inserted
  <2>3. /\ s.name \in DOMAIN new.names /\ new.names[s.name] = [id |-> id, kind |-> "normal"]
        /\ id \in DOMAIN new.store
    BY <2>2 DEF With
  <2>4. HasTensor(new, s.name)
    BY <2>3 DEF HasTensor
  <2>5. Evaluated(inst, s.name) = new
    BY <1>2, <2>1 DEF Evaluated
  <2> QED BY <2>4, <2>5 DEF Show, Ok
<1> QED BY <1>1, <1>2

(* SHOW, found or not.                                                      *)
LEMMA ShowSound ==
  ASSUME NEW inst, Sound(inst), NEW p, NEW s
  PROVE  /\ Sound(Show(inst, p, s).inst) /\ Show(inst, p, s).pipes = p
         /\ Content(Show(inst, p, s).inst) = Content(inst)
<1>1. Show(inst, p, s).inst = Evaluated(inst, s.name) /\ Show(inst, p, s).pipes = p
  BY DEF Show, Ok, Error
<1> QED BY <1>1, EvaluatedSound, EvaluatedContent

(* BIND, whichever of the four it binds.                                    *)
LEMMA BindSound ==
  ASSUME NEW inst, Sound(inst), NEW p, NEW s
  PROVE  Sound(Bind(inst, p, s).inst) /\ Bind(inst, p, s).pipes = p
<1>0. Bind(inst, p, s).pipes = p
  BY DEF Bind, Ok, Error
<1>1. CASE s.source \in DOMAIN inst.vars
  <2>1. PICK new : new = [inst EXCEPT !.vars = With(@, s.name, @[s.source])]
    OBVIOUS
  <2>2. /\ Shaped(new) /\ new.names = inst.names /\ new.store = inst.store
        /\ new.lazy = inst.lazy /\ new.tensorDatasets = inst.tensorDatasets
    BY <2>1 DEF Sound, Shaped
  <2>3. Sound(new)
    BY <2>2, RestSound DEF Sound
  <2> QED BY <1>0, <1>1, <2>1, <2>3 DEF Bind, Ok
<1>2. CASE s.source \notin DOMAIN inst.vars /\ s.source \in DOMAIN inst.names
  <2>1. Leads(inst, inst.names[s.source])
    BY <1>2, NamesLead DEF Sound
  <2>2. Sound([inst EXCEPT !.names = With(@, s.name, inst.names[s.source])])
    BY <2>1, NameSound
  <2>3. Bind(inst, p, s).inst = [inst EXCEPT !.names = With(@, s.name, inst.names[s.source])]
    BY <1>2 DEF Bind, Ok
  <2> QED BY <1>0, <2>2, <2>3
<1>3. CASE /\ s.source \notin DOMAIN inst.vars /\ s.source \notin DOMAIN inst.names
           /\ s.source \in DOMAIN inst.records
  <2>1. PICK new : new = [inst EXCEPT !.records = With(@, s.name, @[s.source])]
    OBVIOUS
  <2>2. /\ Shaped(new) /\ new.names = inst.names /\ new.store = inst.store
        /\ new.lazy = inst.lazy /\ new.tensorDatasets = inst.tensorDatasets
    BY <2>1 DEF Sound, Shaped
  <2>3. Sound(new)
    BY <2>2, RestSound DEF Sound
  <2> QED BY <1>0, <1>3, <2>1, <2>3 DEF Bind, Ok, Error
<1>4. CASE /\ s.source \notin DOMAIN inst.vars /\ s.source \notin DOMAIN inst.names
           /\ s.source \notin DOMAIN inst.records /\ s.source \in DOMAIN inst.tensorDatasets
  <2>1. PICK new : new = [inst EXCEPT !.tensorDatasets = Over(@, With(Nothing, s.name, @[s.source]))]
    OBVIOUS
  <2>2. /\ Shaped(new) /\ new.names = inst.names /\ new.store = inst.store /\ new.lazy = inst.lazy
        /\ new.tensorDatasets =
             Over(inst.tensorDatasets, With(Nothing, s.name, inst.tensorDatasets[s.source]))
    BY <2>1 DEF Sound, Shaped
  <2>3. \A d \in DOMAIN new.tensorDatasets :
          \E e \in DOMAIN inst.tensorDatasets : new.tensorDatasets[d] = inst.tensorDatasets[e]
    BY <1>4, <2>2 DEF Over, With, Nothing
  <2>4. \A d \in DOMAIN new.tensorDatasets : Resolves(inst, new.tensorDatasets[d])
    BY <2>3 DEF Sound
  <2>5. Sound(new)
    BY <2>2, <2>4, RestSound
  <2> QED BY <1>0, <1>4, <2>1, <2>5 DEF Bind, Ok
<1>5. CASE /\ s.source \notin DOMAIN inst.vars /\ s.source \notin DOMAIN inst.names
           /\ s.source \notin DOMAIN inst.records /\ s.source \notin DOMAIN inst.tensorDatasets
  BY <1>0, <1>5 DEF Bind, Error
<1> QED BY <1>1, <1>2, <1>3, <1>4, <1>5

(* LET var = dataset("name").                                               *)
LEMMA DatasetRefSound ==
  ASSUME NEW inst, Sound(inst), NEW p, NEW s
  PROVE  Sound(DatasetRef(inst, p, s).inst) /\ DatasetRef(inst, p, s).pipes = p
<1>1. PICK new : new = [inst EXCEPT !.tensorDatasets = Over(@, With(Nothing, s.dataset, Nothing)),
                                    !.vars = With(@, s.name, s.dataset)]
  OBVIOUS
<1>2. /\ Shaped(new) /\ new.names = inst.names /\ new.store = inst.store /\ new.lazy = inst.lazy
      /\ new.tensorDatasets = Over(inst.tensorDatasets, With(Nothing, s.dataset, Nothing))
  BY <1>1 DEF Sound, Shaped
<1>3. \A d \in DOMAIN new.tensorDatasets :
        \/ d \in DOMAIN inst.tensorDatasets /\ new.tensorDatasets[d] = inst.tensorDatasets[d]
        \/ new.tensorDatasets[d] = Nothing
  BY <1>2 DEF Over, With, Nothing
<1>4. Resolves(inst, Nothing)
  BY DEF Resolves, Nothing
<1>5. \A d \in DOMAIN new.tensorDatasets : Resolves(inst, new.tensorDatasets[d])
  BY <1>3, <1>4 DEF Sound
<1>6. Sound(new)
  BY <1>2, <1>5, RestSound
<1>7. DatasetRef(inst, p, s) = Ok(new, p)
  BY <1>1 DEF DatasetRef
<1> QED BY <1>6, <1>7 DEF Ok

(* ATTACH: the column leads to a tensor, and the copy for SELECT is beside  *)
(* the point.                                                               *)
LEMMA AttachSound ==
  ASSUME NEW inst, Sound(inst), NEW p, NEW s
  PROVE  Sound(Attach(inst, p, s).inst) /\ Attach(inst, p, s).pipes = p
<1>1. PICK name, columns, attached, added :
        /\ name = DatasetName(inst, s.dataset) /\ columns = inst.tensorDatasets[name]
        /\ attached = With(columns, s.column, inst.names[s.source].id)
        /\ added = [inst EXCEPT !.tensorDatasets = With(@, name, attached)]
  OBVIOUS
<1>2. CASE Attach(inst, p, s) = Error(inst, p)
  BY <1>2 DEF Error
<1>3. CASE /\ HasTensor(inst, s.source) /\ name \in DOMAIN inst.tensorDatasets
           /\ \/ Attach(inst, p, s) =
                   Ok([added EXCEPT !.records = With(@, name, ColumnContents(added, attached))], p)
              \/ Attach(inst, p, s) = Error(added, p)
  <2>1. /\ Shaped(added) /\ added.names = inst.names /\ added.store = inst.store
        /\ added.lazy = inst.lazy /\ added.tensorDatasets = With(inst.tensorDatasets, name, attached)
    BY <1>1 DEF Sound, Shaped
  <2>2. inst.names[s.source].id \in DOMAIN inst.store
    BY <1>3 DEF HasTensor
  <2>3. Resolves(inst, columns)
    BY <1>1, <1>3 DEF Sound
  <2>4. Resolves(inst, attached)
    BY <1>1, <2>2, <2>3 DEF Resolves, With
  <2>5. \A d \in DOMAIN added.tensorDatasets :
          \/ d \in DOMAIN inst.tensorDatasets /\ added.tensorDatasets[d] = inst.tensorDatasets[d]
          \/ added.tensorDatasets[d] = attached
    BY <2>1 DEF With
  <2>6. \A d \in DOMAIN added.tensorDatasets : Resolves(inst, added.tensorDatasets[d])
    BY <2>4, <2>5 DEF Sound
  <2>7. Sound(added)
    BY <2>1, <2>6, RestSound
  <2>8. PICK new : new = [added EXCEPT !.records = With(@, name, ColumnContents(added, attached))]
    OBVIOUS
  <2>9. /\ Shaped(new) /\ new.names = added.names /\ new.store = added.store
        /\ new.lazy = added.lazy /\ new.tensorDatasets = added.tensorDatasets
    BY <2>1, <2>8 DEF Shaped
  <2>10. Sound(new)
    BY <2>7, <2>9, RestSound DEF Sound
  <2> QED BY <1>3, <2>7, <2>8, <2>10 DEF Ok, Error
<1> QED BY <1>1, <1>2, <1>3 DEF Attach

(* LET name = dataset.column.                                               *)
LEMMA ColumnSound ==
  ASSUME NEW inst, Sound(inst), NEW p, NEW s
  PROVE  Sound(EvalColumnAccess(inst, p, s).inst) /\ EvalColumnAccess(inst, p, s).pipes = p
<1>1. PICK dataset : dataset = DatasetName(inst, s.dataset)
  OBVIOUS
<1>2. CASE dataset \in DOMAIN inst.tensorDatasets /\ s.column \in DOMAIN inst.tensorDatasets[dataset]
  <2>1. PICK entry : entry = [id |-> inst.tensorDatasets[dataset][s.column], kind |-> "normal"]
    OBVIOUS
  <2>2. EvalColumnAccess(inst, p, s) = Ok([inst EXCEPT !.names = With(@, s.name, entry)], p)
    BY <1>1, <1>2, <2>1 DEF EvalColumnAccess
  <2>3. Leads(inst, entry)
    BY <1>2, <2>1 DEF Leads, Sound, Resolves
  <2> QED BY <2>2, <2>3, NameSound DEF Ok
<1>3. CASE dataset \notin DOMAIN inst.tensorDatasets /\ EvalColumnAccess(inst, p, s) # Error(inst, p)
  <2>1. EvalColumnAccess(inst, p, s) =
          Ok(InsertNamed(inst, s.name, inst.records[dataset][s.column], "normal"), p)
    BY <1>1, <1>3 DEF EvalColumnAccess, Nothing
  <2> QED BY <2>1, InsertSound DEF Ok
<1>4. CASE EvalColumnAccess(inst, p, s) = Error(inst, p)
  BY <1>4 DEF Error
<1> QED BY <1>1, <1>2, <1>3, <1>4 DEF EvalColumnAccess

-----------------------------------------------------------------------------
(* Statements about record datasets leave names and tensors alone.          *)
LEMMA CreateSound ==
  ASSUME NEW inst, Sound(inst), NEW p, NEW s
  PROVE  Sound(CreateDataset(inst, p, s).inst) /\ CreateDataset(inst, p, s).pipes = p
<1>1. PICK created : created = With(Nothing, s.column, [holds |-> 0, rank |-> 1, rows |-> 0])
  OBVIOUS
<1>2. PICK new : new = [inst EXCEPT !.records = With(@, s.name, created)]
  OBVIOUS
<1>3. /\ Shaped(new) /\ new.names = inst.names /\ new.store = inst.store
      /\ new.lazy = inst.lazy /\ new.tensorDatasets = inst.tensorDatasets
  BY <1>2 DEF Sound, Shaped
<1>4. Sound(new)
  BY <1>3, RestSound DEF Sound
<1>5. CreateDataset(inst, p, s) = Error(inst, p) \/ CreateDataset(inst, p, s) = Ok(new, p)
  BY <1>1, <1>2 DEF CreateDataset
<1> QED BY <1>4, <1>5 DEF Ok, Error

(* INSERT changes the columns of one record dataset.                        *)
LEMMA InsertRowSound ==
  ASSUME NEW inst, Sound(inst), NEW p, NEW s
  PROVE  Sound(InsertRow(inst, p, s).inst) /\ InsertRow(inst, p, s).pipes = p
<1>1. CASE s.name \notin DOMAIN inst.records
  BY <1>1 DEF InsertRow, Error
<1>2. CASE s.name \in DOMAIN inst.records
  <2>1. PICK new : InsertRow(inst, p, s) = Ok(new, p) /\
          \E rows : new = [inst EXCEPT !.records = rows]
    <3>1. PICK grown : InsertRow(inst, p, s) = Ok([inst EXCEPT !.records[s.name] = grown], p)
      BY <1>2 DEF InsertRow
    <3>2. [inst EXCEPT !.records[s.name] = grown] =
            [inst EXCEPT !.records = [inst.records EXCEPT ![s.name] = grown]]
      BY DEF Sound, Shaped
    <3> QED BY <3>1, <3>2
  <2>2. /\ Shaped(new) /\ new.names = inst.names /\ new.store = inst.store
        /\ new.lazy = inst.lazy /\ new.tensorDatasets = inst.tensorDatasets
    BY <2>1 DEF Sound, Shaped
  <2>3. Sound(new)
    BY <2>2, RestSound DEF Sound
  <2> QED BY <2>1, <2>3 DEF Ok
<1> QED BY <1>1, <1>2

(* DROP DATASET takes tensor-first datasets away and adds none.             *)
LEMMA DropDatasetSound ==
  ASSUME NEW inst, Sound(inst), NEW p, NEW s
  PROVE  Sound(DropDataset(inst, p, s).inst) /\ DropDataset(inst, p, s).pipes = p
<1>1. PICK new :
        new = [inst EXCEPT !.records = Without(@, {s.name}),
                           !.tensorDatasets = Without(@, {s.name}),
                           !.vars = Without(@, {v \in DOMAIN @ : @[v] = s.name})]
  OBVIOUS
<1>2. /\ Shaped(new) /\ new.names = inst.names /\ new.store = inst.store
      /\ new.lazy = inst.lazy /\ new.tensorDatasets = Without(inst.tensorDatasets, {s.name})
  BY <1>1 DEF Sound, Shaped
<1>3. \A d \in DOMAIN new.tensorDatasets :
        d \in DOMAIN inst.tensorDatasets /\ new.tensorDatasets[d] = inst.tensorDatasets[d]
  BY <1>2 DEF Without, Restrict
<1>4. Sound(new)
  BY <1>2, <1>3, RestSound DEF Sound
<1>5. DropDataset(inst, p, s) = Error(inst, p) \/ DropDataset(inst, p, s) = Ok(new, p)
  BY <1>1 DEF DropDataset
<1> QED BY <1>4, <1>5 DEF Ok, Error

(* APPLY PIPELINE writes one record dataset.                                *)
LEMMA ApplySound ==
  ASSUME NEW inst, Sound(inst), NEW p, NEW s
  PROVE  Sound(ApplyPipeline(inst, p, s).inst) /\ ApplyPipeline(inst, p, s).pipes = p
<1>1. CASE ApplyPipeline(inst, p, s) = Error(inst, p)
  BY <1>1 DEF Error
<1>2. CASE ApplyPipeline(inst, p, s) # Error(inst, p)
  <2>1. PICK result :
          ApplyPipeline(inst, p, s) = Ok([inst EXCEPT !.records = With(@, s.name, result)], p)
    BY <1>2 DEF ApplyPipeline
  <2>2. PICK new : new = [inst EXCEPT !.records = With(@, s.name, result)]
    OBVIOUS
  <2>3. /\ Shaped(new) /\ new.names = inst.names /\ new.store = inst.store
        /\ new.lazy = inst.lazy /\ new.tensorDatasets = inst.tensorDatasets
    BY <2>2 DEF Sound, Shaped
  <2>4. Sound(new)
    BY <2>3, RestSound DEF Sound
  <2> QED BY <2>1, <2>2, <2>4 DEF Ok
<1> QED BY <1>1, <1>2

(* RESET keeps the lazy store only.                                         *)
LEMMA ResetSound ==
  ASSUME NEW inst, Sound(inst), NEW p, NEW s
  PROVE  Sound(Reset(inst, p, s).inst) /\ Reset(inst, p, s).pipes = Nothing
<1>1. PICK new : new = [NewInstance EXCEPT !.lazy = inst.lazy]
  OBVIOUS
<1>2. /\ Shaped(new) /\ new.names = Nothing /\ new.store = Nothing
      /\ new.lazy = inst.lazy /\ new.tensorDatasets = Nothing
  BY <1>1 DEF NewInstance, Shaped
<1>3. Numbered(new)
  <2>1. PICK n \in Nat : DOMAIN inst.store \cup DOMAIN inst.lazy \subseteq 1 .. n
    BY DEF Sound, Numbered
  <2>2. DOMAIN new.store \cup DOMAIN new.lazy \subseteq 1 .. n
    BY <1>2, <2>1, NothingMap
  <2> QED BY <1>2, <2>2, NothingMap DEF Numbered
<1>4. Sound(new)
  BY <1>2, <1>3, NothingMap DEF Sound, NamesResolve
<1>5. Reset(inst, p, s) = Ok(new, Nothing)
  BY <1>1 DEF Reset
<1> QED BY <1>4, <1>5 DEF Ok

(* VECTOR is a new tensor under a name.                                     *)
LEMMA VectorSound ==
  ASSUME NEW inst, Sound(inst), NEW p, NEW s
  PROVE  Sound(Vector(inst, p, s).inst) /\ Vector(inst, p, s).pipes = p
BY InsertSound DEF Vector, Ok

(* Which function executes a statement.                                     *)
LEMMA Dispatched ==
  ASSUME NEW inst, NEW p, NEW s, s.op \in Operations
  PROVE  /\ s.op = "vector" => Execute(inst, p, s) = Vector(inst, p, s)
         /\ s.op = "let" => Execute(inst, p, s) = EvalUnary(inst, p, s)
         /\ s.op = "lazyLet" => Execute(inst, p, s) = EvalLazyUnary(inst, p, s)
         /\ s.op = "show" => Execute(inst, p, s) = Show(inst, p, s)
         /\ s.op = "bind" => Execute(inst, p, s) = Bind(inst, p, s)
         /\ s.op = "datasetRef" => Execute(inst, p, s) = DatasetRef(inst, p, s)
         /\ s.op = "attach" => Execute(inst, p, s) = Attach(inst, p, s)
         /\ s.op = "column" => Execute(inst, p, s) = EvalColumnAccess(inst, p, s)
         /\ s.op = "create" => Execute(inst, p, s) = CreateDataset(inst, p, s)
         /\ s.op = "insert" => Execute(inst, p, s) = InsertRow(inst, p, s)
         /\ s.op = "dropDataset" => Execute(inst, p, s) = DropDataset(inst, p, s)
         /\ s.op = "reset" => Execute(inst, p, s) = Reset(inst, p, s)
         /\ s.op = "definePipeline" => Execute(inst, p, s) = DefinePipeline(inst, p, s)
         /\ s.op = "dropPipeline" => Execute(inst, p, s) = DropPipeline(inst, p, s)
         /\ s.op = "applyPipeline" => Execute(inst, p, s) = ApplyPipeline(inst, p, s)
BY DEF Execute

(* A statement leaves a sound instance sound, also when it fails, and those *)
(* that are not about pipelines leave the pipelines.                        *)
LEMMA ExecuteSound ==
  ASSUME NEW inst, Sound(inst), NEW p, NEW s, s.op \in Operations
  PROVE  /\ Sound(Execute(inst, p, s).inst)
         /\ s.op \notin {"reset", "definePipeline", "dropPipeline"} => Execute(inst, p, s).pipes = p
<1>0. PICK r : r = Execute(inst, p, s)
  OBVIOUS
<1>1. s.op = "vector" => Sound(r.inst) /\ r.pipes = p
  BY <1>0, Dispatched, VectorSound
<1>2. s.op = "let" => Sound(r.inst) /\ r.pipes = p
  BY <1>0, Dispatched, UnarySound
<1>3. s.op = "lazyLet" => Sound(r.inst) /\ r.pipes = p
  BY <1>0, Dispatched, LazySound
<1>4. s.op = "show" => Sound(r.inst) /\ r.pipes = p
  BY <1>0, Dispatched, ShowSound
<1>5. s.op = "bind" => Sound(r.inst) /\ r.pipes = p
  BY <1>0, Dispatched, BindSound
<1>6. s.op = "datasetRef" => Sound(r.inst) /\ r.pipes = p
  BY <1>0, Dispatched, DatasetRefSound
<1>7. s.op = "attach" => Sound(r.inst) /\ r.pipes = p
  BY <1>0, Dispatched, AttachSound
<1>8. s.op = "column" => Sound(r.inst) /\ r.pipes = p
  BY <1>0, Dispatched, ColumnSound
<1>9. s.op = "create" => Sound(r.inst) /\ r.pipes = p
  BY <1>0, Dispatched, CreateSound
<1>10. s.op = "insert" => Sound(r.inst) /\ r.pipes = p
  BY <1>0, Dispatched, InsertRowSound
<1>11. s.op = "dropDataset" => Sound(r.inst) /\ r.pipes = p
  BY <1>0, Dispatched, DropDatasetSound
<1>12. s.op = "applyPipeline" => Sound(r.inst) /\ r.pipes = p
  BY <1>0, Dispatched, ApplySound
<1>13. s.op = "reset" => Sound(r.inst)
  BY <1>0, Dispatched, ResetSound
<1>14. s.op = "definePipeline" => Sound(r.inst)
  BY <1>0, Dispatched DEF DefinePipeline, Ok, Error
<1>15. s.op = "dropPipeline" => Sound(r.inst)
  <2>1. Sound(DropPipeline(inst, p, s).inst)
    BY DEF DropPipeline, Ok, Error
  <2> QED BY <1>0, <2>1, Dispatched
<1> QED BY <1>0, <1>1, <1>2, <1>3, <1>4, <1>5, <1>6, <1>7, <1>8,
           <1>9, <1>10, <1>11, <1>12, <1>13, <1>14, <1>15 DEF Operations

(* What a statement makes of the pipelines is a map again.                  *)
LEMMA ExecutePipes ==
  ASSUME NEW inst, Sound(inst), NEW p, IsMap(p), NEW s, s.op \in Operations
  PROVE  IsMap(Execute(inst, p, s).pipes)
<1>0. PICK r : r = Execute(inst, p, s)
  OBVIOUS
<1>1. CASE s.op = "definePipeline"
  <2>1. r.pipes = With(p, s.pipeline, s.limit)
    BY <1>0, <1>1, Dispatched DEF DefinePipeline, Ok
  <2>2. IsMap(With(p, s.pipeline, s.limit))
    BY WithMap
  <2> QED BY <1>0, <2>1, <2>2
<1>2. CASE s.op = "dropPipeline"
  <2>1. r.pipes = p \/ r.pipes = Without(p, {s.pipeline})
    BY <1>0, <1>2, Dispatched DEF DropPipeline, Ok, Error
  <2>2. IsMap(Without(p, {s.pipeline}))
    BY WithoutMap
  <2> QED BY <1>0, <2>1, <2>2
<1>3. CASE s.op = "reset"
  BY <1>3, Dispatched, ResetSound, NothingMap
<1>4. CASE s.op \notin {"reset", "definePipeline", "dropPipeline"}
  BY <1>4, ExecuteSound
<1> QED BY <1>1, <1>2, <1>3, <1>4

(* A statement that is not about pipelines does the same whichever there    *)
(* are.                                                                     *)
LEMMA ExecutePlain ==
  ASSUME NEW inst, NEW p, NEW q, NEW s, s.op \in Operations, s.op \notin PipelineOps
  PROVE  /\ Execute(inst, p, s).ok = Execute(inst, q, s).ok
         /\ Execute(inst, p, s).inst = Execute(inst, q, s).inst
<1>0. PICK r, t : r = Execute(inst, p, s) /\ t = Execute(inst, q, s)
  OBVIOUS
<1>1. s.op = "vector" => r.ok = t.ok /\ r.inst = t.inst
  <2>1. Vector(inst, p, s).ok = Vector(inst, q, s).ok /\ Vector(inst, p, s).inst = Vector(inst, q, s).inst
    BY DEF Vector, Ok, Error
  <2> QED BY <1>0, <2>1, Dispatched
<1>2. s.op = "let" => r.ok = t.ok /\ r.inst = t.inst
  <2>1. EvalUnary(inst, p, s).ok = EvalUnary(inst, q, s).ok /\ EvalUnary(inst, p, s).inst = EvalUnary(inst, q, s).inst
    BY DEF EvalUnary, Ok, Error
  <2> QED BY <1>0, <2>1, Dispatched
<1>3. s.op = "lazyLet" => r.ok = t.ok /\ r.inst = t.inst
  <2>1. EvalLazyUnary(inst, p, s).ok = EvalLazyUnary(inst, q, s).ok /\ EvalLazyUnary(inst, p, s).inst = EvalLazyUnary(inst, q, s).inst
    BY DEF EvalLazyUnary, Ok, Error
  <2> QED BY <1>0, <2>1, Dispatched
<1>4. s.op = "show" => r.ok = t.ok /\ r.inst = t.inst
  <2>1. Show(inst, p, s).ok = Show(inst, q, s).ok /\ Show(inst, p, s).inst = Show(inst, q, s).inst
    BY DEF Show, Ok, Error
  <2> QED BY <1>0, <2>1, Dispatched
<1>5. s.op = "bind" => r.ok = t.ok /\ r.inst = t.inst
  <2>1. Bind(inst, p, s).ok = Bind(inst, q, s).ok /\ Bind(inst, p, s).inst = Bind(inst, q, s).inst
    BY DEF Bind, Ok, Error
  <2> QED BY <1>0, <2>1, Dispatched
<1>6. s.op = "datasetRef" => r.ok = t.ok /\ r.inst = t.inst
  <2>1. DatasetRef(inst, p, s).ok = DatasetRef(inst, q, s).ok /\ DatasetRef(inst, p, s).inst = DatasetRef(inst, q, s).inst
    BY DEF DatasetRef, Ok, Error
  <2> QED BY <1>0, <2>1, Dispatched
<1>7. s.op = "attach" => r.ok = t.ok /\ r.inst = t.inst
  <2>1. Attach(inst, p, s).ok = Attach(inst, q, s).ok /\ Attach(inst, p, s).inst = Attach(inst, q, s).inst
    BY DEF Attach, Ok, Error
  <2> QED BY <1>0, <2>1, Dispatched
<1>8. s.op = "column" => r.ok = t.ok /\ r.inst = t.inst
  <2>1. EvalColumnAccess(inst, p, s).ok = EvalColumnAccess(inst, q, s).ok /\ EvalColumnAccess(inst, p, s).inst = EvalColumnAccess(inst, q, s).inst
    BY DEF EvalColumnAccess, Ok, Error
  <2> QED BY <1>0, <2>1, Dispatched
<1>9. s.op = "create" => r.ok = t.ok /\ r.inst = t.inst
  <2>1. CreateDataset(inst, p, s).ok = CreateDataset(inst, q, s).ok /\ CreateDataset(inst, p, s).inst = CreateDataset(inst, q, s).inst
    BY DEF CreateDataset, Ok, Error
  <2> QED BY <1>0, <2>1, Dispatched
<1>10. s.op = "insert" => r.ok = t.ok /\ r.inst = t.inst
  <2>1. InsertRow(inst, p, s).ok = InsertRow(inst, q, s).ok /\ InsertRow(inst, p, s).inst = InsertRow(inst, q, s).inst
    BY DEF InsertRow, Ok, Error
  <2> QED BY <1>0, <2>1, Dispatched
<1>11. s.op = "dropDataset" => r.ok = t.ok /\ r.inst = t.inst
  <2>1. DropDataset(inst, p, s).ok = DropDataset(inst, q, s).ok /\ DropDataset(inst, p, s).inst = DropDataset(inst, q, s).inst
    BY DEF DropDataset, Ok, Error
  <2> QED BY <1>0, <2>1, Dispatched
<1> QED BY <1>0, <1>1, <1>2, <1>3, <1>4, <1>5, <1>6, <1>7, <1>8,
           <1>9, <1>10, <1>11 DEF Operations, PipelineOps

(* A statement that fails leaves the pipelines.                             *)
LEMMA ExecuteFails ==
  ASSUME NEW inst, Sound(inst), NEW p, NEW s, s.op \in Operations, ~Execute(inst, p, s).ok
  PROVE  Execute(inst, p, s).pipes = p
<1>0. PICK r : r = Execute(inst, p, s)
  OBVIOUS
<1>1. CASE s.op \notin {"reset", "definePipeline", "dropPipeline"}
  BY <1>1, ExecuteSound
<1>2. s.op # "definePipeline"
  BY <1>0, Dispatched DEF DefinePipeline, Ok
<1>3. s.op = "dropPipeline" => r.pipes = p
  <2>1. ~DropPipeline(inst, p, s).ok => DropPipeline(inst, p, s).pipes = p
    BY DEF DropPipeline, Ok, Error
  <2> QED BY <1>0, <2>1, Dispatched
<1>4. s.op # "reset"
  BY <1>0, Dispatched DEF Reset, Ok
<1> QED BY <1>0, <1>1, <1>2, <1>3, <1>4

(* An instance is its six maps, hence comes back from its own checkpoint.   *)
LEMMA SnapshotRestored ==
  ASSUME NEW inst, Shaped(inst)
  PROVE  Restored(Snapshot(inst)) = inst
BY DEF Restored, Snapshot, NewInstance, Shaped

-----------------------------------------------------------------------------
(* The recursion of Replayed, over the first m statements of a log.         *)
Redoing(log, base, m, f) ==
  [n \in 0 .. m |-> IF n = 0 THEN base ELSE Redone(f[n - 1], log[n])]

(* The function that Replayed is computed by exists up to every length.     *)
LEMMA RedoingExists ==
  ASSUME NEW log, NEW base, NEW m \in Nat
  PROVE  \E f : f = Redoing(log, base, m, f)
<1> DEFINE G == {n \in 0 .. m : \E f : f = Redoing(log, base, n, f)}
<1>1. 0 \in G
  <2> DEFINE f == [n \in 0 .. 0 |-> base]
  <2>1. f = Redoing(log, base, 0, f)
    BY DEF Redoing
  <2> QED BY <2>1
<1>2. ASSUME NEW n \in 1 .. m, n - 1 \in G PROVE n \in G
  <2>1. PICK f : f = Redoing(log, base, n - 1, f)
    BY <1>2
  <2> DEFINE last == Redone(f[n - 1], log[n])
             g == [k \in 0 .. n |-> IF k = n THEN last ELSE f[k]]
  <2>2. n \in Nat /\ n > 0
    OBVIOUS
  <2>3. ASSUME NEW k \in 0 .. n
        PROVE  g[k] = IF k = 0 THEN base ELSE Redone(g[k - 1], log[k])
    <3>1. CASE k = n
      <4>1. g[k] = last /\ g[k - 1] = f[n - 1] /\ k # 0
        BY <2>2, <3>1
      <4> QED BY <4>1, <3>1
    <3>2. CASE k # n
      <4>1. k \in 0 .. n - 1
        BY <2>2, <3>2
      <4>2. f[k] = IF k = 0 THEN base ELSE Redone(f[k - 1], log[k])
        BY <2>1, <4>1 DEF Redoing
      <4>3. g[k] = f[k]
        BY <3>2
      <4>4. k # 0 => g[k - 1] = f[k - 1]
        BY <4>1, <2>2
      <4> QED BY <4>2, <4>3, <4>4
    <3> QED BY <3>1, <3>2
  <2> HIDE DEF last
  <2>4. g = Redoing(log, base, n, g)
    <3> HIDE DEF g
    <3>1. g = [k \in 0 .. n |-> g[k]]
      BY DEF g
    <3> QED BY <2>3, <3>1 DEF Redoing
  <2>5. \E h : h = Redoing(log, base, n, h)
    BY <2>4
  <2> QED BY <2>5
<1>3. m \in G
  <2> HIDE DEF G
  <2>1. \A n \in 1 .. m : n - 1 \in G => n \in G
    BY <1>2
  <2> QED BY <1>1, <2>1, Climb
<1> QED BY <1>3

(* What a replay begins with.                                               *)
Beginning(dir, registry) == Ok(Restored(dir.checkpoint), Over(dir.pipes, registry))

(* Replayed is the last value of that function.                             *)
LEMMA ReplayedRedoing ==
  ASSUME NEW dir, NEW registry, Len(dir.log) \in Nat
  PROVE  \E f : /\ f = Redoing(dir.log, Beginning(dir, registry), Len(dir.log), f)
                /\ Replayed(dir, registry) = f[Len(dir.log)]
<1> DEFINE base == Beginning(dir, registry)
           f == CHOOSE f : f = Redoing(dir.log, base, Len(dir.log), f)
<1>1. f = Redoing(dir.log, base, Len(dir.log), f)
  BY RedoingExists
<1>2. Replayed(dir, registry) = f[Len(dir.log)]
  BY DEF Replayed, Redoing, Beginning
<1> QED BY <1>1, <1>2

(* Equal beginnings of two logs are replayed equally.                       *)
LEMMA RedoingOnce ==
  ASSUME NEW a, NEW b, NEW base, NEW m \in Nat, NEW n \in Nat, NEW f, NEW g, m <= n,
         f = Redoing(a, base, m, f), g = Redoing(b, base, n, g), \A i \in 1 .. m : a[i] = b[i]
  PROVE  f[m] = g[m]
<1> DEFINE G == {i \in 0 .. m : f[i] = g[i]}
<1>1. 0 \in G
  BY DEF Redoing
<1>2. ASSUME NEW i \in 1 .. m, i - 1 \in G PROVE i \in G
  <2>1. i \in 0 .. m /\ i \in 0 .. n /\ i # 0
    OBVIOUS
  <2>2. f[i] = Redone(f[i - 1], a[i]) /\ g[i] = Redone(g[i - 1], b[i])
    BY <2>1 DEF Redoing
  <2> QED BY <1>2, <2>1, <2>2
<1>3. m \in G
  <2> HIDE DEF G
  <2>1. \A i \in 1 .. m : i - 1 \in G => i \in G
    BY <1>2
  <2> QED BY <1>1, <2>1, Climb
<1> QED BY <1>3

(* One more statement in the log is one more that is redone.                *)
LEMMA ReplayedAppend ==
  ASSUME NEW S, NEW dir, dir.log \in Seq(S), NEW s \in S, NEW longer, NEW registry,
         longer.checkpoint = dir.checkpoint, longer.pipes = dir.pipes,
         longer.log = Append(dir.log, s)
  PROVE  Replayed(longer, registry) = Redone(Replayed(dir, registry), s)
<1>1. PICK n : n = Len(dir.log)
  OBVIOUS
<1>2. PICK base : base = Beginning(dir, registry)
  OBVIOUS
<1>3. n \in Nat /\ Len(longer.log) = n + 1 /\ longer.log[n + 1] = s
      /\ \A i \in 1 .. n : dir.log[i] = longer.log[i]
  BY <1>1, AppendProperties, LenProperties
<1>4. PICK f : f = Redoing(dir.log, base, n, f) /\ Replayed(dir, registry) = f[n]
  BY <1>1, <1>2, <1>3, ReplayedRedoing
<1>5. Beginning(longer, registry) = base
  BY <1>2 DEF Beginning
<1>6. PICK g : g = Redoing(longer.log, base, n + 1, g) /\ Replayed(longer, registry) = g[n + 1]
  <2>1. Len(longer.log) \in Nat
    BY <1>3
  <2>2. \E g : /\ g = Redoing(longer.log, Beginning(longer, registry), Len(longer.log), g)
               /\ Replayed(longer, registry) = g[Len(longer.log)]
    BY <2>1, ReplayedRedoing
  <2> QED BY <1>3, <1>5, <2>2
<1>7. f[n] = g[n]
  <2>1. n + 1 \in Nat /\ n <= n + 1
    BY <1>3
  <2>2. PICK a, b : a = dir.log /\ b = longer.log
    OBVIOUS
  <2>3. /\ f = Redoing(a, base, n, f) /\ g = Redoing(b, base, n + 1, g)
        /\ \A i \in 1 .. n : a[i] = b[i]
    BY <1>3, <1>4, <1>6, <2>2
  <2> QED BY <1>3, <2>1, <2>3, RedoingOnce
<1>8. g[n + 1] = Redone(g[n], longer.log[n + 1])
  <2>1. n + 1 \in 0 .. n + 1 /\ n + 1 # 0 /\ (n + 1) - 1 = n
    BY <1>3
  <2> QED BY <1>6, <2>1 DEF Redoing
<1> QED BY <1>3, <1>4, <1>6, <1>7, <1>8

(* An empty log replays to the checkpoint.                                  *)
LEMMA ReplayedEmpty ==
  ASSUME NEW dir, NEW registry, dir.log = << >>
  PROVE  Replayed(dir, registry) = Beginning(dir, registry)
<1>1. Len(dir.log) = 0
  OBVIOUS
<1>2. PICK f : /\ f = Redoing(dir.log, Beginning(dir, registry), 0, f)
               /\ Replayed(dir, registry) = f[0]
  BY <1>1, ReplayedRedoing
<1> QED BY <1>2 DEF Redoing

(* A statement redone over a sound instance leaves a sound one.             *)
LEMMA RedoneSound ==
  ASSUME NEW done, Sound(done.inst), IsMap(done.pipes), NEW s, s.op \in Operations
  PROVE  Sound(Redone(done, s).inst) /\ IsMap(Redone(done, s).pipes)
BY ExecuteSound, ExecutePipes DEF Redone

(* The replay of a sound checkpoint ends, or breaks off, in a sound         *)
(* instance.                                                                *)
LEMMA ReplayedSound ==
  ASSUME NEW S, NEW dir, dir.log \in Seq(S), \A s \in S : s.op \in Operations,
         NEW registry, Sound(Restored(dir.checkpoint))
  PROVE  Sound(Replayed(dir, registry).inst) /\ IsMap(Replayed(dir, registry).pipes)
<1>1. PICK m : m = Len(dir.log)
  OBVIOUS
<1>2. m \in Nat /\ \A i \in 1 .. m : dir.log[i] \in S
  BY <1>1, LenProperties, ElementOfSeq
<1>3. PICK f : /\ f = Redoing(dir.log, Beginning(dir, registry), m, f)
               /\ Replayed(dir, registry) = f[m]
  BY <1>1, <1>2, ReplayedRedoing
<1> DEFINE G == {i \in 0 .. m : Sound(f[i].inst) /\ IsMap(f[i].pipes)}
<1>4. 0 \in G
  <2>1. f[0] = Beginning(dir, registry)
    BY <1>2, <1>3 DEF Redoing
  <2>2. f[0].inst = Restored(dir.checkpoint) /\ f[0].pipes = Over(dir.pipes, registry)
    BY <2>1 DEF Beginning, Ok
  <2>3. IsMap(Over(dir.pipes, registry))
    BY OverMap
  <2> QED BY <1>2, <2>2, <2>3
<1>5. ASSUME NEW i \in 1 .. m, i - 1 \in G PROVE i \in G
  <2>1. i \in 0 .. m /\ i # 0
    BY <1>2
  <2>2. f[i] = Redone(f[i - 1], dir.log[i])
    BY <1>3, <2>1 DEF Redoing
  <2>3. Sound(f[i - 1].inst) /\ IsMap(f[i - 1].pipes) /\ dir.log[i].op \in Operations
    BY <1>2, <1>5
  <2> QED BY <2>1, <2>2, <2>3, RedoneSound
<1>6. m \in G
  <2> HIDE DEF G
  <2>1. \A i \in 1 .. m : i - 1 \in G => i \in G
    BY <1>5
  <2>2. m \in Nat
    BY <1>2
  <2>3. \A i \in 0 .. m : i \in G
    BY <1>4, <2>1, <2>2, Climb
  <2> QED BY <2>2, <2>3
<1> QED BY <1>3, <1>6

(* Without statements about pipelines a replay does the same over every     *)
(* registry, and leaves it.                                                 *)
LEMMA ReplayedPlain ==
  ASSUME NEW S, NEW dir, dir.log \in Seq(S),
         \A s \in S : s.op \in Operations,
         \A i \in 1 .. Len(dir.log) : dir.log[i].op \notin PipelineOps,
         dir.pipes = Nothing, Sound(Restored(dir.checkpoint)),
         NEW p, IsMap(p), NEW q, IsMap(q)
  PROVE  /\ Replayed(dir, p).pipes = p
         /\ Replayed(dir, p).ok = Replayed(dir, q).ok
         /\ Replayed(dir, p).inst = Replayed(dir, q).inst
<1>1. PICK m : m = Len(dir.log)
  OBVIOUS
<1>2. m \in Nat /\ \A i \in 1 .. m : dir.log[i].op \in Operations \ PipelineOps
  BY <1>1, LenProperties, ElementOfSeq
<1>3. PICK f : /\ f = Redoing(dir.log, Beginning(dir, p), m, f)
               /\ Replayed(dir, p) = f[m]
  BY <1>1, <1>2, ReplayedRedoing
<1>4. PICK g : /\ g = Redoing(dir.log, Beginning(dir, q), m, g)
               /\ Replayed(dir, q) = g[m]
  BY <1>1, <1>2, ReplayedRedoing
<1> DEFINE G == {i \in 0 .. m : /\ Sound(f[i].inst) /\ f[i].pipes = p
                                /\ f[i].ok = g[i].ok /\ f[i].inst = g[i].inst}
<1>5. 0 \in G
  <2>1. f[0] = Beginning(dir, p) /\ g[0] = Beginning(dir, q)
    BY <1>2, <1>3, <1>4 DEF Redoing
  <2>2. Over(dir.pipes, p) = p
    BY OverNothing
  <2>3. f[0].inst = Restored(dir.checkpoint) /\ f[0].pipes = p
    BY <2>1, <2>2 DEF Beginning, Ok
  <2>4. g[0].inst = Restored(dir.checkpoint) /\ f[0].ok = g[0].ok
    BY <2>1 DEF Beginning, Ok
  <2>5. Sound(f[0].inst) /\ f[0].inst = g[0].inst
    BY <2>3, <2>4
  <2>6. 0 \in 0 .. m
    BY <1>2
  <2> QED BY <2>3, <2>4, <2>5, <2>6
<1>6. ASSUME NEW i \in 1 .. m, i - 1 \in G PROVE i \in G
  <2>1. i \in 0 .. m /\ i # 0
    BY <1>2
  <2>2. PICK s, a, b : s = dir.log[i] /\ a = f[i - 1] /\ b = g[i - 1]
    OBVIOUS
  <2>3. f[i] = Redone(a, s) /\ g[i] = Redone(b, s)
    BY <1>3, <1>4, <2>1, <2>2 DEF Redoing
  <2>4. /\ Sound(a.inst) /\ a.pipes = p /\ a.ok = b.ok /\ a.inst = b.inst
        /\ s.op \in Operations /\ s.op \notin PipelineOps
    BY <1>2, <1>6, <2>2
  <2>5. CASE a.ok
    <3>1. f[i] = Execute(a.inst, p, s) /\ g[i] = Execute(a.inst, b.pipes, s)
      BY <2>3, <2>4, <2>5 DEF Redone
    <3>2. /\ Execute(a.inst, p, s).ok = Execute(a.inst, b.pipes, s).ok
          /\ Execute(a.inst, p, s).inst = Execute(a.inst, b.pipes, s).inst
      BY <2>4, ExecutePlain
    <3>3. Sound(Execute(a.inst, p, s).inst) /\ Execute(a.inst, p, s).pipes = p
      BY <2>4, ExecuteSound DEF PipelineOps
    <3> QED BY <2>1, <3>1, <3>2, <3>3
  <2>6. CASE ~a.ok
    BY <2>1, <2>3, <2>4, <2>6 DEF Redone
  <2> QED BY <2>5, <2>6
<1>7. m \in G
  <2> HIDE DEF G
  <2>1. \A i \in 1 .. m : i - 1 \in G => i \in G
    BY <1>6
  <2>2. \A i \in 0 .. m : i \in G
    BY <1>2, <1>5, <2>1, Climb
  <2> QED BY <1>2, <2>2
<1> QED BY <1>3, <1>4, <1>7

-----------------------------------------------------------------------------
(* The databases that DbOrder lists.                                        *)
LEMMA DbOrderFacts ==
  /\ Len(DbOrder) \in Nat
  /\ Databases = {DbOrder[i] : i \in 1 .. Len(DbOrder)}
  /\ \A i, j \in 1 .. Len(DbOrder) : DbOrder[i] = DbOrder[j] => i = j
<1>1. Len(DbOrder) \in Nat /\ DOMAIN DbOrder = 1 .. Len(DbOrder)
  BY DbOrderAssumption, LenProperties
<1>2. Databases = {DbOrder[i] : i \in DOMAIN DbOrder}
  BY DEF Databases, ToSet
<1>3. \A i, j \in DOMAIN DbOrder : DbOrder[i] = DbOrder[j] => i = j
  BY DbOrderAssumption DEF IsInjective
<1> QED BY <1>1, <1>2, <1>3

(* What recovery needs of the disk: logs of this database's statements over *)
(* a sound checkpoint.                                                      *)
DiskSound ==
  \A d \in Databases :
    /\ disk[d] = [checkpoint |-> disk[d].checkpoint, pipes |-> disk[d].pipes, log |-> disk[d].log]
    /\ disk[d].log \in Seq(Statements[d])
    /\ Sound(Restored(disk[d].checkpoint)) /\ IsMap(disk[d].pipes)

(* A database whose log and checkpoint know nothing of pipelines.           *)
Plain(d) ==
  /\ disk[d].pipes = Nothing
  /\ \A i \in 1 .. Len(disk[d].log) : disk[d].log[i].op \notin PipelineOps

(* What a database's own log makes of its own checkpoint.                   *)
Run(d) == Replayed(disk[d], Nothing)

(* What a database on a sound disk replays to is sound, over any registry.  *)
LEMMA RunSound ==
  ASSUME DiskSound, NEW d \in Databases, NEW registry
  PROVE  /\ Sound(Replayed(disk[d], registry).inst)
         /\ IsMap(Replayed(disk[d], registry).pipes)
<1>1. PICK dir : dir = disk[d]
  OBVIOUS
<1>2. dir.log \in Seq(Statements[d]) /\ Sound(Restored(dir.checkpoint))
  BY <1>1 DEF DiskSound
<1>3. \A s \in Statements[d] : s.op \in Operations
  BY StatementsAssumption
<1>4. Sound(Replayed(dir, registry).inst) /\ IsMap(Replayed(dir, registry).pipes)
  BY <1>2, <1>3, ReplayedSound
<1> QED BY <1>1, <1>4

(* A database whose log and checkpoint know nothing of pipelines replays    *)
(* alike over every registry and leaves it.                                 *)
LEMMA RunPlain ==
  ASSUME DiskSound, NEW d \in Databases, Plain(d), NEW registry, IsMap(registry)
  PROVE  /\ Replayed(disk[d], registry).pipes = registry
         /\ Replayed(disk[d], registry).ok = Run(d).ok
         /\ Replayed(disk[d], registry).inst = Run(d).inst
<1>1. PICK dir : dir = disk[d]
  OBVIOUS
<1>2. /\ dir.log \in Seq(Statements[d]) /\ Sound(Restored(dir.checkpoint))
      /\ dir.pipes = Nothing /\ \A i \in 1 .. Len(dir.log) : dir.log[i].op \notin PipelineOps
  BY <1>1 DEF DiskSound, Plain
<1>3. \A s \in Statements[d] : s.op \in Operations
  BY StatementsAssumption
<1>4. /\ Replayed(dir, registry).pipes = registry
      /\ Replayed(dir, registry).ok = Replayed(dir, Nothing).ok
      /\ Replayed(dir, registry).inst = Replayed(dir, Nothing).inst
  BY <1>2, <1>3, NothingMap, ReplayedPlain
<1> QED BY <1>1, <1>4 DEF Run

(* The recursion of Recovered, over the first m databases.                  *)
Joining(m, f) ==
  [n \in 0 .. m |->
     IF n = 0 THEN [mem |-> Nothing, pipes |-> Nothing, failed |-> {}]
     ELSE Joined(f[n - 1], DbOrder[n])]

(* The function that Recovered is computed by exists.                       *)
LEMMA JoiningExists ==
  ASSUME NEW m \in Nat
  PROVE  \E f : f = Joining(m, f)
<1> DEFINE start == [mem |-> Nothing, pipes |-> Nothing, failed |-> {}]
           G == {n \in 0 .. m : \E f : f = Joining(n, f)}
<1>1. 0 \in G
  <2> DEFINE f == [n \in 0 .. 0 |-> start]
  <2>1. f = Joining(0, f)
    BY DEF Joining
  <2> QED BY <2>1
<1>2. ASSUME NEW n \in 1 .. m, n - 1 \in G PROVE n \in G
  <2>1. PICK f : f = Joining(n - 1, f)
    BY <1>2
  <2> DEFINE last == Joined(f[n - 1], DbOrder[n])
             g == [k \in 0 .. n |-> IF k = n THEN last ELSE f[k]]
  <2>2. n \in Nat /\ n > 0
    OBVIOUS
  <2>3. ASSUME NEW k \in 0 .. n
        PROVE  g[k] = IF k = 0 THEN start ELSE Joined(g[k - 1], DbOrder[k])
    <3> HIDE DEF start
    <3>1. CASE k = n
      <4>1. g[k] = last /\ g[k - 1] = f[n - 1] /\ k # 0
        BY <2>2, <3>1
      <4> QED BY <4>1, <3>1
    <3>2. CASE k # n
      <4>1. k \in 0 .. n - 1
        BY <2>2, <3>2
      <4>2. f[k] = IF k = 0 THEN start ELSE Joined(f[k - 1], DbOrder[k])
        BY <2>1, <4>1 DEF Joining, start
      <4>3. g[k] = f[k]
        BY <3>2
      <4>4. k # 0 => g[k - 1] = f[k - 1]
        BY <4>1, <2>2
      <4> QED BY <4>2, <4>3, <4>4
    <3> QED BY <3>1, <3>2
  <2> HIDE DEF last
  <2>4. g = Joining(n, g)
    <3> HIDE DEF g
    <3>1. g = [k \in 0 .. n |-> g[k]]
      BY DEF g
    <3> QED BY <2>3, <3>1 DEF Joining
  <2>5. \E h : h = Joining(n, h)
    BY <2>4
  <2> QED BY <2>5
<1>3. m \in G
  <2> HIDE DEF G
  <2>1. \A n \in 1 .. m : n - 1 \in G => n \in G
    BY <1>2
  <2> QED BY <1>1, <2>1, Climb
<1> QED BY <1>3

(* The steps of a recovery.                                                 *)
LEMMA RecoveredJoining ==
  \E f : /\ Recovered = f[Len(DbOrder)]
         /\ f[0].mem = Nothing /\ f[0].pipes = Nothing /\ f[0].failed = {}
         /\ \A n \in 1 .. Len(DbOrder) :
              LET d == DbOrder[n]
                  result == Replayed(disk[d], f[n - 1].pipes)
              IN /\ f[n].mem = With(f[n - 1].mem, d, result.inst)
                 /\ f[n].pipes = result.pipes
                 /\ f[n].failed = IF result.ok THEN f[n - 1].failed ELSE f[n - 1].failed \cup {d}
<1> DEFINE f == CHOOSE f : f = Joining(Len(DbOrder), f)
<1>1. f = Joining(Len(DbOrder), f)
  BY DbOrderFacts, JoiningExists
<1>2. Recovered = f[Len(DbOrder)]
  BY DEF Recovered, Joining
<1> HIDE DEF f
<1>3. f[0] = [mem |-> Nothing, pipes |-> Nothing, failed |-> {}]
  BY <1>1, DbOrderFacts DEF Joining
<1>4. ASSUME NEW n \in 1 .. Len(DbOrder) PROVE f[n] = Joined(f[n - 1], DbOrder[n])
  <2>1. n \in 0 .. Len(DbOrder) /\ n # 0
    BY DbOrderFacts
  <2> QED BY <1>1, <2>1 DEF Joining
<1>5. ASSUME NEW n \in 1 .. Len(DbOrder), NEW d, d = DbOrder[n],
             NEW result, result = Replayed(disk[d], f[n - 1].pipes)
      PROVE  /\ f[n].mem = With(f[n - 1].mem, d, result.inst)
             /\ f[n].pipes = result.pipes
             /\ f[n].failed = IF result.ok THEN f[n - 1].failed ELSE f[n - 1].failed \cup {d}
  <2>1. f[n] = Joined(f[n - 1], d)
    BY <1>4, <1>5
  <2> QED BY <1>5, <2>1 DEF Joined
<1>6. f[0].mem = Nothing /\ f[0].pipes = Nothing /\ f[0].failed = {}
  BY <1>3
<1>7. \A n \in 1 .. Len(DbOrder) :
        LET d == DbOrder[n]
            result == Replayed(disk[d], f[n - 1].pipes)
        IN /\ f[n].mem = With(f[n - 1].mem, d, result.inst)
           /\ f[n].pipes = result.pipes
           /\ f[n].failed = IF result.ok THEN f[n - 1].failed ELSE f[n - 1].failed \cup {d}
  BY <1>5
<1> QED BY <1>2, <1>6, <1>7

(* Recovery gives every database an instance, a replay of its own log over  *)
(* whichever registry the databases before it left.                         *)
LEMMA RecoveredEach ==
  ASSUME DiskSound
  PROVE  /\ IsMap(Recovered.mem) /\ DOMAIN Recovered.mem = Databases /\ IsMap(Recovered.pipes)
         /\ \A d \in Databases :
              \E registry : /\ IsMap(registry)
                            /\ Recovered.mem[d] = Replayed(disk[d], registry).inst
                            /\ d \in Recovered.failed <=> ~Replayed(disk[d], registry).ok
<1>1. PICK m : m = Len(DbOrder)
  OBVIOUS
<1>2. /\ m \in Nat /\ Databases = {DbOrder[i] : i \in 1 .. m}
      /\ \A i, j \in 1 .. m : DbOrder[i] = DbOrder[j] => i = j
  BY <1>1, DbOrderFacts
<1>3. PICK f : /\ Recovered = f[m]
               /\ f[0].mem = Nothing /\ f[0].pipes = Nothing /\ f[0].failed = {}
               /\ \A n \in 1 .. m :
                    LET d == DbOrder[n]
                        result == Replayed(disk[d], f[n - 1].pipes)
                    IN /\ f[n].mem = With(f[n - 1].mem, d, result.inst)
                       /\ f[n].pipes = result.pipes
                       /\ f[n].failed = IF result.ok THEN f[n - 1].failed
                                        ELSE f[n - 1].failed \cup {d}
  BY <1>1, RecoveredJoining
<1> DEFINE Done(n, d) ==
             \E registry : /\ IsMap(registry)
                           /\ f[n].mem[d] = Replayed(disk[d], registry).inst
                           /\ d \in f[n].failed <=> ~Replayed(disk[d], registry).ok
           G == {n \in 0 .. m :
                   /\ IsMap(f[n].mem) /\ IsMap(f[n].pipes)
                   /\ DOMAIN f[n].mem = {DbOrder[i] : i \in 1 .. n}
                   /\ f[n].failed \subseteq {DbOrder[i] : i \in 1 .. n}
                   /\ \A i \in 1 .. n : Done(n, DbOrder[i])}
<1>4. 0 \in G
  BY <1>2, <1>3, NothingMap
<1>5. ASSUME NEW n \in 1 .. m, n - 1 \in G PROVE n \in G
  <2>1. PICK d, before, result :
          d = DbOrder[n] /\ before = f[n - 1] /\ result = Replayed(disk[d], before.pipes)
    OBVIOUS
  <2>2. /\ f[n].mem = With(before.mem, d, result.inst) /\ f[n].pipes = result.pipes
        /\ f[n].failed = IF result.ok THEN before.failed ELSE before.failed \cup {d}
    BY <1>3, <2>1
  <2>3. /\ IsMap(before.pipes) /\ DOMAIN before.mem = {DbOrder[i] : i \in 1 .. n - 1}
        /\ before.failed \subseteq {DbOrder[i] : i \in 1 .. n - 1}
        /\ \A i \in 1 .. n - 1 : Done(n - 1, DbOrder[i])
    BY <1>5, <2>1
  <2>4. d \in Databases /\ n \in Nat /\ 1 <= n /\ 1 .. n = (1 .. n - 1) \cup {n}
    BY <1>2, <2>1
  <2>5. d \notin {DbOrder[i] : i \in 1 .. n - 1}
    BY <1>2, <2>1
  <2>6. IsMap(result.pipes)
    BY <2>1, <2>4, RunSound
  <2>7. {DbOrder[i] : i \in 1 .. n} = {DbOrder[i] : i \in 1 .. n - 1} \cup {d}
    BY <2>1, <2>4
  <2>8. DOMAIN f[n].mem = {DbOrder[i] : i \in 1 .. n} /\ IsMap(f[n].mem)
    BY <2>2, <2>3, <2>7 DEF With, IsMap
  <2>9. f[n].failed \subseteq {DbOrder[i] : i \in 1 .. n}
    BY <2>2, <2>3, <2>7
  <2>10. Done(n, d)
    <3>1. f[n].mem[d] = result.inst
      BY <2>2 DEF With
    <3>2. d \in f[n].failed <=> ~result.ok
      BY <2>2, <2>3, <2>5
    <3> QED BY <2>1, <2>3, <3>1, <3>2
  <2>11. ASSUME NEW i \in 1 .. n - 1 PROVE Done(n, DbOrder[i])
    <3>1. PICK e : e = DbOrder[i]
      OBVIOUS
    <3>2. e \in DOMAIN before.mem /\ e # d
      BY <2>3, <2>5, <3>1
    <3>3. f[n].mem[e] = before.mem[e]
      BY <2>2, <3>2 DEF With
    <3>4. e \in f[n].failed <=> e \in before.failed
      BY <2>2, <3>2
    <3>5. Done(n - 1, e)
      BY <2>3, <3>1
    <3> QED BY <2>1, <3>1, <3>3, <3>4, <3>5
  <2> HIDE DEF Done
  <2>12. \A i \in 1 .. n : Done(n, DbOrder[i])
    BY <2>1, <2>4, <2>10, <2>11
  <2> QED BY <2>2, <2>6, <2>8, <2>9, <2>12
<1>6. m \in G
  <2> HIDE DEF G
  <2>1. \A i \in 1 .. m : i - 1 \in G => i \in G
    BY <1>5
  <2>2. \A i \in 0 .. m : i \in G
    BY <1>2, <1>4, <2>1, Climb
  <2> QED BY <1>2, <2>2
<1> QED BY <1>2, <1>3, <1>6

(* Where only one database knows of pipelines, the registry is empty before *)
(* it and its own afterwards.                                               *)
LEMMA RecoveredAlone ==
  ASSUME DiskSound, NEW d \in Databases, \A e \in Databases \ {d} : Plain(e)
  PROVE  /\ Recovered.pipes = Run(d).pipes
         /\ Recovered.mem[d] = Run(d).inst
         /\ d \in Recovered.failed <=> ~Run(d).ok
<1>1. PICK m : m = Len(DbOrder)
  OBVIOUS
<1>2. /\ m \in Nat /\ Databases = {DbOrder[i] : i \in 1 .. m}
      /\ \A i, j \in 1 .. m : DbOrder[i] = DbOrder[j] => i = j
  BY <1>1, DbOrderFacts
<1>3. PICK f : /\ Recovered = f[m]
               /\ f[0].mem = Nothing /\ f[0].pipes = Nothing /\ f[0].failed = {}
               /\ \A n \in 1 .. m :
                    LET e == DbOrder[n]
                        result == Replayed(disk[e], f[n - 1].pipes)
                    IN /\ f[n].mem = With(f[n - 1].mem, e, result.inst)
                       /\ f[n].pipes = result.pipes
                       /\ f[n].failed = IF result.ok THEN f[n - 1].failed
                                        ELSE f[n - 1].failed \cup {e}
  BY <1>1, RecoveredJoining
<1>4. PICK k \in 1 .. m : DbOrder[k] = d
  BY <1>2
<1>5. IsMap(Run(d).pipes)
  BY RunSound DEF Run
<1> DEFINE Reached(n) == /\ f[n].pipes = Run(d).pipes /\ f[n].mem[d] = Run(d).inst
                         /\ d \in DOMAIN f[n].mem
                         /\ d \in f[n].failed <=> ~Run(d).ok
           G == {n \in 0 .. m :
                   IF n < k THEN f[n].pipes = Nothing /\ d \notin f[n].failed ELSE Reached(n)}
<1>6. 0 \in G
  BY <1>2, <1>3
<1>7. ASSUME NEW n \in 1 .. m, n - 1 \in G PROVE n \in G
  <2>1. PICK e, before, result :
          e = DbOrder[n] /\ before = f[n - 1] /\ result = Replayed(disk[e], before.pipes)
    OBVIOUS
  <2>2. /\ f[n].mem = With(before.mem, e, result.inst) /\ f[n].pipes = result.pipes
        /\ f[n].failed = IF result.ok THEN before.failed ELSE before.failed \cup {e}
    BY <1>3, <2>1
  <2>3. e \in Databases /\ n \in Nat /\ k \in Nat
    BY <1>2, <2>1
  <2>4. CASE n < k
    <3>1. e # d
      BY <1>2, <1>4, <2>1, <2>4
    <3>2. before.pipes = Nothing /\ d \notin before.failed
      BY <1>7, <2>1, <2>3, <2>4
    <3>3. result.pipes = Nothing
      BY <2>1, <2>3, <3>1, <3>2, RunPlain, NothingMap
    <3> QED BY <2>2, <2>4, <3>1, <3>2, <3>3
  <2>5. CASE n = k
    <3>1. e = d
      BY <1>4, <2>1, <2>5
    <3>2. before.pipes = Nothing /\ d \notin before.failed
      BY <1>7, <2>1, <2>3, <2>5
    <3>3. result = Run(d)
      BY <2>1, <3>1, <3>2 DEF Run
    <3>4. f[n].mem[d] = Run(d).inst /\ d \in DOMAIN f[n].mem
      BY <2>2, <3>1, <3>3 DEF With
    <3> QED BY <2>2, <2>3, <2>5, <3>1, <3>2, <3>3, <3>4
  <2>6. CASE n > k
    <3>1. e # d
      BY <1>2, <1>4, <2>1, <2>3, <2>6
    <3>2. /\ before.pipes = Run(d).pipes /\ before.mem[d] = Run(d).inst
          /\ d \in DOMAIN before.mem
          /\ d \in before.failed <=> ~Run(d).ok
      BY <1>7, <2>1, <2>3, <2>6
    <3>3. result.pipes = Run(d).pipes
      BY <1>5, <2>1, <2>3, <3>1, <3>2, RunPlain
    <3>4. f[n].mem[d] = Run(d).inst /\ d \in DOMAIN f[n].mem
      BY <2>2, <3>1, <3>2 DEF With
    <3> QED BY <2>2, <2>3, <2>6, <3>1, <3>2, <3>3, <3>4
  <2> QED BY <2>3, <2>4, <2>5, <2>6
<1>8. m \in G
  <2> HIDE DEF G
  <2>1. \A i \in 1 .. m : i - 1 \in G => i \in G
    BY <1>7
  <2>2. \A i \in 0 .. m : i \in G
    BY <1>2, <1>6, <2>1, Climb
  <2> QED BY <1>2, <2>2
<1>9. ~ (m < k)
  BY <1>2
<1> QED BY <1>3, <1>8, <1>9

-----------------------------------------------------------------------------
(* Every database has an instance and a log, and knows why it may be lost.  *)
TypeInv ==
  /\ mem = [d \in Databases |-> mem[d]]
  /\ disk = [d \in Databases |-> disk[d]]
  /\ astray = [d \in Databases |-> astray[d]]
  /\ pipers \subseteq Databases /\ IsMap(pipes)

MemSound == \A d \in Databases : Sound(mem[d])

(* Only pipers know of pipelines, and without them there are none.          *)
PipersKnown ==
  /\ \A d \in Databases \ pipers : Plain(d)
  /\ pipers = {} => pipes = Nothing

(* The log of a database tells what is in its memory.                       *)
Tells(d) ==
  /\ Run(d).ok
  /\ pipers \subseteq {d} => Run(d).pipes = pipes
  /\ d \notin shown => Run(d).inst = mem[d]
  /\ Content(Run(d).inst) = Content(mem[d])

LogsTell == \A d \in Databases \ failed : astray[d] = {} /\ Alone(d) => Tells(d)

IInv == TypeInv /\ DiskSound /\ MemSound /\ PipersKnown /\ LogsTell

-----------------------------------------------------------------------------
(* An empty process satisfies the invariant: empty logs over empty          *)
(* checkpoints tell of empty instances.                                     *)
LEMMA InitIInv == Init => IInv
<1> SUFFICES ASSUME Init PROVE IInv
  OBVIOUS
<1>1. TypeInv
  BY NothingMap DEF Init, TypeInv
<1>2. ASSUME NEW d \in Databases
      PROVE  /\ mem[d] = NewInstance /\ disk[d] = NewDisk /\ Plain(d)
             /\ Sound(Restored(disk[d].checkpoint)) /\ IsMap(disk[d].pipes)
             /\ disk[d].log \in Seq(Statements[d])
             /\ disk[d] = [checkpoint |-> disk[d].checkpoint, pipes |-> disk[d].pipes,
                           log |-> disk[d].log]
  <2>1. mem[d] = NewInstance /\ disk[d] = NewDisk
    BY DEF Init
  <2>2. /\ disk[d].checkpoint = Snapshot(NewInstance) /\ disk[d].pipes = Nothing
        /\ disk[d].log = << >>
        /\ disk[d] = [checkpoint |-> disk[d].checkpoint, pipes |-> disk[d].pipes,
                      log |-> disk[d].log]
    BY <2>1 DEF NewDisk
  <2>3. Restored(disk[d].checkpoint) = NewInstance
    BY <2>2, NewSound, SnapshotRestored DEF Sound
  <2>4. Plain(d)
    BY <2>2 DEF Plain
  <2> QED BY <2>1, <2>2, <2>3, <2>4, NewSound, NothingMap
<1>3. DiskSound /\ MemSound
  BY <1>2, NewSound DEF DiskSound, MemSound
<1>4. PipersKnown
  BY <1>2 DEF Init, PipersKnown
<1>5. LogsTell
  <2> SUFFICES ASSUME NEW d \in Databases PROVE Tells(d)
    BY DEF LogsTell
  <2>1. disk[d].log = << >> /\ disk[d].checkpoint = Snapshot(NewInstance) /\ disk[d].pipes = Nothing
    <3>1. disk[d] = NewDisk
      BY <1>2
    <3> QED BY <3>1 DEF NewDisk
  <2>2. Run(d) = Beginning(disk[d], Nothing)
    BY <2>1, ReplayedEmpty DEF Run
  <2>3. Beginning(disk[d], Nothing) = Ok(NewInstance, Nothing)
    BY <2>1, NewSound, SnapshotRestored, NothingMap, OverNothing DEF Beginning, Sound
  <2>4. Run(d).ok /\ Run(d).inst = mem[d] /\ Run(d).pipes = pipes
    BY <1>2, <2>2, <2>3 DEF Ok, Init
  <2> QED BY <2>4 DEF Tells
<1> QED BY <1>1, <1>3, <1>4, <1>5 DEF IInv

(* A database alone with its pipelines, or without any, was so before.      *)
LEMMA AloneBefore ==
  ASSUME NEW d, NEW e, pipers' \in {pipers, pipers \cup {e}}, Alone(d)'
  PROVE  Alone(d)
BY DEF Alone

(* A mutating statement that succeeds.                                      *)
LEMMA MutateIInv ==
  ASSUME IInv, NEW d \in Databases, NEW s \in Statements[d], Serves(d),
         Mutate(d, s, Execute(mem[d], pipes, s))
  PROVE  IInv'
<1>1. PICK result : result = Execute(mem[d], pipes, s)
  OBVIOUS
<1>2. /\ IsMutating(s) /\ result.ok
      /\ mem' = [mem EXCEPT ![d] = result.inst] /\ pipes' = result.pipes
      /\ disk' = [disk EXCEPT ![d].log = Append(@, s)]
      /\ astray' = [astray EXCEPT ![d] = @ \cup (IF d \in shown THEN {"shown"} ELSE {})]
      /\ pipers' = IF s.op \in PipelineOps THEN pipers \cup {d} ELSE pipers
      /\ failed' = failed /\ shown' = shown
  BY <1>1 DEF Mutate
<1>3. /\ s.op \in Operations /\ Sound(mem[d]) /\ IsMap(pipes)
      /\ disk[d].log \in Seq(Statements[d])
      /\ disk[d] = [checkpoint |-> disk[d].checkpoint, pipes |-> disk[d].pipes, log |-> disk[d].log]
  BY StatementsAssumption DEF IInv, MemSound, TypeInv, DiskSound
<1>4. Sound(result.inst) /\ IsMap(result.pipes)
  BY <1>1, <1>3, ExecuteSound, ExecutePipes
<1>5. s.op \notin PipelineOps => result.pipes = pipes
  BY <1>1, <1>3, ExecuteSound DEF PipelineOps
<1>6. /\ mem'[d] = result.inst /\ \A e \in Databases \ {d} : mem'[e] = mem[e]
      /\ mem' = [e \in Databases |-> mem'[e]]
  BY <1>2 DEF IInv, TypeInv
<1>7. /\ disk'[d].checkpoint = disk[d].checkpoint /\ disk'[d].pipes = disk[d].pipes
      /\ disk'[d].log = Append(disk[d].log, s)
      /\ disk'[d] = [checkpoint |-> disk'[d].checkpoint, pipes |-> disk'[d].pipes,
                     log |-> disk'[d].log]
      /\ \A e \in Databases \ {d} : disk'[e] = disk[e]
      /\ disk' = [e \in Databases |-> disk'[e]]
  BY <1>2, <1>3 DEF IInv, TypeInv
<1>8. TypeInv'
  <2>1. astray' = [e \in Databases |-> astray'[e]]
    BY <1>2 DEF IInv, TypeInv
  <2>2. pipers' \subseteq Databases
    BY <1>2 DEF IInv, TypeInv
  <2> QED BY <1>2, <1>4, <1>6, <1>7, <2>1, <2>2 DEF TypeInv
<1>9. MemSound'
  BY <1>4, <1>6 DEF IInv, MemSound
<1>10. DiskSound'
  <2>1. disk'[d].log \in Seq(Statements[d])
    BY <1>3, <1>7, AppendProperties
  <2>2. Sound(Restored(disk'[d].checkpoint)) /\ IsMap(disk'[d].pipes)
    BY <1>7 DEF IInv, DiskSound
  <2>3. ASSUME NEW e \in Databases \ {d}
        PROVE  /\ disk'[e] = [checkpoint |-> disk'[e].checkpoint, pipes |-> disk'[e].pipes,
                              log |-> disk'[e].log]
               /\ disk'[e].log \in Seq(Statements[e])
               /\ Sound(Restored(disk'[e].checkpoint)) /\ IsMap(disk'[e].pipes)
    BY <1>7 DEF IInv, DiskSound
  <2> QED BY <1>7, <2>1, <2>2, <2>3 DEF DiskSound
<1>11. PipersKnown'
  <2>1. ASSUME NEW e \in Databases \ pipers' PROVE Plain(e)'
    <3>1. e \in Databases \ pipers /\ Plain(e)
      BY <1>2, <2>1 DEF IInv, PipersKnown
    <3>2. CASE e = d
      <4>1. s.op \notin PipelineOps
        BY <1>2, <2>1, <3>2
      <4>2. \A i \in 1 .. Len(disk'[d].log) : disk'[d].log[i].op \notin PipelineOps
        <5>1. PICK log : log = disk[d].log
          OBVIOUS
        <5>2. /\ \A i \in 1 .. Len(log) : log[i].op \notin PipelineOps
              /\ log \in Seq(Statements[d]) /\ disk'[d].log = Append(log, s)
          BY <1>3, <1>7, <3>1, <3>2, <5>1 DEF Plain
        <5>3. Len(log) \in Nat /\ Len(Append(log, s)) = Len(log) + 1
              /\ Append(log, s)[Len(log) + 1] = s
              /\ \A i \in 1 .. Len(log) : Append(log, s)[i] = log[i]
          BY <5>2, AppendProperties, LenProperties
        <5> QED BY <4>1, <5>2, <5>3
      <4> QED BY <1>7, <3>1, <3>2, <4>2 DEF Plain
    <3>3. CASE e # d
      BY <1>7, <3>1, <3>3 DEF Plain
    <3> QED BY <3>2, <3>3
  <2>2. pipers' = {} => pipes' = Nothing
    BY <1>2, <1>5 DEF IInv, PipersKnown
  <2> QED BY <2>1, <2>2 DEF PipersKnown
<1>12. LogsTell'
  <2>1. SUFFICES ASSUME NEW e \in Databases, e \notin failed', astray'[e] = {}, Alone(e)'
                 PROVE  Tells(e)'
    BY DEF LogsTell
  <2>2. Alone(e)
    <3>1. pipers' \in {pipers, pipers \cup {d}}
      BY <1>2
    <3> QED BY <2>1, <3>1, AloneBefore
  <2>3. CASE e # d
    <3>1. Tells(e)
      BY <1>2, <2>1, <2>2, <2>3 DEF IInv, LogsTell, TypeInv
    <3>2. Run(e)' = Run(e) /\ mem'[e] = mem[e]
      BY <1>6, <1>7, <2>3 DEF Run
    <3>3. pipers' \subseteq {e} => pipers \subseteq {e} /\ pipes' = pipes
      BY <1>2, <1>5, <2>3
    <3> QED BY <1>2, <3>1, <3>2, <3>3 DEF Tells
  <2>4. CASE e = d
    <3>1. astray[d] = {} /\ d \notin shown
      BY <1>2, <2>1, <2>4 DEF IInv, TypeInv
    <3>2. Tells(d)
      BY <1>2, <2>1, <2>2, <2>4, <3>1 DEF IInv, LogsTell
    <3>3. PICK run : run = Run(d)
      OBVIOUS
    <3>4. run.ok /\ run.inst = mem[d] /\ (pipers \subseteq {d} => run.pipes = pipes)
      BY <3>1, <3>2, <3>3 DEF Tells
    <3>5. Run(d)' = Redone(run, s)
      <4>1. PICK old, new : old = disk[d] /\ new = disk'[d]
        OBVIOUS
      <4>2. /\ old.log \in Seq(Statements[d]) /\ new.log = Append(old.log, s)
            /\ new.checkpoint = old.checkpoint /\ new.pipes = old.pipes
        BY <1>3, <1>7, <4>1
      <4>3. Replayed(new, Nothing) = Redone(Replayed(old, Nothing), s)
        BY <4>2, ReplayedAppend
      <4> QED BY <3>3, <4>1, <4>3 DEF Run
    <3>6. Redone(run, s) = Execute(mem[d], run.pipes, s)
      BY <3>4 DEF Redone
    <3>7. PICK redone : redone = Execute(mem[d], run.pipes, s)
      OBVIOUS
    <3>8. redone.ok /\ redone.inst = result.inst /\ (pipers' \subseteq {d} => redone.pipes = result.pipes)
      <4>1. CASE s.op \in PipelineOps
        <5>1. pipers \subseteq {d}
          BY <1>2, <2>1, <2>4, <4>1 DEF Alone
        <5> QED BY <1>1, <1>2, <3>4, <3>7, <5>1
      <4>2. CASE s.op \notin PipelineOps
        <5>1. redone.ok = result.ok /\ redone.inst = result.inst
          BY <1>1, <1>3, <3>7, <4>2, ExecutePlain
        <5>2. redone.pipes = run.pipes
          BY <1>3, <3>7, <4>2, ExecuteSound DEF PipelineOps
        <5>3. pipers' = pipers /\ result.pipes = pipes
          BY <1>2, <1>5, <4>2
        <5> QED BY <1>2, <3>4, <5>1, <5>2, <5>3
      <4> QED BY <4>1, <4>2
    <3>9. Run(d)' = redone /\ mem'[d] = redone.inst
      BY <1>6, <3>5, <3>6, <3>7, <3>8
    <3> QED BY <1>2, <2>4, <3>8, <3>9 DEF Tells
  <2> QED BY <2>3, <2>4
<1> QED BY <1>8, <1>9, <1>10, <1>11, <1>12 DEF IInv

(* What is not logged and leaves the pipelines: memory changes at most      *)
(* where the database knows, or in what clients cannot tell.                *)
LEMMA UnloggedIInv ==
  ASSUME IInv, NEW d \in Databases, NEW inst, Sound(inst),
         mem' = [mem EXCEPT ![d] = inst],
         UNCHANGED << pipes, disk, failed, pipers >>,
         astray' = [e \in Databases |-> astray'[e]],
         \A e \in Databases \ {d} : astray'[e] = astray[e] /\ (e \in shown' <=> e \in shown),
         astray'[d] = {} => /\ astray[d] = {} /\ Content(inst) = Content(mem[d])
                            /\ d \notin shown' => d \notin shown /\ inst = mem[d]
  PROVE  IInv'
<1>1. /\ mem'[d] = inst /\ \A e \in Databases \ {d} : mem'[e] = mem[e]
      /\ mem' = [e \in Databases |-> mem'[e]]
  BY DEF IInv, TypeInv
<1>2. TypeInv'
  BY <1>1 DEF IInv, TypeInv
<1>3. MemSound'
  BY <1>1 DEF IInv, MemSound
<1>4. DiskSound' /\ PipersKnown'
  BY DEF IInv, DiskSound, PipersKnown, Plain
<1>5. LogsTell'
  <2>1. SUFFICES ASSUME NEW e \in Databases, e \notin failed', astray'[e] = {}, Alone(e)'
                 PROVE  Tells(e)'
    BY DEF LogsTell
  <2>2. Alone(e) /\ Run(e)' = Run(e)
    BY <2>1 DEF Alone, Run
  <2>3. astray[e] = {}
    BY <2>1
  <2>4. Tells(e)
    BY <2>1, <2>2, <2>3 DEF IInv, LogsTell
  <2>5. CASE e # d
    BY <1>1, <2>2, <2>4, <2>5 DEF Tells
  <2>6. CASE e = d
    BY <1>1, <2>1, <2>2, <2>4, <2>6 DEF Tells
  <2> QED BY <2>5, <2>6
<1> QED BY <1>2, <1>3, <1>4, <1>5 DEF IInv

(* A statement that fails.                                                  *)
LEMMA FailIInv ==
  ASSUME IInv, NEW d \in Databases, NEW s \in Statements[d],
         Fail(d, s, Execute(mem[d], pipes, s))
  PROVE  IInv'
<1>1. PICK result : result = Execute(mem[d], pipes, s)
  OBVIOUS
<1>2. /\ ~result.ok
      /\ mem' = [mem EXCEPT ![d] = result.inst] /\ pipes' = result.pipes
      /\ astray' = [astray EXCEPT ![d] = @ \cup
                      (IF result.inst # mem[d] /\ IsMutating(s) THEN {"failed"} ELSE {})]
      /\ UNCHANGED << disk, failed, shown, pipers >>
  BY <1>1 DEF Fail
<1>3. s.op \in Operations /\ Sound(mem[d])
  BY StatementsAssumption DEF IInv, MemSound
<1>4. Sound(result.inst) /\ result.pipes = pipes
  BY <1>1, <1>2, <1>3, ExecuteSound, ExecuteFails
<1>5. /\ astray' = [e \in Databases |-> astray'[e]]
      /\ \A e \in Databases \ {d} : astray'[e] = astray[e]
      /\ astray'[d] = {} => astray[d] = {} /\ (result.inst = mem[d] \/ ~IsMutating(s))
  BY <1>2 DEF IInv, TypeInv
<1>6. ~IsMutating(s) => result.inst = mem[d]
  <2>1. CASE s.op = "show"
    <3>1. result = Show(mem[d], pipes, s)
      BY <1>1, <1>3, <2>1, Dispatched
    <3> QED BY <1>2, <1>3, <3>1, ShowFails
  <2> QED BY <2>1 DEF IsMutating
<1> QED BY <1>2, <1>4, <1>5, <1>6, UnloggedIInv

(* SHOW.                                                                    *)
LEMMA ReadIInv ==
  ASSUME IInv, NEW d \in Databases, NEW s \in Statements[d],
         Read(d, s, Execute(mem[d], pipes, s))
  PROVE  IInv'
<1>1. PICK result : result = Execute(mem[d], pipes, s)
  OBVIOUS
<1>2. /\ s.op = "show" /\ mem' = [mem EXCEPT ![d] = result.inst]
      /\ shown' = (IF result.inst # mem[d] THEN shown \cup {d} ELSE shown)
      /\ UNCHANGED << pipes, disk, failed, astray, pipers >>
  BY <1>1 DEF Read, IsMutating
<1>3. s.op \in Operations /\ Sound(mem[d])
  BY StatementsAssumption DEF IInv, MemSound
<1>4. result = Show(mem[d], pipes, s)
  BY <1>1, <1>2, <1>3, Dispatched
<1>5. Sound(result.inst) /\ Content(result.inst) = Content(mem[d])
  BY <1>3, <1>4, ShowSound
<1>6. /\ \A e \in Databases \ {d} : e \in shown' <=> e \in shown
      /\ d \notin shown' => d \notin shown /\ result.inst = mem[d]
  BY <1>2
<1>7. astray' = [e \in Databases |-> astray'[e]]
  BY <1>2 DEF IInv, TypeInv
<1> QED BY <1>2, <1>5, <1>6, <1>7, UnloggedIInv

(* CHECKPOINT.                                                              *)
LEMMA CheckpointIInv ==
  ASSUME IInv, NEW d \in Databases, Checkpoint(d)
  PROVE  IInv'
<1>1. PICK dir : dir = [checkpoint |-> Snapshot(mem[d]), pipes |-> pipes, log |-> << >>]
  OBVIOUS
<1>2. /\ disk' = [disk EXCEPT ![d] = dir] /\ astray' = [astray EXCEPT ![d] = {}]
      /\ shown' = shown \ {d} /\ pipers' = (IF pipes = Nothing THEN pipers ELSE pipers \cup {d})
      /\ mem' = mem /\ pipes' = pipes /\ failed' = failed
  BY <1>1 DEF Checkpoint
<1>3. Sound(mem[d]) /\ IsMap(pipes)
  BY DEF IInv, MemSound, TypeInv
<1>4. /\ disk'[d] = dir /\ \A e \in Databases \ {d} : disk'[e] = disk[e]
      /\ disk' = [e \in Databases |-> disk'[e]]
  BY <1>2 DEF IInv, TypeInv
<1>5. /\ dir.checkpoint = Snapshot(mem[d]) /\ dir.pipes = pipes /\ dir.log = << >>
      /\ dir = [checkpoint |-> dir.checkpoint, pipes |-> dir.pipes, log |-> dir.log]
  BY <1>1
<1>6. Restored(dir.checkpoint) = mem[d]
  BY <1>3, <1>5, SnapshotRestored DEF Sound
<1>7. TypeInv'
  <2>1. astray' = [e \in Databases |-> astray'[e]] /\ pipers' \subseteq Databases
    BY <1>2 DEF IInv, TypeInv
  <2> QED BY <1>2, <1>4, <2>1 DEF IInv, TypeInv
<1>8. MemSound'
  BY <1>2 DEF IInv, MemSound
<1>9. DiskSound'
  <2>1. << >> \in Seq(Statements[d])
    OBVIOUS
  <2> QED BY <1>3, <1>4, <1>5, <1>6, <2>1 DEF IInv, DiskSound
<1>10. PipersKnown'
  <2>1. ASSUME NEW e \in Databases \ pipers' PROVE Plain(e)'
    <3>1. CASE e = d
      <4>1. pipes = Nothing
        BY <1>2, <2>1, <3>1
      <4>2. disk'[d].pipes = Nothing /\ Len(disk'[d].log) = 0
        BY <1>4, <1>5, <4>1
      <4> QED BY <3>1, <4>2 DEF Plain
    <3>2. CASE e # d
      <4>1. Plain(e)
        BY <1>2, <2>1 DEF IInv, PipersKnown
      <4> QED BY <1>4, <3>2, <4>1 DEF Plain
    <3> QED BY <3>1, <3>2
  <2>2. pipers' = {} => pipes' = Nothing
    BY <1>2 DEF IInv, PipersKnown
  <2> QED BY <2>1, <2>2 DEF PipersKnown
<1>11. LogsTell'
  <2>1. SUFFICES ASSUME NEW e \in Databases, e \notin failed', astray'[e] = {}, Alone(e)'
                 PROVE  Tells(e)'
    BY DEF LogsTell
  <2>2. CASE e = d
    <3>1. Run(d)' = Beginning(dir, Nothing)
      BY <1>4, <1>5, ReplayedEmpty DEF Run
    <3>2. Over(pipes, Nothing) = pipes
      BY <1>3, OverNothing
    <3>3. Run(d)' = Ok(mem[d], pipes)
      BY <1>5, <1>6, <3>1, <3>2 DEF Beginning
    <3>4. (Run(d)').ok /\ (Run(d)').inst = mem'[d] /\ (Run(d)').pipes = pipes'
      BY <1>2, <3>3 DEF Ok
    <3> QED BY <2>2, <3>4 DEF Tells
  <2>3. CASE e # d
    <3>1. Alone(e)
      BY <1>2, <2>1, AloneBefore
    <3>2. Tells(e)
      BY <1>2, <2>1, <2>3, <3>1 DEF IInv, LogsTell, TypeInv
    <3>3. Run(e)' = Run(e)
      BY <1>4, <2>3 DEF Run
    <3>4. (pipers' \subseteq {e} => pipers \subseteq {e}) /\ (e \notin shown' => e \notin shown)
      BY <1>2, <2>3
    <3> QED BY <1>2, <3>2, <3>3, <3>4 DEF Tells
  <2> QED BY <2>2, <2>3
<1> QED BY <1>7, <1>8, <1>9, <1>10, <1>11 DEF IInv

(* What a restart makes of a database that is alone with its pipelines.     *)
LEMMA RecoveredRun ==
  ASSUME IInv, NEW d \in Databases, Alone(d)
  PROVE  /\ Recovered.mem[d] = Run(d).inst
         /\ d \in Recovered.failed <=> ~Run(d).ok
         /\ pipers \subseteq {d} => Recovered.pipes = Run(d).pipes
<1>1. DiskSound /\ \A e \in Databases \ pipers : Plain(e)
  BY DEF IInv, PipersKnown
<1>2. CASE pipers \subseteq {d}
  <2>1. \A e \in Databases \ {d} : Plain(e)
    BY <1>1, <1>2
  <2> QED BY <1>1, <2>1, RecoveredAlone
<1>3. CASE ~ (pipers \subseteq {d})
  <2>1. Plain(d)
    BY <1>1, <1>3 DEF Alone
  <2>2. PICK registry : /\ IsMap(registry)
                        /\ Recovered.mem[d] = Replayed(disk[d], registry).inst
                        /\ d \in Recovered.failed <=> ~Replayed(disk[d], registry).ok
    BY <1>1, RecoveredEach
  <2>3. /\ Replayed(disk[d], registry).ok = Run(d).ok
        /\ Replayed(disk[d], registry).inst = Run(d).inst
    BY <1>1, <2>1, <2>2, RunPlain
  <2> QED BY <1>3, <2>2, <2>3
<1> QED BY <1>2, <1>3

(* A restart.                                                               *)
LEMMA RestartIInv ==
  ASSUME IInv, Restart
  PROVE  IInv'
<1>1. /\ mem' = Recovered.mem /\ pipes' = Recovered.pipes /\ failed' = Recovered.failed
      /\ astray' = [d \in Databases |-> IF d \in Recovered.failed THEN astray[d] ELSE {}]
      /\ shown' = {} /\ disk' = disk /\ pipers' = pipers
  BY DEF Restart
<1>2. DiskSound
  BY DEF IInv
<1>3. /\ IsMap(mem') /\ DOMAIN mem' = Databases /\ IsMap(pipes')
  BY <1>1, <1>2, RecoveredEach
<1>4. TypeInv'
  BY <1>1, <1>3 DEF IInv, TypeInv, IsMap
<1>5. MemSound'
  <2>1. ASSUME NEW d \in Databases PROVE Sound(mem'[d])
    <3>1. PICK registry : mem'[d] = Replayed(disk[d], registry).inst
      BY <1>1, <1>2, RecoveredEach
    <3> QED BY <1>2, <3>1, RunSound
  <2> QED BY <2>1 DEF MemSound
<1>6. DiskSound'
  BY <1>1, <1>2 DEF DiskSound
<1>7. PipersKnown'
  <2>1. \A d \in Databases \ pipers' : Plain(d)'
    BY <1>1 DEF IInv, PipersKnown, Plain
  <2>2. ASSUME pipers' = {} PROVE pipes' = Nothing
    <3>1. PICK d \in Databases : TRUE
      BY DbOrderAssumption, DbOrderFacts, EmptySeq
    <3>2. \A e \in Databases : Plain(e)
      BY <1>1, <2>2 DEF IInv, PipersKnown
    <3>3. Recovered.pipes = Run(d).pipes
      BY <1>2, <3>2, RecoveredAlone
    <3>4. Run(d).pipes = Nothing
      BY <1>2, <3>2, NothingMap, RunPlain DEF Run
    <3> QED BY <1>1, <3>3, <3>4
  <2> QED BY <2>1, <2>2 DEF PipersKnown
<1>8. LogsTell'
  <2>1. SUFFICES ASSUME NEW d \in Databases, d \notin failed', Alone(d)'
                 PROVE  Tells(d)'
    BY DEF LogsTell
  <2>2. Alone(d) /\ Run(d)' = Run(d)
    BY <1>1, <2>1 DEF Alone, Run
  <2>3. /\ Recovered.mem[d] = Run(d).inst
        /\ d \in Recovered.failed <=> ~Run(d).ok
        /\ pipers \subseteq {d} => Recovered.pipes = Run(d).pipes
    BY <2>2, RecoveredRun
  <2> QED BY <1>1, <2>1, <2>2, <2>3 DEF Tells
<1> QED BY <1>4, <1>5, <1>6, <1>7, <1>8 DEF IInv

(* Every step.                                                              *)
LEMMA NextIInv == IInv /\ [Next]_vars => IInv'
<1>1. SUFFICES ASSUME IInv, [Next]_vars PROVE IInv'
  OBVIOUS
<1>2. CASE UNCHANGED vars
  BY <1>1, <1>2 DEF vars, IInv, TypeInv, DiskSound, MemSound, PipersKnown, LogsTell, Tells,
     Plain, Run, Alone
<1>3. ASSUME NEW d \in Databases, NEW s \in Statements[d], Submit(d, s) PROVE IInv'
  <2>1. /\ Serves(d)
        /\ \/ Mutate(d, s, Execute(mem[d], pipes, s))
           \/ Fail(d, s, Execute(mem[d], pipes, s))
           \/ Read(d, s, Execute(mem[d], pipes, s))
    BY <1>3 DEF Submit
  <2> QED BY <1>1, <2>1, MutateIInv, FailIInv, ReadIInv
<1>4. ASSUME NEW d \in Databases, Checkpoint(d) PROVE IInv'
  BY <1>1, <1>4, CheckpointIInv
<1>5. CASE Restart
  BY <1>1, <1>5, RestartIInv
<1> QED BY <1>1, <1>2, <1>3, <1>4, <1>5 DEF Next

(* In every reachable state the disks are sound, the instances are sound,   *)
(* and the log of every database that recovered and that neither a failed   *)
(* statement, a SHOW of a lazy tensor nor another database's pipelines led  *)
(* astray replays to what is in its memory.                                 *)
THEOREM LogsAlwaysTell == Spec => []IInv
<1>1. Init => IInv
  BY InitIInv
<1>2. IInv /\ [Next]_vars => IInv'
  BY NextIInv
<1> QED BY <1>1, <1>2, PTL DEF Spec

(* No name and no column of a tensor-first dataset ever leads to a tensor   *)
(* or an expression that is not there, whatever statements succeed or fail, *)
(* across checkpoints, restarts and resets (execute_statement,              *)
(* restore_checkpoint, replay_active).                                      *)
THEOREM NoNameEverDangles == Spec => []NoNameDangles
<1>1. IInv => NoNameDangles
  BY DEF IInv, MemSound, Sound, NoNameDangles
<1> QED BY <1>1, LogsAlwaysTell, PTL

(* A restart rebuilds what clients could see: restore_checkpoint and        *)
(* replay_active, database after database over one registry of pipelines,   *)
(* end in the content that was in memory, for any number of databases and   *)
(* statements.                                                              *)
THEOREM RestartsChangeNothing == Spec => []RestartChangesNothing
<1>1. IInv => RestartChangesNothing
  <2>1. SUFFICES ASSUME IInv, NEW d \in Databases \ failed, astray[d] = {}, Alone(d)
                 PROVE  Rebuilds(d, Recovered)
    BY DEF RestartChangesNothing
  <2>2. Tells(d)
    BY <2>1 DEF IInv, LogsTell
  <2>3. Recovered.mem[d] = Run(d).inst /\ d \notin Recovered.failed
    BY <2>1, <2>2, RecoveredRun DEF Tells
  <2>4. Sound(Run(d).inst)
    BY <2>1, RunSound DEF IInv, Run
  <2> QED BY <2>2, <2>3, <2>4 DEF Rebuilds, Tells, Sound
<1> QED BY <1>1, LogsAlwaysTell, PTL

(* Names that share a tensor share it after a restart, and no other names   *)
(* do.                                                                      *)
THEOREM AliasesAlwaysStay == Spec => []AliasesStay
<1>1. IInv => AliasesStay
  <2>1. SUFFICES ASSUME IInv, NEW d \in Databases \ failed, astray[d] = {}, Alone(d), d \notin shown
                 PROVE  Sharing(Recovered.mem[d]) = Sharing(mem[d])
    BY DEF AliasesStay
  <2>2. Tells(d)
    BY <2>1 DEF IInv, LogsTell
  <2>3. Recovered.mem[d] = mem[d]
    BY <2>1, <2>2, RecoveredRun DEF Tells
  <2> QED BY <2>3
<1> QED BY <1>1, LogsAlwaysTell, PTL
=============================================================================
