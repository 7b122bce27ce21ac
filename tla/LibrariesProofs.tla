---------------------------- MODULE LibrariesProofs ----------------------------
(***************************************************************************)
(* What holds of the dispatcher, for every number of threads and every     *)
(* size of the pipe, of the image objects, for any of them and any         *)
(* surfaces, and of the directory list, for every tree of directories.     *)
(*                                                                         *)
(* The dispatcher: the account is kept in bytes.  What was read in this    *)
(* round and what is in the pipe are the two bytes of every call that was  *)
(* not answered yet.                                                       *)
(*                                                                         *)
(* The image: that the references add up is inductive once it is known     *)
(* that an object is the only one with its surface, that a surface a       *)
(* client holds belongs to none, and that a context draws to the surface   *)
(* of its object.                                                          *)
(*                                                                         *)
(* The list: the reference is at every moment a part that the walk is done *)
(* with, followed by what is ahead of its activations, the innermost       *)
(* first.  Of the first part, the list has all but some of what is gone.   *)
(* What is gone takes everything below it along (UpClosed), so a directory *)
(* that is not opened has nothing that would still have to be listed.      *)
(***************************************************************************)
EXTENDS Libraries, RecursionProofs, SequenceTheorems, FiniteSetTheorems, TLAPS

-----------------------------------------------------------------------------
(* The dispatcher.                                                         *)

BytesKept ==
  /\ 2 * answered + missedEvents + pipe = 2 * written
  /\ missedEvents > 0 => reading
  /\ reading => missedEvents + pipe > 0

DispatcherInv == DispatcherTypeOK /\ BytesKept

LEMMA DispatcherInitHolds == DispatcherInit => DispatcherInv
<1> SUFFICES ASSUME DispatcherInit PROVE DispatcherInv
  OBVIOUS
<1>1. Cardinality({}) = 0 /\ IsFiniteSet({})
  BY FS_EmptySet
<1>2. written = 0
  BY <1>1 DEF DispatcherInit, written
<1>3. DispatcherTypeOK
  <2>1. reading \in BOOLEAN
    BY DEF DispatcherInit
  <2>2. calling \subseteq Threads /\ IsFiniteSet(calling)
    BY <1>1 DEF DispatcherInit
  <2>3. 0 \in 0 .. MaxSignals /\ 0 \in 0 .. Capacity
    BY DispatcherAssumption
  <2>4. QED
    BY <2>1, <2>2, <2>3 DEF DispatcherInit, DispatcherTypeOK
<1>4. BytesKept
  BY <1>2 DEF DispatcherInit, BytesKept
<1>5. QED
  BY <1>3, <1>4 DEF DispatcherInv

\* A call that begins has not written, one that has written is no longer calling.
LEMMA CallersCounted ==
  ASSUME DispatcherTypeOK, NEW t
  PROVE  /\ Cardinality(calling) \in Nat
         /\ t \notin calling => /\ IsFiniteSet(calling \cup {t})
                                /\ Cardinality(calling \cup {t}) = Cardinality(calling) + 1
         /\ t \in calling => /\ IsFiniteSet(calling \ {t})
                             /\ Cardinality(calling \ {t}) = Cardinality(calling) - 1
BY FS_CardinalityType, FS_AddElement, FS_RemoveElement DEF DispatcherTypeOK

LEMMA CallStep ==
  ASSUME DispatcherInv, NEW t \in Threads, signal(t) \/ write(t)
  PROVE  DispatcherInv'
<1> USE DEF DispatcherInv, DispatcherTypeOK, BytesKept, written, Written
<1>1. Cardinality(calling) \in Nat
  BY CallersCounted
<1>2. CASE signal(t)
  <2>1. /\ IsFiniteSet(calling')
        /\ Cardinality(calling') = Cardinality(calling) + 1
    BY <1>2, CallersCounted DEF signal
  <2>2. QED
    BY <1>1, <1>2, <2>1, DispatcherAssumption DEF signal
<1>3. CASE write(t)
  <2>1. /\ IsFiniteSet(calling')
        /\ Cardinality(calling') = Cardinality(calling) - 1
    BY <1>3, CallersCounted DEF write
  <2>2. pipe' \in 0 .. Capacity
    BY <1>3, DispatcherAssumption DEF write
  <2>3. QED
    BY <1>1, <1>3, <2>1, <2>2, DispatcherAssumption DEF write
<1>4. QED
  BY <1>2, <1>3

LEMMA MainLoopStep ==
  ASSUME DispatcherInv, MainLoop
  PROVE  DispatcherInv'
<1> USE DEF DispatcherInv, DispatcherTypeOK, BytesKept, written
<1>1. Cardinality(calling) \in Nat
  BY FS_CardinalityType
<1>2. CASE dispatcher_async_handler
  BY <1>1, <1>2, DispatcherAssumption DEF dispatcher_async_handler
<1>3. CASE read
  BY <1>1, <1>3, DispatcherAssumption DEF read
<1>4. CASE emit
  <2>1. answered' \in Nat
    BY <1>1, <1>4 DEF emit
  <2>3. /\ reading' = FALSE
        /\ missedEvents' \in Nat /\ told' \in Nat /\ emits' \in Nat
    BY <1>4 DEF emit
  <2>4. DispatcherTypeOK'
    <3>1. UNCHANGED <<calling, begun, pipe>>
      BY <1>4 DEF emit
    <3>2. QED
      BY <2>1, <2>3, <3>1
  <2>5. BytesKept'
    BY <1>1, <1>4 DEF emit
  <2>6. QED
    BY <2>4, <2>5
<1>5. QED
  BY <1>2, <1>3, <1>4 DEF MainLoop

LEMMA DispatcherInvInductive == DispatcherInv /\ [DispatcherNext]_dispatcherVars => DispatcherInv'
<1> SUFFICES ASSUME DispatcherInv, [DispatcherNext]_dispatcherVars PROVE DispatcherInv'
  OBVIOUS
<1>1. CASE UNCHANGED dispatcherVars
  BY <1>1 DEF dispatcherVars, DispatcherInv, DispatcherTypeOK, BytesKept, written
<1>2. QED
  BY <1>1, CallStep, MainLoopStep DEF DispatcherNext

LEMMA AlwaysDispatcherInv == DispatcherSpec => []DispatcherInv
BY DispatcherInitHolds, DispatcherInvInductive, PTL DEF DispatcherSpec

\* Every variable has its type and the pipe is never overfilled, whatever the
\* number of threads.
THEOREM DispatcherTypes == DispatcherSpec => []DispatcherTypeOK
BY AlwaysDispatcherInv, PTL DEF DispatcherInv

-----------------------------------------------------------------------------
(* The dispatcher implements WakeUp: a call begins a wake-up, an emission  *)
(* answers those that have written, everything else stutters.              *)

LEMMA InitPromised == DispatcherInit => Promise!Idle
BY DEF DispatcherInit, Promise!Idle

LEMMA StepPromised ==
  DispatcherInv /\ [DispatcherNext]_dispatcherVars
    => [Promise!Raise \/ Promise!Answer]_Promise!wakeUpVars
<1> SUFFICES ASSUME DispatcherInv, [DispatcherNext]_dispatcherVars
             PROVE  [Promise!Raise \/ Promise!Answer]_Promise!wakeUpVars
  OBVIOUS
<1> USE DEF Promise!wakeUpVars
<1>1. CASE \E t \in Threads : signal(t)
  BY <1>1 DEF signal, Promise!Raise
<1>2. CASE \E t \in Threads : write(t)
  BY <1>2 DEF write
<1>3. CASE dispatcher_async_handler \/ read
  BY <1>3 DEF dispatcher_async_handler, read
<1>4. CASE emit
  <2>1. Cardinality(calling) \in Nat
    BY FS_CardinalityType DEF DispatcherInv, DispatcherTypeOK
  <2>2. written \in answered + 1 .. begun
    BY <1>4, <2>1 DEF emit, DispatcherInv, DispatcherTypeOK, BytesKept, written
  <2>3. QED
    BY <1>4, <2>2 DEF emit, Promise!Answer
<1>5. CASE UNCHANGED dispatcherVars
  BY <1>5 DEF dispatcherVars
<1>6. QED
  BY <1>1, <1>2, <1>3, <1>4, <1>5 DEF DispatcherNext, MainLoop

\* No emission without a call that it answers, and no call answered twice, for
\* every number of threads and every size of the pipe.
THEOREM DispatcherPromises == DispatcherSpec => Promise!SafeWakeUp
BY InitPromised, StepPromised, AlwaysDispatcherInv, PTL DEF DispatcherSpec, Promise!SafeWakeUp

-----------------------------------------------------------------------------
(* The Cairo image.                                                        *)

Known(w) ==
  /\ w.state # "live" => w.surface = NoSurface
  /\ w.mCairo \in {NoSurface, w.surface}
  /\ w.surface # NoSurface => w.pixels = w.surface /\ w.died = 1

SoleOwners ==
  /\ \A o \in Objects : Known(widget[o])
  /\ \A o \in Objects : widget[o].surface \in (made \ held) \cup {NoSurface}
  /\ \A o, p \in Objects :
       widget[o].surface = widget[p].surface /\ widget[o].surface # NoSurface => o = p

RefsRight(s) ==
  refs[s] = One(OwnerOf(s) # {}) + One(PainterOf(s) # {}) + One(s \in held) + One(s \in lost)

Filled(w) ==
  IF w.resized = 1 THEN w.fill = w.size
  ELSE w.surface # NoSurface => w.fill = SizeOf[w.surface]

ImageInv == ImageTypeOK /\ SoleOwners /\ \A s \in Surfaces : RefsRight(s)

-----------------------------------------------------------------------------
(* Every action changes one object at most.                                *)

LEMMA OwnersOfChanged ==
  ASSUME ImageTypeOK, SoleOwners, NEW o \in Objects, NEW w,
         widget' = [widget EXCEPT ![o] = w], NEW s \in Surfaces
  PROVE  /\ OwnerOf(s)' # {} <=> w.surface = s \/ (OwnerOf(s) # {} /\ widget[o].surface # s)
         /\ PainterOf(s)' # {} <=> w.mCairo = s \/ (PainterOf(s) # {} /\ widget[o].mCairo # s)
<1>1. \A p \in Objects : widget'[p] = IF p = o THEN w ELSE widget[p]
  BY DEF ImageTypeOK
<1>2. s # NoSurface
  BY ImageAssumption
<1>3. \A p \in Objects : widget[p].surface = s /\ widget[o].surface = s => p = o
  BY <1>2 DEF SoleOwners
<1>4. \A p \in Objects : widget[p].mCairo = s /\ widget[o].mCairo = s => p = o
  BY <1>2, <1>3 DEF SoleOwners, Known
<1>5. OwnerOf(s)' # {} <=> w.surface = s \/ (OwnerOf(s) # {} /\ widget[o].surface # s)
  BY <1>1, <1>3 DEF OwnerOf
<1>6. PainterOf(s)' # {} <=> w.mCairo = s \/ (PainterOf(s) # {} /\ widget[o].mCairo # s)
  BY <1>1, <1>4 DEF PainterOf
<1>7. QED
  BY <1>5, <1>6

LEMMA SoleOwnersOfChanged ==
  ASSUME ImageTypeOK, SoleOwners, NEW o \in Objects, NEW w,
         widget' = [widget EXCEPT ![o] = w],
         Known(w), w.surface \in (made' \ held') \cup {NoSurface},
         w.surface # NoSurface => w.surface = widget[o].surface \/ OwnerOf(w.surface) = {},
         \A p \in Objects \ {o} : widget[p].surface \notin made
                                    \/ widget[p].surface \in made' \ held'
  PROVE  SoleOwners'
<1>1. \A p \in Objects : widget'[p] = IF p = o THEN w ELSE widget[p]
  BY DEF ImageTypeOK
<1>2. \A p \in Objects : Known(widget'[p])
  BY <1>1 DEF SoleOwners
<1>3. \A p \in Objects : widget'[p].surface \in (made' \ held') \cup {NoSurface}
  BY <1>1, ImageAssumption DEF SoleOwners
<1>4. \A p \in Objects \ {o} : widget[p].surface = w.surface => w.surface = NoSurface
  BY DEF SoleOwners, OwnerOf
<1>5. ASSUME NEW p \in Objects, NEW q \in Objects,
             widget'[p].surface = widget'[q].surface, widget'[p].surface # NoSurface
      PROVE  p = q
  BY <1>1, <1>4, <1>5 DEF SoleOwners
<1>6. QED
  BY <1>2, <1>3, <1>5 DEF SoleOwners, Known

\* A surface that no client holds any more or that is new belongs to nobody.
LEMMA Ownerless ==
  ASSUME SoleOwners, NEW s \in Surfaces, s \in held \/ s \notin made
  PROVE  OwnerOf(s) = {} /\ PainterOf(s) = {}
<1>1. s # NoSurface
  BY ImageAssumption
<1>2. OwnerOf(s) = {}
  BY <1>1 DEF SoleOwners, OwnerOf
<1>3. QED
  BY <1>1, <1>2 DEF SoleOwners, Known, OwnerOf, PainterOf
-----------------------------------------------------------------------------
LEMMA ImageInitHolds == ImageInit => ImageInv
<1> SUFFICES ASSUME ImageInit PROVE ImageInv
  OBVIOUS
<1> USE ImageAssumption
<1>0. PICK size \in Sizes : widget =
        [o \in Objects |->
           [state |-> "none", surface |-> NoSurface, pixels |-> NoSurface, fill |-> size,
            size |-> size, died |-> 0, resized |-> 0, mCairo |-> NoSurface]]
  BY DEF ImageInit
<1>r. /\ refs = [s \in Surfaces |-> 0]
      /\ made = {} /\ held = {} /\ lost = {} /\ aborted = FALSE
  BY DEF ImageInit
<1>1. ImageTypeOK
  <2>1. widget \in [Objects -> Object]
    BY <1>0 DEF Object
  <2>2. refs \in [Surfaces -> Int]
    BY <1>r
  <2>3. aborted \in BOOLEAN
    BY <1>r
  <2>4. made \subseteq Surfaces /\ held \subseteq made /\ lost \subseteq made
    BY <1>r
  <2>5. QED
    BY <2>1, <2>2, <2>3, <2>4, Zenon DEF ImageTypeOK
<1>2. \A o \in Objects : /\ widget[o].surface = NoSurface
                         /\ widget[o].mCairo = NoSurface
  BY <1>0
<1>3. SoleOwners
  BY <1>2 DEF SoleOwners, Known
<1>4. \A s \in Surfaces : RefsRight(s)
  BY <1>2, <1>r DEF RefsRight, OwnerOf, PainterOf, One
<1>5. QED
  BY <1>1, <1>3, <1>4 DEF ImageInv

LEMMA AttachedTyped ==
  ASSUME NEW w \in Object, NEW s \in Surfaces
  PROVE  /\ Attached(w, s) \in Object
         /\ Attached(w, s).surface = s /\ Attached(w, s).pixels = s
         /\ Attached(w, s).died = 1 /\ Attached(w, s).mCairo = w.mCairo
         /\ Attached(w, s).state = w.state /\ Attached(w, s).resized = w.resized
         /\ Attached(w, s).fill = SizeOf[s] /\ Attached(w, s).size = SizeOf[s]
<1>1. SizeOf[s] \in Sizes
  BY ImageAssumption
<1>2. QED
  BY <1>1 DEF Attached, Object

\* The client creates a surface or lets go of one.
LEMMA ClientStep ==
  ASSUME ImageInv, NEW s \in Surfaces, Creates(s) \/ Destroys(s)
  PROVE  ImageInv'
<1> USE DEF ImageInv
<1>1. OwnerOf(s) = {} /\ PainterOf(s) = {} /\ (Creates(s) => s \notin lost)
  BY Ownerless DEF Creates, Destroys, ImageTypeOK
<1>2. UNCHANGED <<widget, lost, aborted>>
  BY DEF Creates, Destroys
<1>3. ImageTypeOK'
  BY <1>2 DEF ImageTypeOK, Creates, Destroys, Referred, Released
<1>4. SoleOwners'
  <2>1. \A o \in Objects : widget[o].surface # s
    BY <1>1 DEF OwnerOf
  <2>2. \A o \in Objects : widget[o].surface \in (made' \ held') \cup {NoSurface}
    BY <2>1 DEF SoleOwners, Creates, Destroys
  <2>3. QED
    BY <1>2, <2>2 DEF SoleOwners, Known
<1>5. ASSUME NEW r \in Surfaces PROVE RefsRight(r)'
  <2>1. OwnerOf(r)' = OwnerOf(r) /\ PainterOf(r)' = PainterOf(r)
    BY <1>2 DEF OwnerOf, PainterOf
  <2>2. RefsRight(r) /\ refs[r] \in Int
    BY DEF ImageTypeOK
  <2>3. CASE r # s
    BY <1>2, <2>1, <2>2, <2>3
    DEF Creates, Destroys, Referred, Released, RefsRight, ImageTypeOK
  <2>4. CASE r = s
    <3>1. CASE Creates(s)
      BY <1>1, <1>2, <2>1, <2>2, <2>4, <3>1, ImageAssumption
      DEF Creates, Referred, RefsRight, ImageTypeOK, One
    <3>2. CASE Destroys(s)
      BY <1>1, <1>2, <2>1, <2>2, <2>4, <3>2, ImageAssumption
      DEF Destroys, Released, RefsRight, ImageTypeOK, One
    <3>3. QED
      BY <3>1, <3>2
  <2>5. QED
    BY <2>3, <2>4
<1>6. QED
  BY <1>3, <1>4, <1>5

\* An object is created around a surface, or is not.
LEMMA NewStep ==
  ASSUME ImageInv, NEW o \in Objects, NEW s \in Surfaces, NEW added \in BOOLEAN,
         NEW isMap \in BOOLEAN, esmart_image_cairo_new(o, s, added, isMap)
  PROVE  ImageInv'
<1> USE DEF ImageInv, esmart_image_cairo_new, createSurface
<1>1. /\ OwnerOf(s) = {} /\ PainterOf(s) = {} /\ s \notin lost /\ s \notin held
      /\ s # NoSurface
  BY Ownerless, ImageAssumption DEF ImageTypeOK
<1>2. /\ widget[o] \in Object /\ widget[o].surface = NoSurface
      /\ widget[o].mCairo = NoSurface
  BY DEF SoleOwners, Known, ImageTypeOK
<1>3. CASE s \in Valid /\ added
  <2> DEFINE w == [Attached(widget[o], s) EXCEPT
                     !.state = "live", !.mCairo = IF isMap THEN s ELSE NoSurface]
  <2>1. widget' = [widget EXCEPT ![o] = w] /\ UNCHANGED <<held, lost, aborted>>
    BY <1>3
  <2>a. /\ Attached(widget[o], s) \in Object
        /\ Attached(widget[o], s).surface = s /\ Attached(widget[o], s).pixels = s
        /\ Attached(widget[o], s).died = 1
    BY <1>2, AttachedTyped
  <2>2. /\ w \in Object /\ w.surface = s /\ w.pixels = s /\ w.died = 1
        /\ w.state = "live" /\ w.mCairo = IF isMap THEN s ELSE NoSurface
    BY <2>a DEF Object
  <2> HIDE DEF w
  <2>3. ImageTypeOK'
    BY <1>3, <2>1, <2>2 DEF ImageTypeOK, Referred
  <2>4. SoleOwners'
    BY <1>1, <2>1, <2>2, SoleOwnersOfChanged DEF Known, SoleOwners, ImageTypeOK
  <2>5. ASSUME NEW r \in Surfaces PROVE RefsRight(r)'
    <3>0. /\ OwnerOf(r)' # {} <=> w.surface = r \/ (OwnerOf(r) # {} /\ widget[o].surface # r)
          /\ PainterOf(r)' # {} <=> w.mCairo = r \/ (PainterOf(r) # {} /\ widget[o].mCairo # r)
      BY <2>1, OwnersOfChanged
    <3>1. /\ OwnerOf(r)' # {} <=> r = s \/ OwnerOf(r) # {}
          /\ PainterOf(r)' # {} <=> (isMap /\ r = s) \/ PainterOf(r) # {}
      BY <1>1, <1>2, <2>2, <3>0, ImageAssumption
    <3>2. RefsRight(r) /\ refs[r] \in Int
      BY DEF ImageTypeOK
    <3>3. refs'[r] = IF r = s THEN IF isMap THEN refs[r] + 2 ELSE refs[r] + 1 ELSE refs[r]
      BY <1>3, <3>2 DEF ImageTypeOK, Referred
    <3>4. QED
      BY <1>1, <2>1, <3>1, <3>2, <3>3 DEF RefsRight, One
  <2>6. QED
    BY <2>3, <2>4, <2>5
<1>4. CASE ~(s \in Valid /\ added)
  <2> DEFINE w == [widget[o] EXCEPT !.state = "gone"]
  <2>1. widget' = [widget EXCEPT ![o] = w] /\ UNCHANGED held
    BY <1>4
  <2>2. w \in Object /\ w.surface = NoSurface /\ w.mCairo = NoSurface
    BY <1>2 DEF Object
  <2> HIDE DEF w
  <2>3. ImageTypeOK'
    BY <1>4, <2>1, <2>2 DEF ImageTypeOK, Referred
  <2>4. SoleOwners'
    BY <1>1, <2>1, <2>2, SoleOwnersOfChanged DEF Known, SoleOwners, ImageTypeOK
  <2>5. ASSUME NEW r \in Surfaces PROVE RefsRight(r)'
    <3>0. /\ OwnerOf(r)' # {} <=> w.surface = r \/ (OwnerOf(r) # {} /\ widget[o].surface # r)
          /\ PainterOf(r)' # {} <=> w.mCairo = r \/ (PainterOf(r) # {} /\ widget[o].mCairo # r)
      BY <2>1, OwnersOfChanged
    <3>1. /\ OwnerOf(r)' # {} <=> OwnerOf(r) # {}
          /\ PainterOf(r)' # {} <=> PainterOf(r) # {}
      BY <1>1, <1>2, <2>2, <3>0, ImageAssumption
    <3>2. RefsRight(r) /\ refs[r] \in Int
      BY DEF ImageTypeOK
    <3>3. refs'[r] = IF r = s /\ s \in Valid THEN refs[r] + 1 ELSE refs[r]
      BY <1>4, <3>2 DEF ImageTypeOK, Referred
    <3>4. r \in lost' <=> r \in lost \/ (r = s /\ s \in Valid)
      BY <1>4
    <3>5. QED
      BY <1>1, <2>1, <3>1, <3>2, <3>3, <3>4 DEF RefsRight, One
  <2>6. QED
    BY <2>3, <2>4, <2>5
<1>5. QED
  BY <1>3, <1>4

\* A surface of the client's gets an object.
LEMMA FromSurfaceStep ==
  ASSUME ImageInv, NEW o \in Objects, NEW s \in Surfaces, NEW added \in BOOLEAN,
         esmart_image_cairo_new_from_surface(o, s, added)
  PROVE  ImageInv'
<1> USE DEF ImageInv, esmart_image_cairo_new_from_surface
<1>1. OwnerOf(s) = {} /\ PainterOf(s) = {} /\ s \in held /\ s \in made /\ s # NoSurface
  BY Ownerless, ImageAssumption DEF ImageTypeOK
<1>2. /\ widget[o] \in Object /\ widget[o].surface = NoSurface
      /\ widget[o].mCairo = NoSurface
  BY DEF SoleOwners, Known, ImageTypeOK
<1>3. CASE s \in Valid /\ added
  <2> DEFINE w == [Attached(widget[o], s) EXCEPT !.state = "live"]
  <2>1. widget' = [widget EXCEPT ![o] = w] /\ UNCHANGED <<refs, made, lost, aborted>>
    BY <1>3
  <2>a. /\ Attached(widget[o], s) \in Object
        /\ Attached(widget[o], s).surface = s /\ Attached(widget[o], s).pixels = s
        /\ Attached(widget[o], s).died = 1 /\ Attached(widget[o], s).mCairo = NoSurface
    BY <1>2, AttachedTyped
  <2>2. /\ w \in Object /\ w.surface = s /\ w.pixels = s /\ w.died = 1
        /\ w.state = "live" /\ w.mCairo = NoSurface
    BY <2>a DEF Object
  <2> HIDE DEF w
  <2>3. ImageTypeOK'
    BY <1>3, <2>1, <2>2 DEF ImageTypeOK
  <2>4. SoleOwners'
    BY <1>1, <1>3, <2>1, <2>2, SoleOwnersOfChanged DEF Known, SoleOwners, ImageTypeOK
  <2>5. ASSUME NEW r \in Surfaces PROVE RefsRight(r)'
    <3>0. /\ OwnerOf(r)' # {} <=> w.surface = r \/ (OwnerOf(r) # {} /\ widget[o].surface # r)
          /\ PainterOf(r)' # {} <=> w.mCairo = r \/ (PainterOf(r) # {} /\ widget[o].mCairo # r)
      BY <2>1, OwnersOfChanged
    <3>1. /\ OwnerOf(r)' # {} <=> r = s \/ OwnerOf(r) # {}
          /\ PainterOf(r)' # {} <=> PainterOf(r) # {}
      BY <1>1, <1>2, <2>2, <3>0, ImageAssumption
    <3>2. RefsRight(r) /\ refs[r] \in Int
      BY DEF ImageTypeOK
    <3>3. r \in held' <=> r \in held /\ r # s
      BY <1>3
    <3>4. QED
      BY <1>1, <2>1, <3>1, <3>2, <3>3 DEF RefsRight, One
  <2>6. QED
    BY <2>3, <2>4, <2>5
<1>4. CASE ~(s \in Valid /\ added)
  <2> DEFINE w == [widget[o] EXCEPT !.state = "gone"]
  <2>1. widget' = [widget EXCEPT ![o] = w] /\ UNCHANGED <<refs, made, held, lost, aborted>>
    BY <1>4
  <2>2. w \in Object /\ w.surface = NoSurface /\ w.mCairo = NoSurface
    BY <1>2 DEF Object
  <2> HIDE DEF w
  <2>3. ImageTypeOK'
    BY <2>1, <2>2 DEF ImageTypeOK
  <2>4. SoleOwners'
    BY <1>1, <2>1, <2>2, SoleOwnersOfChanged DEF Known, SoleOwners, ImageTypeOK
  <2>5. ASSUME NEW r \in Surfaces PROVE RefsRight(r)'
    <3>0. /\ OwnerOf(r)' # {} <=> w.surface = r \/ (OwnerOf(r) # {} /\ widget[o].surface # r)
          /\ PainterOf(r)' # {} <=> w.mCairo = r \/ (PainterOf(r) # {} /\ widget[o].mCairo # r)
      BY <2>1, OwnersOfChanged
    <3>1. /\ OwnerOf(r)' # {} <=> OwnerOf(r) # {}
          /\ PainterOf(r)' # {} <=> PainterOf(r) # {}
      BY <1>2, <2>2, <3>0, ImageAssumption
    <3>2. RefsRight(r)
      OBVIOUS
    <3>3. QED
      BY <2>1, <3>1, <3>2 DEF RefsRight, One
  <2>6. QED
    BY <2>3, <2>4, <2>5
<1>5. QED
  BY <1>3, <1>4

\* An object shows another surface of the client's, or none.
LEMMA SurfaceSetStep ==
  ASSUME ImageInv, NEW o \in Objects, NEW s \in Surfaces,
         esmart_image_cairo_surface_set(o, s)
  PROVE  ImageInv'
<1> USE DEF ImageInv, esmart_image_cairo_surface_set
<1>1. OwnerOf(s) = {} /\ PainterOf(s) = {} /\ s \in held /\ s \in made /\ s # NoSurface
  BY Ownerless, ImageAssumption DEF ImageTypeOK
<1>2. /\ widget[o] \in Object /\ widget[o].mCairo = NoSurface
      /\ widget[o].surface # s /\ widget[o].state = "live"
      /\ widget[o].surface \in Surfaces \cup {NoSurface}
  BY <1>1 DEF ImageTypeOK, OwnerOf, Live, Object
<1>3. CASE s \in Valid
  <2> DEFINE w == Attached(widget[o], s)
             old == widget[o].surface
  <2>1. widget' = [widget EXCEPT ![o] = w] /\ UNCHANGED <<made, lost, aborted>>
    BY <1>3
  <2>2. /\ w \in Object /\ w.surface = s /\ w.pixels = s /\ w.died = 1
        /\ w.state = "live" /\ w.mCairo = NoSurface
    BY <1>2, AttachedTyped
  <2> HIDE DEF w
  <2>3. ImageTypeOK'
    BY <1>3, <2>1, <2>2 DEF ImageTypeOK, Released
  <2>4. SoleOwners'
    BY <1>1, <1>3, <2>1, <2>2, SoleOwnersOfChanged DEF Known, SoleOwners, ImageTypeOK
  <2>5. ASSUME NEW r \in Surfaces PROVE RefsRight(r)'
    <3>0. /\ OwnerOf(r)' # {} <=> w.surface = r \/ (OwnerOf(r) # {} /\ widget[o].surface # r)
          /\ PainterOf(r)' # {} <=> w.mCairo = r \/ (PainterOf(r) # {} /\ widget[o].mCairo # r)
      BY <2>1, OwnersOfChanged
    <3>1. /\ OwnerOf(r)' # {} <=> r = s \/ (OwnerOf(r) # {} /\ r # old)
          /\ PainterOf(r)' # {} <=> PainterOf(r) # {}
      BY <1>1, <1>2, <2>2, <3>0, ImageAssumption
    <3>2. RefsRight(r) /\ refs[r] \in Int /\ r # NoSurface
      BY ImageAssumption DEF ImageTypeOK
    <3>3. r \in held' <=> r \in held /\ r # s
      BY <1>3
    <3>4. refs'[r] = IF r = old THEN refs[r] - 1 ELSE refs[r]
      BY <1>2, <1>3, <3>2 DEF ImageTypeOK, Released
    <3>5. r = old => OwnerOf(r) # {}
      BY DEF OwnerOf
    <3>6. QED
      BY <1>1, <1>2, <2>1, <3>1, <3>2, <3>3, <3>4, <3>5 DEF RefsRight, One
  <2>6. QED
    BY <2>3, <2>4, <2>5
<1>4. CASE s \notin Valid
  BY <1>4 DEF ImageTypeOK, SoleOwners, Known, RefsRight, OwnerOf, PainterOf, One
<1>5. QED
  BY <1>3, <1>4

LEMMA SurfaceNoneStep ==
  ASSUME ImageInv, NEW o \in Objects, surface_set_none(o)
  PROVE  ImageInv'
<1> USE DEF ImageInv, surface_set_none
<1> DEFINE w == [widget[o] EXCEPT !.surface = NoSurface, !.died = 0]
           old == widget[o].surface
<1>1. widget' = [widget EXCEPT ![o] = w] /\ UNCHANGED <<made, held, lost, aborted>>
  OBVIOUS
<1>2. /\ widget[o] \in Object /\ widget[o].mCairo = NoSurface
      /\ widget[o].surface \in Surfaces \cup {NoSurface}
  BY DEF ImageTypeOK, Object
<1>3. w \in Object /\ w.surface = NoSurface /\ w.mCairo = NoSurface
  BY <1>2 DEF Object
<1> HIDE DEF w
<1>4. ImageTypeOK'
  <2>1. refs' \in [Surfaces -> Int]
    BY <1>2 DEF ImageTypeOK, Released
  <2>2. widget' \in [Objects -> Object]
    BY <1>1, <1>3 DEF ImageTypeOK
  <2>3. QED
    BY <1>1, <2>1, <2>2 DEF ImageTypeOK
<1>5. SoleOwners'
  BY <1>1, <1>3, SoleOwnersOfChanged DEF Known, SoleOwners, ImageTypeOK
<1>6. ASSUME NEW r \in Surfaces PROVE RefsRight(r)'
  <2>0. /\ OwnerOf(r)' # {} <=> w.surface = r \/ (OwnerOf(r) # {} /\ widget[o].surface # r)
        /\ PainterOf(r)' # {} <=> w.mCairo = r \/ (PainterOf(r) # {} /\ widget[o].mCairo # r)
    BY <1>1, OwnersOfChanged
  <2>1. /\ OwnerOf(r)' # {} <=> OwnerOf(r) # {} /\ r # old
        /\ PainterOf(r)' # {} <=> PainterOf(r) # {}
    BY <1>2, <1>3, <2>0, ImageAssumption
  <2>2. RefsRight(r) /\ refs[r] \in Int /\ r # NoSurface
    BY ImageAssumption DEF ImageTypeOK
  <2>3. refs'[r] = IF r = old THEN refs[r] - 1 ELSE refs[r]
    BY <1>2, <2>2 DEF ImageTypeOK, Released
  <2>4. r = old => OwnerOf(r) # {}
    BY DEF OwnerOf
  <2>5. QED
    BY <1>1, <2>1, <2>2, <2>3, <2>4 DEF RefsRight, One
<1>7. QED
  BY <1>4, <1>5, <1>6

\* Resizing and the automatic fill leave the surface alone.
LEMMA SizeStep ==
  ASSUME ImageInv, NEW o \in Objects,
         (\E size \in Sizes : Resize(o, size))
           \/ \E enable \in BOOLEAN : esmart_image_cairo_fill_auto_set(o, enable)
  PROVE  ImageInv'
<1> USE DEF ImageInv
<1>1. widget[o] \in Object
  BY DEF ImageTypeOK
<1> DEFINE Becomes(size, fill, on) ==
             [widget[o] EXCEPT !.size = size, !.fill = fill, !.resized = on]
<1>2. \E size \in Sizes, fill \in Sizes, on \in {0, 1} :
        widget' = [widget EXCEPT ![o] = Becomes(size, fill, on)]
  <2>0. /\ widget[o].size \in Sizes /\ widget[o].resized \in {0, 1}
        /\ widget[o].fill \in Sizes
        /\ widget[o].surface # NoSurface => SizeOf[widget[o].surface] \in Sizes
    BY <1>1, ImageAssumption DEF Object
  <2>1. ASSUME NEW size \in Sizes, Resize(o, size)
        PROVE  \E fill \in Sizes :
                 widget' = [widget EXCEPT ![o] = Becomes(size, fill, widget[o].resized)]
    <3> DEFINE fill == IF widget[o].resized = 1 THEN size ELSE widget[o].fill
    <3>1. fill \in Sizes
      BY <2>0
    <3>2. widget' = [widget EXCEPT ![o] = Becomes(size, fill, widget[o].resized)]
      BY <1>1, <2>1 DEF Resize, ImageTypeOK, Object
    <3>3. QED
      BY <3>1, <3>2
  <2>2. ASSUME esmart_image_cairo_fill_auto_set(o, TRUE)
        PROVE  widget' = [widget EXCEPT ![o] =
                            Becomes(widget[o].size, widget[o].size, 1)]
    BY <1>1, <2>2, ZenonT(60) DEF esmart_image_cairo_fill_auto_set, ImageTypeOK, Object
  <2>3. ASSUME esmart_image_cairo_fill_auto_set(o, FALSE)
        PROVE  \E fill \in Sizes :
                 widget' = [widget EXCEPT ![o] = Becomes(widget[o].size, fill, 0)]
    <3> DEFINE fill == IF widget[o].surface # NoSurface THEN SizeOf[widget[o].surface]
                       ELSE widget[o].fill
    <3>1. fill \in Sizes
      BY <2>0
    <3>2. widget' = [widget EXCEPT ![o] = Becomes(widget[o].size, fill, 0)]
      BY <1>1, <2>3, ZenonT(60) DEF esmart_image_cairo_fill_auto_set, ImageTypeOK, Object
    <3>3. QED
      BY <3>1, <3>2
  <2> HIDE DEF Becomes
  <2>4. CASE \E size \in Sizes : Resize(o, size)
    BY <2>0, <2>1, <2>4
  <2>5. CASE \E enable \in BOOLEAN : esmart_image_cairo_fill_auto_set(o, enable)
    <3>1. esmart_image_cairo_fill_auto_set(o, TRUE)
            \/ esmart_image_cairo_fill_auto_set(o, FALSE)
      BY <2>5
    <3>2. QED
      BY <2>0, <2>2, <2>3, <3>1
  <2>6. QED
    BY <2>4, <2>5
<1>a. PICK size \in Sizes, fill \in Sizes, on \in {0, 1} :
        widget' = [widget EXCEPT ![o] = Becomes(size, fill, on)]
  BY <1>2
<1> DEFINE w == [widget[o] EXCEPT !.size = size, !.fill = fill, !.resized = on]
<1>3. /\ w \in Object /\ w.state = widget[o].state /\ w.surface = widget[o].surface
      /\ w.pixels = widget[o].pixels /\ w.died = widget[o].died
      /\ w.mCairo = widget[o].mCairo
  BY <1>1 DEF Object
<1>4. widget' = [widget EXCEPT ![o] = w]
  BY <1>a
<1>5. UNCHANGED <<refs, made, held, lost, aborted>>
  BY DEF Resize, esmart_image_cairo_fill_auto_set
<1> HIDE DEF w
<1>6. ImageTypeOK'
  BY <1>3, <1>4, <1>5 DEF ImageTypeOK
<1>7. SoleOwners'
  BY <1>3, <1>4, <1>5, SoleOwnersOfChanged DEF Known, SoleOwners, ImageTypeOK
<1>8. ASSUME NEW r \in Surfaces PROVE RefsRight(r)'
  <2>1. /\ OwnerOf(r)' # {} <=> w.surface = r \/ (OwnerOf(r) # {} /\ widget[o].surface # r)
        /\ PainterOf(r)' # {} <=> w.mCairo = r \/ (PainterOf(r) # {} /\ widget[o].mCairo # r)
    BY <1>4, OwnersOfChanged
  <2>2. /\ OwnerOf(r)' # {} <=> OwnerOf(r) # {}
        /\ PainterOf(r)' # {} <=> PainterOf(r) # {}
    BY <1>3, <2>1 DEF OwnerOf, PainterOf
  <2>3. RefsRight(r)
    OBVIOUS
  <2>4. QED
    BY <1>5, <2>2, <2>3 DEF RefsRight, One
<1>9. QED
  BY <1>6, <1>7, <1>8

\* An object is deleted; both who draws and who shows let go of the surface.
LEMMA DelStep ==
  ASSUME ImageInv, NEW o \in Objects, evas_object_del(o)
  PROVE  ImageInv'
<1> USE DEF ImageInv, evas_object_del
<1> DEFINE old == widget[o].surface
           drawn == widget[o].mCairo
           w == [widget[o] EXCEPT !.state = "gone", !.mCairo = NoSurface,
                                  !.surface = NoSurface]
<1>1. /\ widget[o] \in Object /\ drawn \in {NoSurface, old} /\ widget[o].state = "live"
      /\ old \in Surfaces \cup {NoSurface}
      /\ old # NoSurface => widget[o].died = 1
  BY DEF ImageTypeOK, SoleOwners, Known, Object, Live
<1>2. widget' = [widget EXCEPT ![o] = w] /\ UNCHANGED <<made, held, lost, aborted>>
  BY <1>1 DEF ImageTypeOK, Object
<1>3. w \in Object /\ w.surface = NoSurface /\ w.mCairo = NoSurface
  BY <1>1 DEF Object
<1>4. refs' = Released(Released(refs, drawn), old)
  BY <1>1 DEF destroySurface
<1> HIDE DEF w
<1>5. ImageTypeOK'
  <2>1. ASSUME NEW counts \in [Surfaces -> Int], NEW s \in Surfaces \cup {NoSurface}
        PROVE  Released(counts, s) \in [Surfaces -> Int]
    BY <2>1 DEF Released
  <2>2. refs' \in [Surfaces -> Int]
    BY <1>1, <1>4, <2>1 DEF ImageTypeOK
  <2>3. widget' \in [Objects -> Object]
    BY <1>2, <1>3 DEF ImageTypeOK
  <2>4. QED
    BY <1>2, <2>2, <2>3 DEF ImageTypeOK
<1>6. SoleOwners'
  BY <1>2, <1>3, SoleOwnersOfChanged DEF Known, SoleOwners, ImageTypeOK
<1>7. ASSUME NEW r \in Surfaces PROVE RefsRight(r)'
  <2>0. /\ OwnerOf(r)' # {} <=> w.surface = r \/ (OwnerOf(r) # {} /\ widget[o].surface # r)
        /\ PainterOf(r)' # {} <=> w.mCairo = r \/ (PainterOf(r) # {} /\ widget[o].mCairo # r)
    BY <1>2, OwnersOfChanged
  <2>1. RefsRight(r) /\ refs[r] \in Int /\ r # NoSurface
    BY ImageAssumption DEF ImageTypeOK
  <2>2. /\ OwnerOf(r)' # {} <=> OwnerOf(r) # {} /\ r # old
        /\ PainterOf(r)' # {} <=> PainterOf(r) # {} /\ r # drawn
    BY <1>3, <2>0, <2>1
  <2>3. refs'[r] = refs[r] - One(r = drawn) - One(r = old)
    BY <1>1, <1>4, <2>1 DEF ImageTypeOK, Released, One
  <2>4. (r = old => OwnerOf(r) # {}) /\ (r = drawn => PainterOf(r) # {})
    BY DEF OwnerOf, PainterOf
  <2>5. QED
    BY <1>2, <2>1, <2>2, <2>3, <2>4 DEF RefsRight, One
<1>8. QED
  BY <1>5, <1>6, <1>7

-----------------------------------------------------------------------------
LEMMA ImageInvInductive == ImageInv /\ [ImageNext]_imageVars => ImageInv'
<1> SUFFICES ASSUME ImageInv, [ImageNext]_imageVars PROVE ImageInv'
  OBVIOUS
<1>1. ASSUME NEW s \in Surfaces, Creates(s) \/ Destroys(s) PROVE ImageInv'
  BY <1>1, ClientStep
<1>2. ASSUME NEW o \in Objects, NEW s \in Surfaces, NEW added \in BOOLEAN,
             \/ Cairo(o, s, added) \/ MapCanvas(o, s, added)
             \/ esmart_image_cairo_new_from_surface(o, s, added)
      PROVE  ImageInv'
  BY <1>2, NewStep, FromSurfaceStep DEF Cairo, MapCanvas
<1>3. ASSUME NEW o \in Objects, NEW s \in Surfaces, esmart_image_cairo_surface_set(o, s)
      PROVE  ImageInv'
  BY <1>3, SurfaceSetStep
<1>4. ASSUME NEW o \in Objects,
             \/ surface_set_none(o)
             \/ \E size \in Sizes : Resize(o, size)
             \/ \E enable \in BOOLEAN : esmart_image_cairo_fill_auto_set(o, enable)
             \/ evas_object_del(o)
      PROVE  ImageInv'
  <2>1. CASE surface_set_none(o)
    BY <2>1, SurfaceNoneStep
  <2>2. CASE (\E size \in Sizes : Resize(o, size))
               \/ \E enable \in BOOLEAN : esmart_image_cairo_fill_auto_set(o, enable)
    BY <2>2, SizeStep
  <2>3. CASE evas_object_del(o)
    BY <2>3, DelStep
  <2>4. QED
    BY <1>4, <2>1, <2>2, <2>3
<1>5. CASE UNCHANGED imageVars
  BY <1>5 DEF imageVars, ImageInv, ImageTypeOK, SoleOwners, Known, RefsRight, OwnerOf,
              PainterOf, One
<1>6. QED
  BY <1>1, <1>2, <1>3, <1>4, <1>5 DEF ImageNext

\* Every variable of the image objects keeps its type.
THEOREM ImageTypes == ImageSpec => []ImageTypeOK
<1>1. ImageInv => ImageTypeOK
  BY DEF ImageInv
<1>2. QED
  BY <1>1, ImageInitHolds, ImageInvInductive, PTL DEF ImageSpec

LEMMA ImageCounts == ImageInv => SurfacesCounted
<1> SUFFICES ASSUME ImageInv, NEW s \in Surfaces
             PROVE  /\ RefsRight(s)
                    /\ \A o \in OwnerOf(s) : /\ widget[o].pixels = s
                                              /\ widget[o].died = 1
                                              /\ OwnerOf(s) = {o}
  BY DEF SurfacesCounted, RefsRight
<1>1. RefsRight(s)
  BY DEF ImageInv
<1>2. s # NoSurface
  BY ImageAssumption
<1>3. ASSUME NEW o \in OwnerOf(s)
      PROVE  widget[o].pixels = s /\ widget[o].died = 1 /\ OwnerOf(s) = {o}
  BY <1>2 DEF ImageInv, SoleOwners, Known, OwnerOf
<1> QED BY <1>1, <1>3

\* Every reference of a surface belongs to one who knows it, for any number of
\* objects (esmart_image_cairo_surface_set and the callback died).
THEOREM SurfacesAreCounted == ImageSpec => []SurfacesCounted
BY ImageCounts, ImageInitHolds, ImageInvInductive, PTL DEF ImageSpec

-----------------------------------------------------------------------------
(* The fill does not depend on whose surfaces are shown.                   *)

FillInv == \A o \in Objects : Filled(widget[o])

LEMMA AttachedIsFilled ==
  ASSUME NEW w \in Object, NEW s \in Surfaces
  PROVE  Filled(Attached(w, s))
BY AttachedTyped DEF Filled

LEMMA FillInvInductive == ImageInv /\ FillInv /\ [ImageNext]_imageVars => FillInv'
<1> SUFFICES ASSUME ImageInv, FillInv, [ImageNext]_imageVars PROVE FillInv'
  OBVIOUS
<1>0. /\ widget \in [Objects -> Object]
      /\ \A o \in Objects : widget[o] \in Object /\ Filled(widget[o]) /\ Known(widget[o])
  BY DEF ImageInv, FillInv, ImageTypeOK, SoleOwners
<1>1. ASSUME NEW o \in Objects, NEW w, widget' = [widget EXCEPT ![o] = w], Filled(w)
      PROVE  FillInv'
  BY <1>0, <1>1 DEF FillInv
<1>2. ASSUME UNCHANGED widget PROVE FillInv'
  BY <1>2 DEF FillInv
<1>3. ASSUME NEW s \in Surfaces, Creates(s) \/ Destroys(s) PROVE FillInv'
  BY <1>2, <1>3 DEF Creates, Destroys
<1>4. ASSUME NEW o \in Objects, NEW s \in Surfaces, NEW added \in BOOLEAN,
             \/ Cairo(o, s, added) \/ MapCanvas(o, s, added)
             \/ esmart_image_cairo_new_from_surface(o, s, added)
      PROVE  FillInv'
  <2>1. Attached(widget[o], s) \in Object /\ Filled(Attached(widget[o], s))
    BY <1>0, AttachedTyped, AttachedIsFilled
  <2>2. ASSUME NEW m
        PROVE  Filled([Attached(widget[o], s) EXCEPT !.state = "live", !.mCairo = m])
    BY <2>1 DEF Filled, Object
  <2>3. Filled([Attached(widget[o], s) EXCEPT !.state = "live"])
    BY <2>1 DEF Filled, Object
  <2>4. Filled([widget[o] EXCEPT !.state = "gone"])
    BY <1>0 DEF Filled, Object
  <2>5. \E w : widget' = [widget EXCEPT ![o] = w] /\ Filled(w)
    <3>1. ASSUME NEW isMap \in BOOLEAN, esmart_image_cairo_new(o, s, added, isMap)
          PROVE  \E w : widget' = [widget EXCEPT ![o] = w] /\ Filled(w)
      <4>1. CASE s \in Valid /\ added
        <5>1. widget' = [widget EXCEPT ![o] =
                [Attached(widget[o], s) EXCEPT
                   !.state = "live", !.mCairo = IF isMap THEN s ELSE NoSurface]]
          BY <3>1, <4>1 DEF esmart_image_cairo_new
        <5>2. QED
          BY <2>2, <5>1
      <4>2. CASE ~(s \in Valid /\ added)
        <5>1. widget' = [widget EXCEPT ![o] = [widget[o] EXCEPT !.state = "gone"]]
          BY <3>1, <4>2 DEF esmart_image_cairo_new
        <5>2. QED
          BY <2>4, <5>1
      <4>3. QED
        BY <4>1, <4>2
    <3>2. ASSUME esmart_image_cairo_new_from_surface(o, s, added)
          PROVE  \E w : widget' = [widget EXCEPT ![o] = w] /\ Filled(w)
      <4>1. CASE s \in Valid /\ added
        <5>1. widget' = [widget EXCEPT ![o] =
                [Attached(widget[o], s) EXCEPT !.state = "live"]]
          BY <3>2, <4>1 DEF esmart_image_cairo_new_from_surface
        <5>2. QED
          BY <2>3, <5>1
      <4>2. CASE ~(s \in Valid /\ added)
        <5>1. widget' = [widget EXCEPT ![o] = [widget[o] EXCEPT !.state = "gone"]]
          BY <3>2, <4>2 DEF esmart_image_cairo_new_from_surface
        <5>2. QED
          BY <2>4, <5>1
      <4>3. QED
        BY <4>1, <4>2
    <3>3. QED
      BY <1>4, <3>1, <3>2 DEF Cairo, MapCanvas
  <2>6. QED
    BY <1>1, <2>5
<1>5. ASSUME NEW o \in Objects, NEW s \in Surfaces, esmart_image_cairo_surface_set(o, s)
      PROVE  FillInv'
  <2>1. CASE s \in Valid
    BY <1>0, <1>1, <1>5, <2>1, AttachedIsFilled DEF esmart_image_cairo_surface_set
  <2>2. CASE s \notin Valid
    BY <1>2, <1>5, <2>2 DEF esmart_image_cairo_surface_set
  <2>3. QED
    BY <2>1, <2>2
<1>6. ASSUME NEW o \in Objects, surface_set_none(o) PROVE FillInv'
  <2>1. Filled([widget[o] EXCEPT !.surface = NoSurface, !.died = 0])
    BY <1>0 DEF Filled, Object
  <2>2. widget' = [widget EXCEPT ![o] = [widget[o] EXCEPT !.surface = NoSurface, !.died = 0]]
    BY <1>6 DEF surface_set_none
  <2>3. QED
    BY <1>1, <2>1, <2>2
<1>7. ASSUME NEW o \in Objects, NEW size \in Sizes, Resize(o, size) PROVE FillInv'
  <2> DEFINE fill == IF widget[o].resized = 1 THEN size ELSE widget[o].fill
  <2>1. Filled([widget[o] EXCEPT !.size = size, !.fill = fill])
    BY <1>0 DEF Filled, Object
  <2>2. widget' = [widget EXCEPT ![o] = [widget[o] EXCEPT !.size = size, !.fill = fill]]
    BY <1>7 DEF Resize
  <2>3. QED
    BY <1>1, <2>1, <2>2
<1>8. ASSUME NEW o \in Objects, NEW enable \in BOOLEAN,
             esmart_image_cairo_fill_auto_set(o, enable)
      PROVE  FillInv'
  <2>1. CASE enable
    <3>1. Filled([widget[o] EXCEPT !.resized = 1, !.fill = widget[o].size])
      BY <1>0 DEF Filled, Object
    <3>2. widget' = [widget EXCEPT ![o] =
                       [widget[o] EXCEPT !.resized = 1, !.fill = widget[o].size]]
      BY <1>0, <1>8, <2>1 DEF esmart_image_cairo_fill_auto_set
    <3>3. QED
      BY <1>1, <3>1, <3>2
  <2>2. CASE ~enable
    <3> DEFINE fill == IF widget[o].surface # NoSurface THEN SizeOf[widget[o].surface]
                       ELSE widget[o].fill
    <3>1. Filled([widget[o] EXCEPT !.resized = 0, !.fill = fill])
      BY <1>0 DEF Filled, Object
    <3>2. widget' = [widget EXCEPT ![o] = [widget[o] EXCEPT !.resized = 0, !.fill = fill]]
      BY <1>0, <1>8, <2>2 DEF esmart_image_cairo_fill_auto_set
    <3>3. QED
      BY <1>1, <3>1, <3>2
  <2>3. QED
    BY <2>1, <2>2
<1>9. ASSUME NEW o \in Objects, evas_object_del(o) PROVE FillInv'
  <2> DEFINE surface == IF widget[o].died = 1 THEN NoSurface ELSE widget[o].surface
  <2>1. Filled([widget[o] EXCEPT !.state = "gone", !.mCairo = NoSurface,
                                 !.surface = surface])
    BY <1>0 DEF Filled, Known, Object
  <2>2. widget' = [widget EXCEPT ![o] =
          [widget[o] EXCEPT !.state = "gone", !.mCairo = NoSurface, !.surface = surface]]
    BY <1>9 DEF evas_object_del
  <2>3. QED
    BY <1>1, <2>1, <2>2
<1>10. CASE UNCHANGED imageVars
  BY <1>2, <1>10 DEF imageVars
<1>11. QED
  BY <1>3, <1>4, <1>5, <1>6, <1>7, <1>8, <1>9, <1>10 DEF ImageNext

LEMMA FillInvStarts == ImageInit => FillInv
<1> SUFFICES ASSUME ImageInit, NEW o \in Objects PROVE Filled(widget[o])
  BY DEF FillInv
<1>1. widget[o].surface = NoSurface /\ widget[o].resized = 0
  BY DEF ImageInit
<1> QED BY <1>1 DEF Filled

LEMMA FilledFollows == FillInv => FillFollows
BY DEF FillInv, Filled, FillFollows, Live

\* The fill of every object that lives is what its automatic fill or its surface
\* asks for (fill_auto_set, the callback resized, surface_set).
THEOREM FillFollowsAlways == ImageSpec => []FillFollows
BY FillInvStarts, FilledFollows, ImageInitHolds, ImageInvInductive, FillInvInductive,
   PTL DEF ImageSpec

-----------------------------------------------------------------------------
(* What InOrder lists.                                                     *)

\* What an entry contributes.
Part(wanted, inside, node) ==
  (IF node \in wanted THEN <<node>> ELSE <<>>)
    \o (IF node \in Directories THEN inside[node] ELSE <<>>)

\* Inside the directories of P there are nodes of P.
StaysIn(P, inside) == \A d \in Directories \cap P : inside[d] \in Seq(P)

\* The entries are of P, and so is what is inside of them.
Within(P, entries, inside) == entries \in Seq(P) /\ StaysIn(P, inside)

\* What is listed from each entry on.
Lists(P, wanted, entries, inside, f) ==
  /\ f \in [1 .. Len(entries) + 1 -> Seq(P)]
  /\ InOrder(wanted, entries, inside) = f[1]
  /\ f[Len(entries) + 1] = <<>>
  /\ \A k \in 1 .. Len(entries) : f[k] = Part(wanted, inside, entries[k]) \o f[k + 1]

LEMMA PartType ==
  ASSUME NEW P, NEW wanted, NEW inside, StaysIn(P, inside), NEW node \in P
  PROVE  Part(wanted, inside, node) \in Seq(P)
<1> DEFINE own == IF node \in wanted THEN <<node>> ELSE <<>>
           below == IF node \in Directories THEN inside[node] ELSE <<>>
<1>1. own \in Seq(P)
  <2>1. <<node>> \in Seq(P) /\ <<>> \in Seq(P)
    OBVIOUS
  <2> QED BY <2>1
<1>2. below \in Seq(P)
  <2>1. <<>> \in Seq(P)
    OBVIOUS
  <2> QED BY <2>1 DEF StaysIn
<1> HIDE DEF own, below
<1>3. own \o below \in Seq(P)
  BY <1>1, <1>2, ConcatProperties
<1> QED BY <1>3 DEF Part, own, below

LEMMA InOrderLists ==
  ASSUME NEW P, NEW wanted, NEW entries, NEW inside, Within(P, entries, inside)
  PROVE  \E f : Lists(P, wanted, entries, inside, f)
<1> DEFINE n == Len(entries)
           b == n + 1
           X == Seq(P)
           F == [1 .. b -> X]
           item(k) == Part(wanted, inside, entries[k])
           Step(h, k) == IF k > n THEN <<>> ELSE item(k) \o h[k + 1]
           G == [k \in 1 .. b |-> [f \in F |-> Step(f, k)]]
           Is(h) == h = [k \in 1 .. b |-> Step(h, k)]
<1>a. entries \in Seq(P) /\ StaysIn(P, inside)
  BY DEF Within
<1>1. n \in Nat /\ b \in Nat /\ <<>> \in X
  BY <1>a
<1>2. \A k \in 1 .. n : item(k) \in X
  <2>1. \A k \in 1 .. n : entries[k] \in P
    BY <1>a
  <2> QED BY <1>a, <2>1, PartType
<1>3. ASSUME NEW h, NEW k \in 1 .. b, k <= n => h[k + 1] \in X
      PROVE  Step(h, k) \in X
  <2>1. CASE k > n
    BY <1>1, <2>1
  <2>2. CASE ~(k > n)
    <3> DEFINE p == item(k)
               q == h[k + 1]
    <3>1. p \in Seq(P) /\ q \in Seq(P)
      BY <1>1, <1>2, <1>3, <2>2
    <3> HIDE DEF p, q
    <3>2. p \o q \in Seq(P)
      BY <3>1, ConcatProperties
    <3> QED BY <2>2, <3>2 DEF p, q
  <2> QED BY <2>1, <2>2
<1>4. InOrder(wanted, entries, inside) = (CHOOSE h : Is(h))[1]
  BY DEF InOrder, Part
<1> HIDE DEF item, n, X
<1>5. \A k \in 1 .. b, f \in F : G[k][f] = Step(f, k) /\ Step(f, k) \in X
  <2> SUFFICES ASSUME NEW k \in 1 .. b, NEW f \in F
               PROVE  Step(f, k) \in X
    OBVIOUS
  <2>1. k <= n => f[k + 1] \in X
    BY <1>1
  <2> HIDE DEF F
  <2> QED BY <1>3, <2>1
<1>6. StepsDownwards(b, X, G)
  <2>1. G \in [1 .. b -> [F -> X]]
    BY <1>5
  <2>2. ASSUME NEW k \in 1 .. b, NEW g \in F, NEW h \in F, \A i \in k + 1 .. b : g[i] = h[i]
        PROVE  G[k][g] = G[k][h]
    <3>1. Step(g, k) = Step(h, k)
      BY <1>1, <2>2
    <3> HIDE DEF G, Step
    <3> QED BY <1>5, <3>1
  <2>3. \A k \in 1 .. b : \A g, h \in F :
          (\A i \in k + 1 .. b : g[i] = h[i]) => G[k][g] = G[k][h]
    BY <2>2
  <2> HIDE DEF G
  <2> QED BY <1>1, <2>1, <2>3 DEF StepsDownwards
<1> HIDE DEF G
<1>7. PICK f \in F : \A k \in 1 .. b : f[k] = G[k][f]
  <2> HIDE DEF b
  <2> QED BY <1>6, RecursionDownwards
<1>8. Is(f)
  BY <1>5, <1>7
<1> DEFINE U == CHOOSE h : Is(h)
<1>9. Is(U)
  <2> HIDE DEF Is
  <2> QED BY <1>8
<1> HIDE DEF U
<1>10. \A k \in 1 .. b : U[k] = Step(U, k)
  BY <1>9
<1>11. U[n + 1] = <<>> /\ \A k \in 1 .. n : U[k] = item(k) \o U[k + 1]
  <2>1. U[n + 1] = <<>>
    BY <1>1, <1>10
  <2>2. ASSUME NEW k \in 1 .. n PROVE U[k] = item(k) \o U[k + 1]
    <3>1. k \in 1 .. b /\ ~(k > n)
      BY <1>1
    <3> QED BY <1>10, <3>1
  <2> QED BY <2>1, <2>2
<1>12. \A k \in 1 .. b : U[k] \in X
  <2> DEFINE T == {k \in 1 .. b : U[k] \in X}
  <2>1. b \in T
    BY <1>1, <1>11
  <2>2. ASSUME NEW k \in 1 + 1 .. b, k \in T PROVE k - 1 \in T
    <3>1. k - 1 \in 1 .. b /\ (k - 1) + 1 = k /\ U[k] \in X
      <4> HIDE DEF b
      <4> QED BY <1>1, <2>2
    <3>2. Step(U, k - 1) \in X
      <4> HIDE DEF Step
      <4> QED BY <1>3, <3>1
    <3> HIDE DEF Step
    <3> QED BY <1>10, <3>1, <3>2
  <2>3. 1 \in Int /\ b \in Int
    BY <1>1
  <2> HIDE DEF T, b
  <2>4. \A k \in 1 .. b : k \in T
    BY <2>1, <2>2, <2>3, Downwards
  <2> QED BY <2>4 DEF T
<1>13. U \in F
  <2>1. U = [k \in 1 .. b |-> U[k]]
    BY <1>9
  <2> QED BY <1>12, <2>1
<1>14. InOrder(wanted, entries, inside) = U[1]
  BY <1>4 DEF U
<1> QED BY <1>14, <1>11, <1>13 DEF Lists, item, n, X

\* The nodes of P list nodes of P.
LEMMA InOrderType ==
  ASSUME NEW P, NEW wanted, NEW entries, NEW inside, Within(P, entries, inside)
  PROVE  InOrder(wanted, entries, inside) \in Seq(P)
<1>1. PICK f : Lists(P, wanted, entries, inside, f)
  BY InOrderLists
<1>2. 1 \in 1 .. Len(entries) + 1
  BY DEF Within
<1> QED BY <1>1, <1>2 DEF Lists

LEMMA InOrderEmpty ==
  ASSUME NEW wanted, NEW inside
  PROVE  InOrder(wanted, <<>>, inside) = <<>>
<1>1. Len(<<>>) = 0 /\ Within({}, <<>>, inside)
  BY DEF StaysIn, Within
<1>2. PICK f : Lists({}, wanted, <<>>, inside, f)
  BY <1>1, InOrderLists
<1> QED BY <1>1, <1>2 DEF Lists

\* The first entry comes first, then the others.
FirstThenOthers(wanted, entries, inside) ==
  InOrder(wanted, entries, inside) =
    Part(wanted, inside, Head(entries)) \o InOrder(wanted, Tail(entries), inside)

LEMMA InOrderFirst ==
  ASSUME NEW P, NEW wanted, NEW entries, NEW inside, Within(P, entries, inside),
         entries # <<>>
  PROVE  FirstThenOthers(wanted, entries, inside)
<1> DEFINE n == Len(entries)
           t == Tail(entries)
           m == Len(t)
<1>a. entries \in Seq(P) /\ StaysIn(P, inside)
  BY DEF Within
<1>1. /\ n \in Nat \ {0} /\ t \in Seq(P) /\ m = n - 1 /\ Head(entries) = entries[1]
      /\ \A k \in 1 .. n - 1 : t[k] = entries[k + 1]
  BY <1>a
<1> HIDE DEF t
<1>2. PICK f : Lists(P, wanted, entries, inside, f)
  BY InOrderLists
<1>b. Within(P, t, inside)
  BY <1>a, <1>1 DEF Within
<1>3. PICK g : Lists(P, wanted, t, inside, g)
  BY <1>b, InOrderLists
<1>4. /\ f[n + 1] = <<>> /\ g[n] = <<>>
      /\ \A k \in 1 .. n : f[k] = Part(wanted, inside, entries[k]) \o f[k + 1]
      /\ \A k \in 1 .. n - 1 : g[k] = Part(wanted, inside, t[k]) \o g[k + 1]
  <2>1. (n - 1) + 1 = n
    BY <1>1
  <2> QED BY <1>1, <1>2, <1>3, <2>1 DEF Lists
<1> HIDE DEF n, m
<1>5. \A k \in 1 .. n : g[k] = f[k + 1]
  <2> DEFINE T == {k \in 1 .. n : g[k] = f[k + 1]}
  <2>1. n \in T
    BY <1>1, <1>4
  <2>2. ASSUME NEW k \in 1 + 1 .. n, k \in T PROVE k - 1 \in T
    <3>1. /\ k - 1 \in 1 .. n /\ k - 1 \in 1 .. n - 1 /\ k \in 1 .. n /\ (k - 1) + 1 = k
          /\ g[k] = f[k + 1]
      BY <1>1, <2>2
    <3>2. g[k - 1] = Part(wanted, inside, t[k - 1]) \o g[k]
      BY <1>4, <3>1
    <3>3. t[k - 1] = entries[k]
      BY <1>1, <3>1
    <3>4. f[k] = Part(wanted, inside, entries[k]) \o f[k + 1]
      BY <1>4, <3>1
    <3>5. g[k - 1] = f[k]
      BY <3>1, <3>2, <3>3, <3>4
    <3> QED BY <3>1, <3>5
  <2>3. 1 \in Int /\ n \in Int
    BY <1>1
  <2> HIDE DEF T
  <2>4. \A k \in 1 .. n : k \in T
    BY <2>1, <2>2, <2>3, Downwards
  <2> QED BY <2>4 DEF T
<1>6. 1 \in 1 .. n
  BY <1>1
<1>7. f[1] = Part(wanted, inside, entries[1]) \o f[1 + 1] /\ g[1] = f[1 + 1]
  BY <1>4, <1>5, <1>6
<1>8. InOrder(wanted, entries, inside) = f[1] /\ InOrder(wanted, t, inside) = g[1]
  BY <1>2, <1>3 DEF Lists
<1> QED BY <1>1, <1>7, <1>8 DEF FirstThenOthers, t

-----------------------------------------------------------------------------
(* What Reference lists.                                                   *)

\* What is inside of the directories when n more levels are read.
Inside(W, n) == IF n = 0 THEN Nothing ELSE W[n - 1]

LEMMA NothingType == Nothing \in [Directories -> Seq(Node)]
<1>1. <<>> \in Seq(Node)
  OBVIOUS
<1> QED BY <1>1 DEF Nothing

LEMMA ReferenceWithin ==
  ASSUME NEW wanted, NEW levels \in Nat
  PROVE  \E W \in [0 .. levels -> [Directories -> Seq(Node)]] :
           /\ Reference(wanted, levels) = W[levels]
           /\ \A n \in 0 .. levels, dir \in Directories :
                W[n][dir] = InOrder(wanted, Children[dir], Inside(W, n))
<1> DEFINE N == levels
           X == [Directories -> Seq(Node)]
           next(V) == [dir \in Directories |-> InOrder(wanted, Children[dir], V)]
           c == next(Nothing)
           G == [n \in 1 .. N |-> [V \in X |-> next(V)]]
           Step(h, n) == [dir \in Directories |->
                            InOrder(wanted, Children[dir], IF n = 0 THEN Nothing ELSE h[n - 1])]
           Is(h) == h = [n \in 0 .. N |-> Step(h, n)]
<1>1. ASSUME NEW V \in X PROVE next(V) \in X
  <2> SUFFICES ASSUME NEW dir \in Directories
               PROVE  InOrder(wanted, Children[dir], V) \in Seq(Node)
    OBVIOUS
  <2>1. Within(Node, Children[dir], V)
    BY DirectoryAssumption DEF StaysIn, Within
  <2> QED BY <2>1, InOrderType
<1>2. Nothing \in X
  BY NothingType
<1>3. Reference(wanted, N) = (CHOOSE h : Is(h))[N]
  BY DEF Reference
<1>4. \A h, n : Step(h, n) = next(IF n = 0 THEN Nothing ELSE h[n - 1])
  OBVIOUS
<1>a. \A V, dir \in Directories : next(V)[dir] = InOrder(wanted, Children[dir], V)
  OBVIOUS
<1> HIDE DEF N, X, next, Step
<1>n. N \in Nat
  BY DEF N
<1>5. PICK h \in [0 .. N -> X] : h[0] = c /\ \A n \in 1 .. N : h[n] = G[n][h[n - 1]]
  <2>1. G \in [1 .. N -> [X -> X]] /\ c \in X
    BY <1>1, <1>2
  <2>2. StepsUpwards(N, X, c, G)
    BY <1>n, <2>1 DEF StepsUpwards
  <2> HIDE DEF G, c
  <2> QED BY <2>2, RecursionUpwards
<1>6. Is(h)
  <2>1. ASSUME NEW n \in 0 .. N PROVE h[n] = Step(h, n)
    <3>1. CASE n = 0
      BY <1>4, <1>5, <3>1
    <3>2. CASE n # 0
      <4>1. n \in 1 .. N /\ n - 1 \in 0 .. N
        BY <1>n, <3>2
      <4>2. h[n] = G[n][h[n - 1]] /\ h[n - 1] \in X
        BY <1>5, <4>1
      <4>3. h[n] = next(h[n - 1])
        BY <4>1, <4>2
      <4> QED BY <1>4, <3>2, <4>3
    <3> QED BY <3>1, <3>2
  <2> QED BY <2>1
<1> DEFINE U == CHOOSE g : Is(g)
<1>7. Is(U)
  <2> HIDE DEF Is
  <2> QED BY <1>6
<1> HIDE DEF U
<1>8. \A n \in 0 .. N : U[n] = next(IF n = 0 THEN Nothing ELSE U[n - 1])
  BY <1>4, <1>7
<1>9. \A n \in 0 .. N : U[n] \in X
  <2> DEFINE T == {n \in 0 .. N : U[n] \in X}
  <2>1. 0 \in T
    <3>1. 0 \in 0 .. N /\ U[0] = next(Nothing)
      BY <1>8, <1>n
    <3> QED BY <1>1, <1>2, <3>1
  <2>2. ASSUME NEW n \in 0 .. N - 1, n \in T PROVE n + 1 \in T
    <3>1. n + 1 \in 0 .. N /\ n + 1 # 0 /\ (n + 1) - 1 = n /\ U[n] \in X
      BY <2>2, <1>n
    <3>2. U[n + 1] = next(U[n])
      BY <1>8, <3>1
    <3> QED BY <1>1, <3>1, <3>2
  <2>3. 0 \in Int /\ N \in Int
    BY <1>n
  <2> HIDE DEF T
  <2>4. \A n \in 0 .. N : n \in T
    BY <2>1, <2>2, <2>3, Upwards
  <2> QED BY <2>4 DEF T
<1>10. U \in [0 .. N -> X]
  <2>1. U = [n \in 0 .. N |-> U[n]]
    BY <1>7
  <2> QED BY <1>9, <2>1
<1>11. ASSUME NEW n \in 0 .. N, NEW dir \in Directories
       PROVE  U[n][dir] = InOrder(wanted, Children[dir], Inside(U, n))
  <2> DEFINE V == Inside(U, n)
  <2>1. U[n] = next(V)
    BY <1>8 DEF Inside
  <2> HIDE DEF V
  <2>2. U[n][dir] = InOrder(wanted, Children[dir], V)
    BY <2>1 DEF next
  <2> QED BY <2>2 DEF V
<1>12. Reference(wanted, N) = U[N]
  BY <1>3 DEF U
<1> QED BY <1>10, <1>11, <1>12 DEF X, N

-----------------------------------------------------------------------------
(* The item of a list that is kept.                                        *)

\* keep says which of done are on the list: all that are still there.
Kept(done, keep, list, still) ==
  /\ done \in Seq(Node) /\ list \in Seq(Node) /\ keep \subseteq 1 .. Len(done)
  /\ IsPart(list, done, keep)
  /\ \A k \in 1 .. Len(done) : done[k] \in still => k \in keep

LEMMA KeptEmpty == ASSUME NEW still PROVE Kept(<<>>, {}, <<>>, still)
<1>1. <<>> \in Seq(Node) /\ Len(<<>>) = 0 /\ Cardinality({}) = 0
  BY FS_EmptySet
<1> QED BY <1>1 DEF Kept, IsPart

\* What is gone need not be on the list.
LEMMA KeptLess ==
  ASSUME NEW done, NEW keep, NEW list, NEW still, Kept(done, keep, list, still),
         NEW less, less \subseteq still
  PROVE  Kept(done, keep, list, less)
BY DEF Kept

LEMMA KeptPassing ==
  ASSUME NEW done, NEW keep, NEW list, NEW still, Kept(done, keep, list, still),
         NEW gone, gone \in Seq(Node), gone \in Seq(Node \ still)
  PROVE  Kept(done \o gone, keep, list, still)
<1> DEFINE n == Len(done)
           m == Len(gone)
           all == done \o gone
<1>1. done \in Seq(Node) /\ n \in Nat /\ m \in Nat
  BY DEF Kept
<1>2. all \in Seq(Node)
  BY <1>1, ConcatProperties
<1>3. Len(all) = n + m
  BY <1>1, ConcatProperties
<1>4. \A k \in 1 .. n + m : all[k] = IF k <= n THEN done[k] ELSE gone[k - n]
  BY <1>1, ConcatProperties
<1>5. \A k \in 1 .. m : gone[k] \notin still
  BY ElementOfSeq
<1>6. keep \subseteq 1 .. n /\ IsPart(list, done, keep) /\ list \in Seq(Node)
  BY DEF Kept
<1>7. \A k \in 1 .. n : done[k] \in still => k \in keep
  BY DEF Kept
<1> HIDE DEF n, m, all
<1>8. keep \subseteq 1 .. n + m
  BY <1>1, <1>6
<1>9. \A k \in keep : all[k] = done[k]
  BY <1>1, <1>4, <1>6
<1>10. IsPart(list, all, keep)
  BY <1>6, <1>9 DEF IsPart
<1>11. ASSUME NEW k \in 1 .. n + m, all[k] \in still PROVE k \in keep
  <2>1. CASE k <= n
    BY <1>1, <1>4, <1>7, <1>11, <2>1
  <2>2. CASE ~(k <= n)
    <3>1. k - n \in 1 .. m /\ all[k] = gone[k - n]
      BY <1>1, <1>4, <2>2
    <3> QED BY <1>5, <1>11, <3>1
  <2> QED BY <2>1, <2>2
<1> QED BY <1>2, <1>3, <1>6, <1>8, <1>10, <1>11 DEF Kept, all

LEMMA KeptListing ==
  ASSUME NEW done, NEW keep, NEW list, NEW still, Kept(done, keep, list, still),
         NEW node \in Node
  PROVE  Kept(done \o <<node>>, keep \cup {Len(done) + 1}, Append(list, node), still)
<1> DEFINE n == Len(done)
           m == Len(list)
           all == done \o <<node>>
           longer == Append(list, node)
           more == keep \cup {n + 1}
           upTo(k) == {i \in keep : i <= k}
<1>1. done \in Seq(Node) /\ list \in Seq(Node) /\ n \in Nat /\ m \in Nat
  BY DEF Kept
<1>2. all = Append(done, node)
  BY <1>1, AppendIsConcat
<1>3. /\ all \in Seq(Node) /\ Len(all) = n + 1 /\ all[n + 1] = node
      /\ \A k \in 1 .. n : all[k] = done[k]
  BY <1>1, <1>2, AppendProperties
<1>4. /\ longer \in Seq(Node) /\ Len(longer) = m + 1 /\ longer[m + 1] = node
      /\ \A k \in 1 .. m : longer[k] = list[k]
  BY <1>1, AppendProperties
<1>5. /\ keep \subseteq 1 .. n /\ Cardinality(keep) = m
      /\ \A k \in keep : list[Cardinality(upTo(k))] = done[k]
      /\ \A k \in 1 .. n : done[k] \in still => k \in keep
  BY DEF Kept, IsPart
<1>6. IsFiniteSet(keep)
  <2>1. IsFiniteSet(1 .. n)
    BY <1>1, FS_Interval
  <2> QED BY <1>5, <2>1, FS_Subset
<1> HIDE DEF n, m, all, longer
<1>7. Cardinality(more) = m + 1
  <2>1. n + 1 \notin keep
    BY <1>1, <1>5
  <2>2. Cardinality(more) = Cardinality(keep) + 1
    BY <1>6, <2>1, FS_AddElement
  <2> QED BY <1>5, <2>2
<1>8. ASSUME NEW k \in more PROVE longer[Cardinality({i \in more : i <= k})] = all[k]
  <2>1. CASE k = n + 1
    <3>1. \A i \in more : i <= k
      BY <1>1, <1>5, <2>1
    <3> HIDE DEF more
    <3>2. {i \in more : i <= k} = more
      BY <3>1
    <3> QED BY <1>3, <1>4, <1>7, <2>1, <3>2
  <2>2. CASE k # n + 1
    <3>1. k \in keep /\ k \in 1 .. n
      BY <1>5, <2>2
    <3>2. {i \in more : i <= k} = upTo(k)
      BY <1>1, <1>5, <3>1
    <3> DEFINE some == upTo(k)
               c == Cardinality(some)
    <3>3. c \in 1 .. m
      <4>1. some \subseteq keep /\ k \in some
        BY <1>1, <3>1
      <4> HIDE DEF some
      <4>2. IsFiniteSet(some) /\ c \in Nat /\ c <= m
        BY <1>5, <1>6, <4>1, FS_Subset, FS_CardinalityType
      <4>3. c # 0
        BY <4>1, <4>2, FS_EmptySet
      <4> HIDE DEF c
      <4> QED BY <1>1, <4>2, <4>3
    <3>4. list[c] = done[k]
      BY <1>5, <3>1
    <3> HIDE DEF c, some
    <3>5. longer[c] = all[k]
      BY <1>3, <1>4, <3>1, <3>3, <3>4
    <3> QED BY <3>2, <3>5 DEF c, some
  <2> QED BY <2>1, <2>2
<1>9. IsPart(longer, all, more)
  <2> HIDE DEF more
  <2> QED BY <1>4, <1>7, <1>8 DEF IsPart
<1>10. more \subseteq 1 .. n + 1
  <2> SUFFICES ASSUME NEW k \in more PROVE k \in 1 .. n + 1
    OBVIOUS
  <2>1. k \in 1 .. n \/ k = n + 1
    BY <1>5
  <2> QED BY <1>1, <2>1
<1>11. \A k \in 1 .. n + 1 : all[k] \in still => k \in more
  BY <1>1, <1>3, <1>5
<1> QED BY <1>3, <1>4, <1>9, <1>10, <1>11 DEF Kept, n, all, longer

\* A node is listed if it is wanted.
LEMMA KeptEntry ==
  ASSUME NEW done, NEW keep, NEW list, NEW still, Kept(done, keep, list, still),
         NEW node \in Node, NEW wanted
  PROVE  \E kept : Kept(done \o (IF node \in wanted THEN <<node>> ELSE <<>>), kept,
                        IF node \in wanted THEN Append(list, node) ELSE list, still)
<1>1. CASE node \in wanted
  BY <1>1, KeptListing
<1>2. CASE node \notin wanted
  <2>1. done \o <<>> = done
    BY ConcatEmptySeq DEF Kept
  <2> QED BY <1>2, <2>1
<1> QED BY <1>1, <1>2

-----------------------------------------------------------------------------
(* What the activations will still list.                                   *)

\* ahead[k] is what the outermost k activations will list, the inner ones first.
Ahead(W, wanted, levels, walk, ahead) ==
  /\ walk \in Seq([dir : Directories, left : Seq(Node)])
  /\ ahead \in [0 .. Len(walk) -> Seq(Node)] /\ ahead[0] = <<>>
  /\ \A k \in 1 .. Len(walk) :
       ahead[k] = InOrder(wanted, walk[k].left, Inside(W, levels - (k - 1))) \o ahead[k - 1]

LEMMA AheadEmpty ==
  ASSUME NEW W, NEW wanted, NEW levels
  PROVE  Ahead(W, wanted, levels, <<>>, [k \in 0 .. 0 |-> <<>>])
<1>1. <<>> \in Seq(Node) /\ Len(<<>>) = 0 /\ <<>> \in Seq([dir : Directories, left : Seq(Node)])
  OBVIOUS
<1> QED BY <1>1 DEF Ahead

\* The outer activations.
LEMMA OuterProperties ==
  ASSUME NEW S, NEW walk, walk \in Seq(S), walk # <<>>
  PROVE  /\ SubSeq(walk, 1, Len(walk) - 1) \in Seq(S)
         /\ Len(SubSeq(walk, 1, Len(walk) - 1)) = Len(walk) - 1
         /\ \A k \in 1 .. Len(walk) - 1 : SubSeq(walk, 1, Len(walk) - 1)[k] = walk[k]
<1> DEFINE m == Len(walk) - 1
<1>1. m \in Nat /\ \A k \in 1 .. m : walk[k] \in S
  OBVIOUS
<1> HIDE DEF m
<1>2. 1 \in Int /\ m \in Int /\ m - 1 + 1 = m
  BY <1>1
<1>3. SubSeq(walk, 1, m) \in Seq(S)
  BY <1>1, <1>2, SubSeqProperties
<1>4. Len(SubSeq(walk, 1, m)) = IF 1 <= m THEN m - 1 + 1 ELSE 0
  BY <1>1, <1>2, SubSeqProperties
<1>5. \A k \in 1 .. m - 1 + 1 : SubSeq(walk, 1, m)[k] = walk[1 + k - 1]
  BY <1>1, <1>2, SubSeqProperties
<1>6. \A k \in 1 .. m : 1 + k - 1 = k
  BY <1>1
<1> QED BY <1>1, <1>2, <1>3, <1>4, <1>5, <1>6 DEF m

\* next is what is ahead with one activation more.
Called(W, wanted, levels, walk, ahead, dir, left, next) ==
  /\ Ahead(W, wanted, levels, Append(walk, [dir |-> dir, left |-> left]), next)
  /\ next[Len(walk) + 1] =
       InOrder(wanted, left, Inside(W, levels - Len(walk))) \o ahead[Len(walk)]

\* A new activation.
LEMMA AheadCall ==
  ASSUME NEW W, NEW wanted, NEW levels, NEW walk, NEW ahead,
         Ahead(W, wanted, levels, walk, ahead),
         NEW dir \in Directories, NEW left \in Seq(Node),
         Within(Node, left, Inside(W, levels - Len(walk)))
  PROVE  \E next : Called(W, wanted, levels, walk, ahead, dir, left, next)
<1> DEFINE n == Len(walk)
           Frame == [dir : Directories, left : Seq(Node)]
           frame == [dir |-> dir, left |-> left]
           deeper == Append(walk, frame)
           top == InOrder(wanted, left, Inside(W, levels - n))
           below == ahead[n]
           new == top \o below
           next == [k \in 0 .. n + 1 |-> IF k = n + 1 THEN new ELSE ahead[k]]
           line(k, f, a) == InOrder(wanted, f.left, Inside(W, levels - (k - 1))) \o a
<1>1. walk \in Seq(Frame) /\ n \in Nat
  BY DEF Ahead
<1>2. frame \in Frame /\ frame.left = left
  OBVIOUS
<1> HIDE DEF Frame, frame
<1>3. /\ deeper \in Seq(Frame) /\ Len(deeper) = n + 1 /\ deeper[n + 1] = frame
      /\ \A k \in 1 .. n : deeper[k] = walk[k]
  BY <1>1, <1>2, AppendProperties
<1>4. /\ ahead \in [0 .. n -> Seq(Node)] /\ ahead[0] = <<>>
      /\ \A k \in 1 .. n : ahead[k] = line(k, walk[k], ahead[k - 1])
  BY DEF Ahead
<1>5. top \in Seq(Node)
  BY InOrderType
<1>6. below \in Seq(Node)
  BY <1>1, <1>4
<1> HIDE DEF top, below, n, deeper
<1>7. new \in Seq(Node)
  BY <1>5, <1>6, ConcatProperties
<1> HIDE DEF new
<1>8. next \in [0 .. n + 1 -> Seq(Node)] /\ next[0] = <<>> /\ next[n + 1] = new
  BY <1>1, <1>4, <1>7
<1>9. \A k \in 0 .. n : next[k] = ahead[k]
  <2> SUFFICES ASSUME NEW k \in 0 .. n PROVE next[k] = ahead[k]
    OBVIOUS
  <2>1. k \in 0 .. n + 1 /\ k # n + 1
    BY <1>1
  <2> QED BY <2>1
<1> HIDE DEF next
<1>10. ASSUME NEW k \in 1 .. n + 1 PROVE next[k] = line(k, deeper[k], next[k - 1])
  <2>1. CASE k = n + 1
    <3>1. k - 1 = n /\ n \in 0 .. n
      BY <1>1, <2>1
    <3>2. next[k - 1] = below /\ deeper[k] = frame /\ next[k] = new
      BY <1>3, <1>8, <1>9, <2>1, <3>1 DEF below
    <3> QED BY <1>2, <3>1, <3>2 DEF new, top
  <2>2. CASE k # n + 1
    <3>1. k \in 1 .. n /\ k \in 0 .. n /\ k - 1 \in 0 .. n
      BY <1>1, <2>2
    <3>2. next[k - 1] = ahead[k - 1] /\ deeper[k] = walk[k] /\ next[k] = ahead[k]
      BY <1>3, <1>9, <3>1
    <3>3. ahead[k] = line(k, walk[k], ahead[k - 1])
      BY <1>4, <3>1
    <3> HIDE DEF line
    <3> QED BY <3>2, <3>3
  <2> QED BY <2>1, <2>2
<1>11. Ahead(W, wanted, levels, deeper, next)
  BY <1>3, <1>8, <1>10 DEF Ahead, Frame
<1> QED BY <1>8, <1>11 DEF Called, deeper, frame, new, top, below, n

\* An activation ends.
LEMMA AheadReturn ==
  ASSUME NEW W, NEW wanted, NEW levels, NEW walk, NEW ahead,
         Ahead(W, wanted, levels, walk, ahead), walk # <<>>
  PROVE  Ahead(W, wanted, levels, SubSeq(walk, 1, Len(walk) - 1),
               [k \in 0 .. Len(walk) - 1 |-> ahead[k]])
<1> DEFINE n == Len(walk)
           Frame == [dir : Directories, left : Seq(Node)]
           outer == SubSeq(walk, 1, n - 1)
           next == [k \in 0 .. n - 1 |-> ahead[k]]
           line(k, f, a) == InOrder(wanted, f.left, Inside(W, levels - (k - 1))) \o a
<1>1. walk \in Seq(Frame) /\ n \in Nat \ {0}
  BY DEF Ahead
<1> HIDE DEF Frame
<1>2. /\ outer \in Seq(Frame) /\ Len(outer) = n - 1
      /\ \A k \in 1 .. n - 1 : outer[k] = walk[k]
  BY <1>1, OuterProperties
<1>3. /\ ahead \in [0 .. n -> Seq(Node)] /\ ahead[0] = <<>>
      /\ \A k \in 1 .. n : ahead[k] = line(k, walk[k], ahead[k - 1])
  BY DEF Ahead
<1> HIDE DEF n, outer
<1>4. next \in [0 .. n - 1 -> Seq(Node)] /\ next[0] = <<>>
  BY <1>1, <1>3
<1>5. ASSUME NEW k \in 1 .. n - 1 PROVE next[k] = line(k, outer[k], next[k - 1])
  <2>1. k \in 1 .. n /\ k \in 0 .. n - 1 /\ k - 1 \in 0 .. n - 1
    BY <1>1
  <2>2. next[k] = ahead[k] /\ next[k - 1] = ahead[k - 1] /\ outer[k] = walk[k]
    BY <1>2, <2>1
  <2>3. ahead[k] = line(k, walk[k], ahead[k - 1])
    BY <1>3, <2>1
  <2> HIDE DEF line, next
  <2> QED BY <2>2, <2>3
<1> HIDE DEF next
<1>6. Ahead(W, wanted, levels, outer, next)
  BY <1>2, <1>4, <1>5 DEF Ahead, Frame
<1> QED BY <1>6 DEF outer, next, n

\* The innermost activation at its end has nothing to list.
LEMMA AheadAtEnd ==
  ASSUME NEW W, NEW wanted, NEW levels, NEW walk, NEW ahead,
         Ahead(W, wanted, levels, walk, ahead), walk # <<>>, walk[Len(walk)].left = <<>>
  PROVE  ahead[Len(walk)] = ahead[Len(walk) - 1]
<1> DEFINE n == Len(walk)
           a == ahead[n - 1]
<1>1. n \in Nat \ {0}
  BY DEF Ahead
<1>2. n \in 1 .. n /\ n - 1 \in 0 .. n
  BY <1>1
<1>3. ahead[n] = InOrder(wanted, walk[n].left, Inside(W, levels - (n - 1))) \o a
  BY <1>2 DEF Ahead
<1>4. a \in Seq(Node)
  BY <1>2 DEF Ahead
<1> HIDE DEF a
<1>5. InOrder(wanted, walk[n].left, Inside(W, levels - (n - 1))) = <<>>
  BY InOrderEmpty
<1>6. <<>> \o a = a
  BY <1>4, ConcatEmptySeq
<1> QED BY <1>3, <1>5, <1>6 DEF a

\* W[n] lists the directories with n further levels.
IsReference(W, wanted, levels) ==
  /\ levels \in Nat /\ W \in [0 .. levels -> [Directories -> Seq(Node)]]
  /\ \A n \in 0 .. levels, dir \in Directories :
       W[n][dir] = InOrder(wanted, Children[dir], Inside(W, n))

LEMMA ReferenceIs ==
  ASSUME NEW wanted, NEW levels \in Nat
  PROVE  \E W : IsReference(W, wanted, levels) /\ Reference(wanted, levels) = W[levels]
BY ReferenceWithin DEF IsReference

LEMMA InsideStays ==
  ASSUME NEW W, NEW wanted, NEW levels, IsReference(W, wanted, levels), NEW n \in 0 .. levels
  PROVE  StaysIn(Node, Inside(W, n))
<1>1. CASE n = 0
  BY <1>1, NothingType DEF Inside, StaysIn
<1>2. CASE n # 0
  <2>1. n - 1 \in 0 .. levels
    BY <1>2 DEF IsReference
  <2>2. W[n - 1] \in [Directories -> Seq(Node)]
    BY <2>1 DEF IsReference
  <2> QED BY <1>2, <2>2 DEF Inside, StaysIn
<1> QED BY <1>1, <1>2

-----------------------------------------------------------------------------
(* What has disappeared.                                                   *)

\* The directory of what is still there is there, too.
UpClosed(still) ==
  \A d \in Directories : \A k \in 1 .. Len(Children[d]) : Children[d][k] \in still => d \in still

\* A directory that is gone lists only what is gone.
LEMMA GoneInside ==
  ASSUME NEW W, NEW wanted, NEW levels, IsReference(W, wanted, levels),
         NEW still, UpClosed(still), NEW n \in 0 .. levels
  PROVE  StaysIn(Node \ still, Inside(W, n))
<1> DEFINE P == Node \ still
           T == {m \in 0 .. levels : StaysIn(P, Inside(W, m))}
<1>1. levels \in Nat
  BY DEF IsReference
<1>2. \A dir \in Directories \cap P : Children[dir] \in Seq(P)
  <2> SUFFICES ASSUME NEW dir \in Directories \cap P PROVE Children[dir] \in Seq(P)
    OBVIOUS
  <2>1. Children[dir] \in Seq(Node)
    BY DirectoryAssumption
  <2>2. \A k \in 1 .. Len(Children[dir]) : Children[dir][k] \in P
    BY <2>1, ElementOfSeq DEF UpClosed
  <2> QED BY <2>1, <2>2
<1> HIDE DEF P
<1>3. 0 \in T
  <2>1. <<>> \in Seq(P)
    OBVIOUS
  <2>2. StaysIn(P, Inside(W, 0))
    BY <2>1 DEF Inside, Nothing, StaysIn
  <2> QED BY <1>1, <2>2
<1>4. ASSUME NEW m \in 0 .. levels - 1, m \in T PROVE m + 1 \in T
  <2>1. m + 1 \in 0 .. levels /\ m \in 0 .. levels /\ m + 1 # 0 /\ (m + 1) - 1 = m
    BY <1>1
  <2>2. Inside(W, m + 1) = W[m]
    BY <2>1 DEF Inside
  <2>3. ASSUME NEW dir \in Directories \cap P PROVE W[m][dir] \in Seq(P)
    <3>1. Within(P, Children[dir], Inside(W, m))
      BY <1>2, <1>4 DEF Within
    <3>2. W[m][dir] = InOrder(wanted, Children[dir], Inside(W, m))
      BY <2>1 DEF IsReference
    <3> QED BY <3>1, <3>2, InOrderType
  <2>4. StaysIn(P, Inside(W, m + 1))
    BY <2>2, <2>3 DEF StaysIn
  <2> QED BY <2>1, <2>4
<1>5. 0 \in Int /\ levels \in Int
  BY <1>1
<1> HIDE DEF T
<1>6. \A m \in 0 .. levels : m \in T
  BY <1>3, <1>4, <1>5, Upwards
<1> QED BY <1>6 DEF T, P

\* A file or directory that goes takes all that is below it.
LEMMA LossesUpClosed ==
  ASSUME NEW still, UpClosed(still), NEW node \in Node
  PROVE  UpClosed(still \ Below[node])
<1> DEFINE B == Below[node]
           Whole == {S \in SUBSET Node : \A d \in S \cap Directories :
                                     \A k \in 1 .. Len(Children[d]) : Children[d][k] \in S}
<1>1. B = {n \in Node : \A S \in Whole : node \in S => n \in S}
  BY DEF Below
<1>2. ASSUME NEW d \in Directories, NEW k \in 1 .. Len(Children[d]), d \in B
      PROVE  Children[d][k] \in B
  <2>1. Children[d][k] \in Node
    BY DirectoryAssumption, ElementOfSeq
  <2>2. ASSUME NEW S \in Whole, node \in S PROVE Children[d][k] \in S
    <3>1. d \in S
      BY <1>1, <1>2, <2>2
    <3> QED BY <3>1
  <2> HIDE DEF B, Whole
  <2> QED BY <1>1, <2>1, <2>2
<1> HIDE DEF B
<1>3. UpClosed(still \ B)
  BY <1>2 DEF UpClosed
<1> QED BY <1>3 DEF B

-----------------------------------------------------------------------------
(* A walk on its course.                                                   *)

\* There is a level of the reference for each activation.
Fits(walk, levels, level) ==
  /\ Len(walk) <= levels + 1
  /\ level = NO_LIMIT =>
       \A k \in 1 .. Len(walk) : \A i \in 1 .. Len(walk[k].left) :
         Height[walk[k].left[i]] <= levels - k

\* What is kept of done is listed, and the walk has the rest ahead.
Situation(W, wanted, levels, level, walk, list, still, whole, done, keep, ahead) ==
  /\ IsReference(W, wanted, levels) /\ Ahead(W, wanted, levels, walk, ahead)
  /\ Fits(walk, levels, level)
  /\ Kept(done, keep, list, still)
  /\ whole = done \o ahead[Len(walk)]

OnCourse(wanted, levels, level, walk, list, still, whole) ==
  \E W, done, keep, ahead :
    Situation(W, wanted, levels, level, walk, list, still, whole, done, keep, ahead)

LEMMA LossOnCourse ==
  ASSUME NEW wanted, NEW levels, NEW level, NEW walk, NEW list, NEW still, NEW whole,
         OnCourse(wanted, levels, level, walk, list, still, whole),
         NEW less, less \subseteq still
  PROVE  OnCourse(wanted, levels, level, walk, list, less, whole)
<1>1. PICK W, done, keep, ahead :
        Situation(W, wanted, levels, level, walk, list, still, whole, done, keep, ahead)
  BY DEF OnCourse
<1>2. Kept(done, keep, list, still)
  BY <1>1 DEF Situation
<1>3. Kept(done, keep, list, less)
  BY <1>2, KeptLess
<1>4. Situation(W, wanted, levels, level, walk, list, less, whole, done, keep, ahead)
  BY <1>1, <1>3 DEF Situation
<1> QED BY <1>4 DEF OnCourse

LEMMA ReturnOnCourse ==
  ASSUME NEW wanted, NEW levels, NEW level, NEW walk, NEW list, NEW still, NEW whole,
         OnCourse(wanted, levels, level, walk, list, still, whole),
         walk # <<>>, walk[Len(walk)].left = <<>>
  PROVE  OnCourse(wanted, levels, level, SubSeq(walk, 1, Len(walk) - 1), list, still, whole)
<1>1. PICK W, done, keep, ahead :
        Situation(W, wanted, levels, level, walk, list, still, whole, done, keep, ahead)
  BY DEF OnCourse
<1> DEFINE n == Len(walk)
           outer == SubSeq(walk, 1, n - 1)
           next == [k \in 0 .. n - 1 |-> ahead[k]]
<1>2. Ahead(W, wanted, levels, walk, ahead)
  BY <1>1 DEF Situation
<1>3. n \in Nat \ {0} /\ walk \in Seq([dir : Directories, left : Seq(Node)])
  BY <1>2 DEF Ahead
<1>4. Ahead(W, wanted, levels, outer, next)
  BY <1>2, AheadReturn
<1>5. ahead[n] = ahead[n - 1]
  BY <1>2, AheadAtEnd
<1>6. n - 1 \in 0 .. n - 1
  BY <1>3
<1>7. Len(outer) = n - 1 /\ \A k \in 1 .. n - 1 : outer[k] = walk[k]
  BY <1>3, OuterProperties
<1>8. next[Len(outer)] = ahead[n]
  <2> HIDE DEF outer, n
  <2> QED BY <1>5, <1>6, <1>7
<1>9. Fits(walk, levels, level) /\ levels \in Nat /\ n \in Nat
  BY <1>1, <1>3 DEF Situation, IsReference
<1>10. Fits(outer, levels, level)
  <2> HIDE DEF outer
  <2>1. Len(outer) <= levels + 1
    BY <1>7, <1>9 DEF Fits
  <2>2. ASSUME level = NO_LIMIT, NEW k \in 1 .. Len(outer), NEW i \in 1 .. Len(outer[k].left)
        PROVE  Height[outer[k].left[i]] <= levels - k
    <3>1. k \in 1 .. n /\ outer[k] = walk[k]
      BY <1>3, <1>7, <2>2
    <3> QED BY <1>9, <2>2, <3>1 DEF Fits
  <2> QED BY <2>1, <2>2 DEF Fits
<1> HIDE DEF outer, next, n
<1>11. Situation(W, wanted, levels, level, outer, list, still, whole, done, keep, next)
  BY <1>1, <1>4, <1>8, <1>10 DEF Situation, n
<1> QED BY <1>11 DEF OnCourse, outer, n

\* The first activation has everything ahead.
LEMMA CallOnCourse ==
  ASSUME NEW wanted, NEW levels \in Nat, NEW level, NEW still, UpClosed(still),
         level = NO_LIMIT => Height[Root] = levels
  PROVE  OnCourse(wanted, levels, level,
                  <<[dir |-> Root, left |-> IF Root \in still THEN Children[Root] ELSE <<>>]>>,
                  <<>>, still, Reference(wanted, levels)[Root])
<1> DEFINE left == IF Root \in still THEN Children[Root] ELSE <<>>
           walk == <<[dir |-> Root, left |-> left]>>
           whole == Reference(wanted, levels)[Root]
           first == [k \in 0 .. 0 |-> <<>>]
<1>1. PICK W : IsReference(W, wanted, levels) /\ Reference(wanted, levels) = W[levels]
  BY ReferenceIs
<1>2. Root \in Directories /\ Root \in Node /\ Children[Root] \in Seq(Node)
  BY DirectoryAssumption DEF Directories
<1>3. left \in Seq(Node)
  <2>1. <<>> \in Seq(Node)
    OBVIOUS
  <2> QED BY <1>2, <2>1
<1>4. levels \in 0 .. levels /\ levels - 0 = levels /\ Len(<<>>) = 0
  OBVIOUS
<1>5. StaysIn(Node, Inside(W, levels))
  BY <1>1, <1>4, InsideStays
<1>6. walk = Append(<<>>, [dir |-> Root, left |-> left]) /\ walk # <<>>
      /\ Len(walk) = 1 /\ walk[1].left = left
  OBVIOUS
<1>7. whole = InOrder(wanted, Children[Root], Inside(W, levels))
  BY <1>1, <1>2, <1>4 DEF IsReference
<1>8. whole \in Seq(Node)
  <2>1. W[levels] \in [Directories -> Seq(Node)]
    BY <1>1, <1>4 DEF IsReference
  <2> QED BY <1>1, <1>2, <2>1
<1>9. Ahead(W, wanted, levels, <<>>, first)
  BY AheadEmpty
<1> HIDE DEF whole, first
<1>10. Within(Node, left, Inside(W, levels - Len(<<>>)))
  BY <1>3, <1>4, <1>5 DEF Within
<1> HIDE DEF left
<1>a. PICK next : Called(W, wanted, levels, <<>>, first, Root, left, next)
  BY <1>2, <1>3, <1>9, <1>10, AheadCall
<1>11. /\ Ahead(W, wanted, levels, Append(<<>>, [dir |-> Root, left |-> left]), next)
       /\ next[Len(<<>>) + 1] =
                        InOrder(wanted, left, Inside(W, levels - Len(<<>>))) \o first[Len(<<>>)]
  BY <1>a DEF Called
<1>12. next[Len(walk)] = InOrder(wanted, left, Inside(W, levels))
  <2> DEFINE top == InOrder(wanted, left, Inside(W, levels))
  <2>1. Within(Node, left, Inside(W, levels))
    BY <1>4, <1>10
  <2>2. top \in Seq(Node)
    BY <2>1, InOrderType
  <2>3. next[1] = top \o first[0]
    BY <1>4, <1>11
  <2> HIDE DEF top
  <2>4. first[0] = <<>>
    BY DEF first
  <2>5. next[1] = top
    BY <2>2, <2>3, <2>4, ConcatEmptySeq
  <2> QED BY <1>6, <2>5 DEF top
<1> HIDE DEF walk
<1>13. Fits(walk, levels, level)
  <2>1. ASSUME level = NO_LIMIT, NEW i \in 1 .. Len(left)
        PROVE  Height[left[i]] <= levels - 1
    <3>1. left = Children[Root]
      BY <2>1 DEF left
    <3>2. left[i] \in Node
      BY <1>3, <2>1, ElementOfSeq
    <3>3. Height[left[i]] < Height[Root] /\ Height[left[i]] \in Nat
      BY <1>2, <2>1, <3>1, <3>2, DirectoryAssumption
    <3> QED BY <2>1, <3>3
  <2> QED BY <1>6, <2>1 DEF Fits
<1>14. CASE Root \in still
  <2>1. left = Children[Root]
    BY <1>14 DEF left
  <2>2. whole = <<>> \o next[Len(walk)]
    BY <1>7, <1>8, <1>12, <2>1, ConcatEmptySeq
  <2>3. Kept(<<>>, {}, <<>>, still)
    BY KeptEmpty
  <2>4. Situation(W, wanted, levels, level, walk, <<>>, still, whole, <<>>, {}, next)
    BY <1>1, <1>6, <1>11, <1>13, <2>2, <2>3 DEF Situation
  <2> QED BY <2>4 DEF OnCourse, whole, walk, left
<1>15. CASE Root \notin still
  <2>1. left = <<>>
    BY <1>15 DEF left
  <2>2. next[Len(walk)] = <<>>
    BY <1>12, <2>1, InOrderEmpty
  <2>3. whole = whole \o next[Len(walk)]
    BY <1>8, <2>2, ConcatEmptySeq
  <2>4. whole \in Seq(Node \ still)
    <3>1. \A n \in 0 .. levels : StaysIn(Node \ still, Inside(W, n))
      BY <1>1, GoneInside
    <3>2. StaysIn(Node \ still, Inside(W, levels))
      BY <1>4, <3>1
    <3>3. ASSUME NEW k \in 1 .. Len(Children[Root]) PROVE Children[Root][k] \in Node \ still
      BY <1>2, <1>15, ElementOfSeq DEF UpClosed
    <3>4. Children[Root] \in Seq(Node \ still)
      BY <1>2, <3>3
    <3>5. Within(Node \ still, Children[Root], Inside(W, levels))
      BY <3>2, <3>4 DEF Within
    <3> QED BY <1>7, <3>5, InOrderType
  <2>5. <<>> \o whole = whole
    BY <1>8, ConcatEmptySeq
  <2>6. Kept(<<>> \o whole, {}, <<>>, still)
    BY <1>8, <2>4, KeptEmpty, KeptPassing
  <2>7. Kept(whole, {}, <<>>, still)
    BY <2>5, <2>6
  <2>8. Situation(W, wanted, levels, level, walk, <<>>, still, whole, whole, {}, next)
    BY <1>1, <1>6, <1>11, <1>13, <2>3, <2>7 DEF Situation
  <2> QED BY <2>8 DEF OnCourse, whole, walk, left
<1> QED BY <1>14, <1>15

\* The walk when the innermost activation has read an entry.
Advanced(walk) ==
  Append(SubSeq(walk, 1, Len(walk) - 1),
         [dir |-> walk[Len(walk)].dir, left |-> Tail(walk[Len(walk)].left)])

Entry(walk) == Head(walk[Len(walk)].left)

HasEntry(walk) ==
  /\ walk \in Seq([dir : Directories, left : Seq(Node)])
  /\ walk # <<>> /\ walk[Len(walk)].left # <<>>

LEMMA InnermostType ==
  ASSUME NEW walk, HasEntry(walk)
  PROVE  /\ Len(walk) \in Nat \ {0}
         /\ walk[Len(walk)].dir \in Directories
         /\ walk[Len(walk)].left \in Seq(Node)
<1> DEFINE n == Len(walk)
<1>1. walk \in Seq([dir : Directories, left : Seq(Node)]) /\ walk # <<>>
  BY DEF HasEntry
<1>2. n \in Nat \ {0} /\ n \in 1 .. n
  BY <1>1
<1> DEFINE Frame == [dir : Directories, left : Seq(Node)]
<1>3. walk[n] \in Frame
  <2> HIDE DEF Frame
  <2>1. walk \in Seq(Frame)
    BY <1>1 DEF Frame
  <2> QED BY <1>2, <2>1, ElementOfSeq
<1> HIDE DEF n
<1>4. walk[n].dir \in Directories /\ walk[n].left \in Seq(Node)
  BY <1>3, SMTT(60)
<1> QED BY <1>2, <1>4 DEF n

LEMMA AdvancedProperties ==
  ASSUME NEW walk, HasEntry(walk)
  PROVE  /\ Len(walk) \in Nat \ {0}
         /\ Advanced(walk) \in Seq([dir : Directories, left : Seq(Node)])
         /\ Len(Advanced(walk)) = Len(walk)
         /\ Entry(walk) \in Node
         /\ Advanced(walk)[Len(walk)] =
              [dir |-> walk[Len(walk)].dir, left |-> Tail(walk[Len(walk)].left)]
         /\ \A k \in 1 .. Len(walk) - 1 : Advanced(walk)[k] = walk[k]
<1> DEFINE n == Len(walk)
           Frame == [dir : Directories, left : Seq(Node)]
           outer == SubSeq(walk, 1, n - 1)
           frame == [dir |-> walk[n].dir, left |-> Tail(walk[n].left)]
<1>1. walk \in Seq(Frame) /\ walk # <<>> /\ n \in Nat \ {0}
  BY DEF HasEntry
<1>2. outer \in Seq(Frame) /\ Len(outer) = n - 1 /\ \A k \in 1 .. n - 1 : outer[k] = walk[k]
  <2> HIDE DEF Frame
  <2> QED BY <1>1, OuterProperties
<1>3. walk[n].dir \in Directories /\ walk[n].left \in Seq(Node) /\ walk[n].left # <<>>
  BY InnermostType DEF HasEntry
<1>4. Tail(walk[n].left) \in Seq(Node) /\ Head(walk[n].left) \in Node
  BY <1>3
<1>5. frame \in Frame
  BY <1>3, <1>4
<1> HIDE DEF Frame, outer, frame, n
<1>6. /\ Append(outer, frame) \in Seq(Frame) /\ Len(Append(outer, frame)) = n - 1 + 1
      /\ Append(outer, frame)[n - 1 + 1] = frame
      /\ \A k \in 1 .. n - 1 : Append(outer, frame)[k] = outer[k]
  BY <1>2, <1>5, AppendProperties
<1>7. n - 1 + 1 = n
  BY <1>1
<1> QED BY <1>1, <1>2, <1>4, <1>6, <1>7 DEF Advanced, Entry, Frame, outer, frame, n

\* What is ahead is what the entry contributes and what is ahead after it.
EntryRead(W, wanted, levels, walk, ahead, next) ==
  /\ Ahead(W, wanted, levels, Advanced(walk), next)
  /\ ahead[Len(walk)] =
       Part(wanted, Inside(W, levels - (Len(walk) - 1)), Entry(walk)) \o next[Len(walk)]

LEMMA AheadEntry ==
  ASSUME NEW W, NEW wanted, NEW levels, IsReference(W, wanted, levels),
         NEW walk, NEW ahead, Ahead(W, wanted, levels, walk, ahead), HasEntry(walk),
         Len(walk) <= levels + 1
  PROVE  \E next : EntryRead(W, wanted, levels, walk, ahead, next)
<1> DEFINE n == Len(walk)
           dir == walk[n].dir
           left == walk[n].left
           outer == SubSeq(walk, 1, n - 1)
           V == Inside(W, levels - (n - 1))
           before == [k \in 0 .. n - 1 |-> ahead[k]]
<1>1. /\ walk \in Seq([dir : Directories, left : Seq(Node)]) /\ walk # <<>> /\ n \in Nat \ {0}
      /\ levels \in Nat /\ n <= levels + 1
  BY DEF HasEntry, IsReference
<1>2. dir \in Directories /\ left \in Seq(Node) /\ left # <<>>
  BY InnermostType DEF HasEntry
<1>3. Tail(left) \in Seq(Node) /\ Head(left) \in Node
  BY <1>2
<1>4. levels - (n - 1) \in 0 .. levels
  BY <1>1
<1>5. StaysIn(Node, V)
  BY <1>4, InsideStays
<1>6. Ahead(W, wanted, levels, outer, before)
  BY <1>1, AheadReturn
<1>7. Len(outer) = n - 1
  BY <1>1, OuterProperties
<1>8. Within(Node, Tail(left), V) /\ Within(Node, left, V)
  BY <1>2, <1>3, <1>5 DEF Within
<1>9. Within(Node, Tail(left), Inside(W, levels - Len(outer)))
  BY <1>7, <1>8
<1> HIDE DEF outer, before, dir, left
<1>10. PICK next : Called(W, wanted, levels, outer, before, dir, Tail(left), next)
  BY <1>2, <1>3, <1>6, <1>9, AheadCall
<1>11. Ahead(W, wanted, levels, Advanced(walk), next)
  BY <1>10 DEF Called, Advanced, outer, dir, left
<1> DEFINE rest == InOrder(wanted, Tail(left), V)
           item == Part(wanted, V, Head(left))
           low == ahead[n - 1]
<1>12. next[n] = rest \o low
  <2>1. next[n - 1 + 1] = rest \o before[n - 1]
    BY <1>7, <1>10 DEF Called
  <2>2. n - 1 + 1 = n /\ n - 1 \in 0 .. n - 1
    BY <1>1
  <2>3. before[n - 1] = low
    BY <2>2 DEF before
  <2> QED BY <2>1, <2>2, <2>3
<1>13. rest \in Seq(Node)
  BY <1>8, InOrderType
<1>14. item \in Seq(Node)
  BY <1>3, <1>5, PartType
<1>15. low \in Seq(Node)
  <2>1. n - 1 \in 0 .. n
    BY <1>1
  <2> QED BY <2>1 DEF Ahead
<1>16. InOrder(wanted, left, V) = item \o rest
  <2> HIDE DEF V
  <2>1. Within(Node, left, V) /\ left # <<>>
    BY <1>2, <1>8
  <2>2. FirstThenOthers(wanted, left, V)
    BY <2>1, InOrderFirst
  <2> QED BY <2>2 DEF FirstThenOthers
<1>17. ahead[n] = InOrder(wanted, left, V) \o low
  <2>1. n \in 1 .. n
    BY <1>1
  <2> QED BY <2>1 DEF Ahead, left
<1> HIDE DEF item, rest, low
<1>18. (item \o rest) \o low = item \o (rest \o low)
  BY <1>13, <1>14, <1>15, ConcatAssociative
<1>19. ahead[n] = item \o next[n]
  BY <1>12, <1>16, <1>17, <1>18
<1> QED BY <1>11, <1>19 DEF EntryRead, item, Entry, left

LEMMA FitsAdvanced ==
  ASSUME NEW walk, NEW levels, NEW level, HasEntry(walk), Fits(walk, levels, level)
  PROVE  Fits(Advanced(walk), levels, level)
<1> DEFINE n == Len(walk)
           left == walk[n].left
           new == Advanced(walk)
<1>1. /\ n \in Nat \ {0} /\ Len(new) = n
      /\ new[n] = [dir |-> walk[n].dir, left |-> Tail(left)]
      /\ \A k \in 1 .. n - 1 : new[k] = walk[k]
  BY AdvancedProperties
<1>2. left \in Seq(Node) /\ left # <<>>
  BY InnermostType DEF HasEntry
<1>3. \A i \in 1 .. Len(Tail(left)) : i + 1 \in 1 .. Len(left) /\ Tail(left)[i] = left[i + 1]
  BY <1>2
<1>4. new[n].left = Tail(left)
  BY <1>1
<1> HIDE DEF new
<1>5. ASSUME level = NO_LIMIT, NEW k \in 1 .. n, NEW i \in 1 .. Len(new[k].left)
      PROVE  Height[new[k].left[i]] <= levels - k
  <2>1. CASE k = n
    <3>1. i + 1 \in 1 .. Len(left) /\ new[k].left[i] = left[i + 1]
      BY <1>3, <1>4, <1>5, <2>1
    <3>2. n \in 1 .. n
      BY <1>1
    <3>3. Height[left[i + 1]] <= levels - n
      BY <1>5, <3>1, <3>2 DEF Fits
    <3> QED BY <2>1, <3>1, <3>3
  <2>2. CASE k # n
    <3>1. k \in 1 .. n - 1
      BY <1>1, <2>2
    <3>2. new[k] = walk[k]
      BY <1>1, <3>1
    <3> QED BY <1>5, <3>2 DEF Fits
  <2> QED BY <2>1, <2>2
<1> QED BY <1>1, <1>5 DEF Fits, new

-----------------------------------------------------------------------------
(* The entries.                                                            *)

\* An entry that is gone or hidden.
LEMMA SkipOnCourse ==
  ASSUME NEW wanted, NEW levels, NEW level, NEW walk, NEW list, NEW still, NEW whole,
         OnCourse(wanted, levels, level, walk, list, still, whole),
         UpClosed(still), HasEntry(walk),
         Entry(walk) \in still => Entry(walk) \notin wanted /\ Entry(walk) \notin Directories
  PROVE  OnCourse(wanted, levels, level, Advanced(walk), list, still, whole)
<1> DEFINE n == Len(walk)
           node == Entry(walk)
<1>1. PICK W, done, keep, ahead :
        Situation(W, wanted, levels, level, walk, list, still, whole, done, keep, ahead)
  BY DEF OnCourse
<1> DEFINE V == Inside(W, levels - (n - 1))
           item == Part(wanted, V, node)
<1>2. /\ IsReference(W, wanted, levels) /\ Ahead(W, wanted, levels, walk, ahead)
      /\ Fits(walk, levels, level) /\ Kept(done, keep, list, still)
      /\ whole = done \o ahead[n]
  BY <1>1 DEF Situation
<1>3. n \in Nat \ {0} /\ node \in Node /\ Len(Advanced(walk)) = n
  BY AdvancedProperties
<1>4. n <= levels + 1 /\ levels \in Nat
  BY <1>2 DEF Fits, IsReference
<1>5. PICK next : EntryRead(W, wanted, levels, walk, ahead, next)
  BY <1>2, <1>4, AheadEntry
<1>6. Ahead(W, wanted, levels, Advanced(walk), next) /\ ahead[n] = item \o next[n]
  BY <1>5 DEF EntryRead
<1>7. levels - (n - 1) \in 0 .. levels
  BY <1>3, <1>4
<1>8. item \in Seq(Node) /\ item \in Seq(Node \ still)
  <2>1. CASE node \in still
    <3>1. <<>> \o <<>> = <<>> /\ <<>> \in Seq(Node) /\ <<>> \in Seq(Node \ still)
      OBVIOUS
    <3>2. item = <<>>
      BY <2>1, <3>1 DEF Part
    <3> QED BY <3>1, <3>2
  <2>2. CASE node \notin still
    <3>1. StaysIn(Node \ still, V)
      BY <1>2, <1>7, GoneInside
    <3>2. StaysIn(Node, V)
      BY <1>2, <1>7, InsideStays
    <3>3. node \in Node \ still
      BY <1>3, <2>2
    <3> HIDE DEF V
    <3>4. item \in Seq(Node)
      BY <1>3, <3>2, PartType
    <3>5. item \in Seq(Node \ still)
      BY <3>1, <3>3, PartType
    <3> QED BY <3>4, <3>5
  <2> QED BY <2>1, <2>2
<1> DEFINE low == next[n]
<1>9. low \in Seq(Node)
  BY <1>3, <1>6, SMTT(60) DEF Ahead
<1> HIDE DEF item, V
<1>10. Kept(done \o item, keep, list, still)
  BY <1>2, <1>8, KeptPassing
<1>11. whole = (done \o item) \o low
  <2>1. done \in Seq(Node)
    BY <1>2 DEF Kept
  <2>2. whole = done \o (item \o low)
    BY <1>2, <1>6
  <2> HIDE DEF low
  <2> QED BY <1>8, <1>9, <2>1, <2>2, ConcatAssociative, SMTT(60)
<1>12. Fits(Advanced(walk), levels, level)
  BY <1>2, FitsAdvanced
<1>13. Situation(W, wanted, levels, level, Advanced(walk), list, still, whole,
                 done \o item, keep, next)
  BY <1>2, <1>3, <1>6, <1>10, <1>11, <1>12 DEF Situation
<1> QED BY <1>13 DEF OnCourse

\* The list when an entry was looked at.
Listing(wanted, list, node) == IF node \in wanted THEN Append(list, node) ELSE list

Own(wanted, node) == IF node \in wanted THEN <<node>> ELSE <<>>

LEMMA OwnKept ==
  ASSUME NEW done, NEW keep, NEW list, NEW still, Kept(done, keep, list, still),
         NEW node \in Node, NEW wanted
  PROVE  \E kept : Kept(done \o Own(wanted, node), kept, Listing(wanted, list, node), still)
BY KeptEntry DEF Own, Listing

\* An entry that is there but not entered.
LEMMA EntryOnCourse ==
  ASSUME NEW wanted, NEW levels, NEW level, NEW walk, NEW list, NEW still, NEW whole,
         OnCourse(wanted, levels, level, walk, list, still, whole), HasEntry(walk),
         Entry(walk) \in Directories => Len(walk) > levels
  PROVE  OnCourse(wanted, levels, level, Advanced(walk),
                  Listing(wanted, list, Entry(walk)), still, whole)
<1> DEFINE n == Len(walk)
           node == Entry(walk)
           own == Own(wanted, node)
<1>1. PICK W, done, keep, ahead :
        Situation(W, wanted, levels, level, walk, list, still, whole, done, keep, ahead)
  BY DEF OnCourse
<1> DEFINE V == Inside(W, levels - (n - 1))
<1>2. /\ IsReference(W, wanted, levels) /\ Ahead(W, wanted, levels, walk, ahead)
      /\ Fits(walk, levels, level) /\ Kept(done, keep, list, still)
      /\ whole = done \o ahead[n]
  BY <1>1 DEF Situation
<1>3. n \in Nat \ {0} /\ node \in Node /\ Len(Advanced(walk)) = n
  BY AdvancedProperties
<1>4. n <= levels + 1 /\ levels \in Nat
  BY <1>2 DEF Fits, IsReference
<1>5. PICK next : EntryRead(W, wanted, levels, walk, ahead, next)
  BY <1>2, <1>4, AheadEntry
<1>6. Ahead(W, wanted, levels, Advanced(walk), next) /\ ahead[n] = Part(wanted, V, node) \o next[n]
  BY <1>5 DEF EntryRead
<1>7. own \in Seq(Node)
  <2>1. <<node>> \in Seq(Node) /\ <<>> \in Seq(Node)
    BY <1>3
  <2> QED BY <2>1 DEF Own
<1>8. Part(wanted, V, node) = own
  <2>1. own \o <<>> = own
    BY <1>7, ConcatEmptySeq
  <2>2. CASE node \notin Directories
    BY <2>1, <2>2 DEF Part, Own
  <2>3. CASE node \in Directories
    <3>1. levels - (n - 1) = 0
      BY <1>3, <1>4, <2>3
    <3>2. V[node] = <<>>
      BY <2>3, <3>1 DEF Inside, Nothing
    <3> HIDE DEF V
    <3> QED BY <2>1, <2>3, <3>2 DEF Part, Own
  <2> QED BY <2>2, <2>3
<1> DEFINE low == next[n]
<1>9. low \in Seq(Node)
  BY <1>3, <1>6, SMTT(60) DEF Ahead
<1> HIDE DEF own, node
<1>10. PICK kept : Kept(done \o own, kept, Listing(wanted, list, node), still)
  BY <1>2, <1>3, OwnKept DEF own
<1>11. whole = (done \o own) \o low
  <2>1. done \in Seq(Node)
    BY <1>2 DEF Kept
  <2>2. whole = done \o (own \o low)
    BY <1>2, <1>6, <1>8
  <2> HIDE DEF low
  <2> QED BY <1>7, <1>9, <2>1, <2>2, ConcatAssociative
<1>12. Fits(Advanced(walk), levels, level)
  BY <1>2, FitsAdvanced
<1>13. Situation(W, wanted, levels, level, Advanced(walk), Listing(wanted, list, node), still,
                 whole, done \o own, kept, next)
  BY <1>2, <1>3, <1>6, <1>10, <1>11, <1>12 DEF Situation
<1> QED BY <1>13 DEF OnCourse, node

\* Without a limit there is a level for what is inside of an entry.
LEMMA LevelsLeft ==
  ASSUME NEW walk, NEW levels, HasEntry(walk), Fits(walk, levels, NO_LIMIT), levels \in Nat
  PROVE  Height[Entry(walk)] <= levels - Len(walk) /\ Len(walk) <= levels
<1> DEFINE n == Len(walk)
           left == walk[n].left
<1>1. n \in Nat \ {0} /\ left \in Seq(Node) /\ left # <<>>
  BY InnermostType DEF HasEntry
<1>2. n \in 1 .. n /\ 1 \in 1 .. Len(left) /\ Head(left) = left[1] /\ Head(left) \in Node
  BY <1>1
<1>3. Height[left[1]] <= levels - n
  BY <1>2 DEF Fits
<1>4. Height[Head(left)] \in Nat
  BY <1>2, DirectoryAssumption
<1> HIDE DEF n, left
<1>5. Height[Head(left)] <= levels - n /\ n <= levels
  BY <1>1, <1>2, <1>3, <1>4
<1> QED BY <1>5 DEF Entry, n, left

LEMMA FitsEntered ==
  ASSUME NEW walk, NEW levels, NEW level, HasEntry(walk), Fits(walk, levels, level),
         levels \in Nat, Len(walk) <= levels, Entry(walk) \in Directories
  PROVE  Fits(Append(Advanced(walk), [dir |-> Entry(walk), left |-> Children[Entry(walk)]]),
              levels, level)
<1> DEFINE n == Len(walk)
           node == Entry(walk)
           frame == [dir |-> node, left |-> Children[node]]
           F == [dir : Directories, left : Seq(Node)]
           new == Advanced(walk)
           deeper == Append(new, frame)
<1>1. n \in Nat \ {0} /\ new \in Seq(F) /\ Len(new) = n /\ node \in Node
  BY AdvancedProperties
<1>2. Fits(new, levels, level)
  BY FitsAdvanced
<1>3. Children[node] \in Seq(Node)
  BY DirectoryAssumption
<1>4. frame \in F /\ frame.left = Children[node]
  BY <1>3
<1> HIDE DEF new, frame, F, n
<1>5. /\ Len(deeper) = n + 1 /\ deeper[n + 1] = frame
      /\ \A k \in 1 .. n : deeper[k] = new[k]
  BY <1>1, <1>4, AppendProperties
<1> HIDE DEF deeper
<1>6. ASSUME level = NO_LIMIT, NEW k \in 1 .. n + 1, NEW i \in 1 .. Len(deeper[k].left)
      PROVE  Height[deeper[k].left[i]] <= levels - k
  <2>1. CASE k = n + 1
    <3>1. deeper[k].left = Children[node]
      BY <1>4, <1>5, <2>1
    <3>2. Height[node] <= levels - n
      BY <1>6, LevelsLeft DEF n
    <3> DEFINE child == Children[node][i]
    <3>3. i \in 1 .. Len(Children[node])
      BY <1>6, <3>1
    <3>4. child \in Node
      BY <1>3, <3>3, ElementOfSeq
    <3>5. Height[child] < Height[node]
      BY <3>3, DirectoryAssumption
    <3>6. Height[child] \in Nat /\ Height[node] \in Nat
      BY <1>1, <3>4, DirectoryAssumption
    <3>7. deeper[k].left[i] = child
      BY <3>1
    <3> HIDE DEF child, node
    <3>8. Height[child] <= levels - (n + 1)
      BY <1>1, <3>2, <3>5, <3>6
    <3> QED BY <2>1, <3>7, <3>8
  <2>2. CASE k # n + 1
    <3>1. k \in 1 .. n
      BY <1>1, <2>2
    <3>2. deeper[k] = new[k] /\ k \in 1 .. Len(new)
      BY <1>1, <1>5, <3>1
    <3> QED BY <1>2, <1>6, <3>2 DEF Fits
  <2> QED BY <2>1, <2>2
<1>7. Len(deeper) <= levels + 1
  BY <1>1, <1>5 DEF n
<1> QED BY <1>5, <1>6, <1>7 DEF Fits, deeper, frame, new

\* A directory that is entered.
LEMMA EnteredOnCourse ==
  ASSUME NEW wanted, NEW levels, NEW level, NEW walk, NEW list, NEW still, NEW whole,
         OnCourse(wanted, levels, level, walk, list, still, whole), HasEntry(walk),
         Entry(walk) \in Directories, Len(walk) <= levels
  PROVE  OnCourse(wanted, levels, level,
                  Append(Advanced(walk), [dir |-> Entry(walk), left |-> Children[Entry(walk)]]),
                  Listing(wanted, list, Entry(walk)), still, whole)
<1> DEFINE n == Len(walk)
           node == Entry(walk)
           own == Own(wanted, node)
           new == Advanced(walk)
           left == Children[node]
           deeper == Append(new, [dir |-> node, left |-> left])
<1>1. PICK W, done, keep, ahead :
        Situation(W, wanted, levels, level, walk, list, still, whole, done, keep, ahead)
  BY DEF OnCourse
<1> DEFINE V == Inside(W, levels - (n - 1))
<1>2. /\ IsReference(W, wanted, levels) /\ Ahead(W, wanted, levels, walk, ahead)
      /\ Fits(walk, levels, level) /\ Kept(done, keep, list, still)
      /\ whole = done \o ahead[n]
  BY <1>1 DEF Situation
<1>3. n \in Nat \ {0} /\ node \in Node /\ Len(new) = n
  BY AdvancedProperties
<1>4. n <= levels + 1 /\ levels \in Nat
  BY <1>2 DEF Fits, IsReference
<1>5. PICK next : EntryRead(W, wanted, levels, walk, ahead, next)
  BY <1>2, <1>4, AheadEntry
<1>6. Ahead(W, wanted, levels, new, next) /\ ahead[n] = Part(wanted, V, node) \o next[n]
  BY <1>5 DEF EntryRead
<1>7. left \in Seq(Node)
  BY DirectoryAssumption
<1>8. levels - n \in 0 .. levels
  BY <1>3, <1>4
<1>9. StaysIn(Node, Inside(W, levels - n))
  BY <1>2, <1>8, InsideStays
<1>10. Within(Node, left, Inside(W, levels - Len(new)))
  BY <1>3, <1>7, <1>9 DEF Within
<1> HIDE DEF new, left
<1>11. PICK last : Called(W, wanted, levels, new, next, node, left, last)
  BY <1>6, <1>7, <1>10, AheadCall
<1> DEFINE below == InOrder(wanted, left, Inside(W, levels - n))
           low == next[n]
<1>12. Ahead(W, wanted, levels, deeper, last) /\ last[n + 1] = below \o low
  BY <1>3, <1>11 DEF Called
<1>13. below \in Seq(Node)
  BY <1>3, <1>10, InOrderType
<1>14. own \in Seq(Node)
  <2>1. <<node>> \in Seq(Node) /\ <<>> \in Seq(Node)
    BY <1>3
  <2> QED BY <2>1 DEF Own
<1>15. low \in Seq(Node)
  <2>1. n \in 0 .. n
    BY <1>3
  <2> QED BY <1>3, <1>6, <2>1 DEF Ahead
<1>16. Part(wanted, V, node) = own \o below
  <2>1. levels - (n - 1) # 0 /\ levels - (n - 1) - 1 = levels - n
    BY <1>3, <1>4
  <2>2. V = W[levels - n]
    BY <2>1 DEF Inside
  <2>3. W[levels - n][node] = InOrder(wanted, Children[node], Inside(W, levels - n))
    BY <1>2, <1>8 DEF IsReference
  <2>4. V[node] = below
    BY <2>2, <2>3 DEF left
  <2> HIDE DEF V, below
  <2> QED BY <2>4 DEF Part, Own
<1>17. Len(deeper) = n + 1
  <2> DEFINE frame == [dir |-> node, left |-> left]
             Frame == [dir : Directories, left : Seq(Node)]
  <2>1. frame \in Frame /\ new \in Seq(Frame)
    BY <1>6, <1>7 DEF Ahead
  <2> HIDE DEF Frame, frame
  <2>2. Len(Append(new, frame)) = Len(new) + 1
    BY <2>1, AppendProperties
  <2> QED BY <1>3, <2>2 DEF frame
<1>18. Fits(deeper, levels, level)
  BY <1>2, <1>4, FitsEntered DEF new, left
<1> HIDE DEF own, node, below, low, deeper, V
<1>19. PICK kept : Kept(done \o own, kept, Listing(wanted, list, node), still)
  BY <1>2, <1>3, OwnKept DEF own
<1>20. whole = (done \o own) \o last[n + 1]
  <2>1. done \in Seq(Node)
    BY <1>2 DEF Kept
  <2>2. ahead[n] = (own \o below) \o low
    BY <1>6, <1>16 DEF low
  <2>3. (own \o below) \o low = own \o (below \o low)
    BY <1>13, <1>14, <1>15, ConcatAssociative
  <2> DEFINE end == below \o low
  <2>4. end \in Seq(Node)
    BY <1>13, <1>15, ConcatProperties
  <2>5. whole = done \o (own \o end) /\ last[n + 1] = end
    BY <1>2, <1>12, <2>2, <2>3
  <2> HIDE DEF end
  <2>6. (done \o own) \o end = done \o (own \o end)
    BY <1>14, <2>1, <2>4, ConcatAssociative
  <2> QED BY <2>5, <2>6
<1>21. Situation(W, wanted, levels, level, deeper, Listing(wanted, list, node), still,
                 whole, done \o own, kept, last)
  BY <1>2, <1>12, <1>17, <1>18, <1>19, <1>20 DEF Situation
<1> QED BY <1>21 DEF OnCourse, deeper, node, new, left

\* At its end the walk has listed the whole, but for what is gone.
LEMMA AtTheEnd ==
  ASSUME NEW wanted, NEW levels, NEW level, NEW list, NEW still, NEW whole,
         OnCourse(wanted, levels, level, <<>>, list, still, whole)
  PROVE  \E keep \in SUBSET (DOMAIN whole) :
           /\ \A k \in DOMAIN whole : whole[k] \in still => k \in keep
           /\ IsPart(list, whole, keep)
<1>1. PICK W, done, keep, ahead :
        Situation(W, wanted, levels, level, <<>>, list, still, whole, done, keep, ahead)
  BY DEF OnCourse
<1>2. Kept(done, keep, list, still) /\ Ahead(W, wanted, levels, <<>>, ahead)
      /\ whole = done \o ahead[Len(<<>>)]
  BY <1>1 DEF Situation
<1>3. done \in Seq(Node) /\ ahead[0] = <<>> /\ Len(<<>>) = 0
  BY <1>2 DEF Kept, Ahead
<1>4. whole = done
  BY <1>2, <1>3, ConcatEmptySeq
<1>5. DOMAIN whole = 1 .. Len(whole)
  BY <1>3, <1>4
<1> QED BY <1>2, <1>4, <1>5 DEF Kept

-----------------------------------------------------------------------------
(* The walk of the program.                                                *)

\* How many levels below the root are listed.
Deep == IF recursive_level = NO_LIMIT THEN Height[Root] ELSE recursive_level

WalkInv ==
  /\ TypeOK /\ lists \in Nat /\ UpClosed(there)
  /\ lists = 0 => frames = <<>> /\ file_list = <<>>
  /\ lists = 1 /\ ~NoFilter =>
       OnCourse(Wanted, Deep, recursive_level, frames, file_list, there, Expected)

LEMMA DeepType == TypeOK => Deep \in Nat
BY DirectoryAssumption DEF TypeOK, Deep, Directories

\* With a filter, the walk lists the files whose endings are wanted: no other ending
\* ends the search before.
LEMMA ListedIsWanted ==
  ASSUME TypeOK, NEW node \in Node, ~NoFilter
  PROVE  Listed(node) <=> node \in Wanted
<1>1. fileFilterList \in FilterLists
  BY DEF TypeOK
<1> DEFINE list == fileFilterList
<1>2. ASSUME Kind[node] = "file"
      PROVE  hasFileFilterEnding(node) <=> \E k \in DOMAIN list : list[k] \in EndingsOf[node]
  BY <1>1, <1>2, EndingsAssumption DEF hasFileFilterEnding
<1> QED BY <1>2 DEF Listed, Wanted

LEMMA SettingsKept ==
  ASSUME UNCHANGED settings
  PROVE  /\ recursive_level' = recursive_level /\ Wanted' = Wanted /\ Deep' = Deep
         /\ Expected' = Expected /\ NoFilter' = NoFilter
<1>1. /\ recursive_level' = recursive_level /\ file_type' = file_type
      /\ fileFilterList' = fileFilterList
  BY DEF settings
<1>5. NoFilter' = NoFilter
  BY <1>1 DEF NoFilter
<1>2. Wanted' = Wanted
  BY <1>1, <1>5 DEF Wanted
<1>3. Deep' = Deep
  BY <1>1 DEF Deep
<1>4. Expected' = Expected
  BY <1>1, <1>2 DEF Expected
<1> QED BY <1>1, <1>2, <1>3, <1>4, <1>5

LEMMA WalkStarts == Init => WalkInv
<1> SUFFICES ASSUME Init PROVE WalkInv
  OBVIOUS
<1>1. TypeOK
  <2>1. <<>> \in Seq(Node) /\ <<>> \in Seq([dir : Directories, left : Seq(Node)])
    OBVIOUS
  <2> QED BY <2>1 DEF Init, TypeOK
<1>2. UpClosed(there)
  BY DEF Init, UpClosed, Directories
<1> QED BY <1>1, <1>2 DEF Init, WalkInv

\* The walk keeps to its course when the steps that change it do.
LEMMA CourseKept ==
  ASSUME WalkInv, UNCHANGED <<settings, there, lists>>, TypeOK',
         lists # 0,
         lists = 1 /\ ~NoFilter =>
           OnCourse(Wanted, Deep, recursive_level, frames', file_list', there, Expected)
  PROVE  WalkInv'
<1>1. /\ recursive_level' = recursive_level /\ Wanted' = Wanted /\ Deep' = Deep
      /\ Expected' = Expected /\ NoFilter' = NoFilter
  BY SettingsKept
<1>2. there' = there /\ lists' = lists
  OBVIOUS
<1>3. UpClosed(there')
  BY <1>2 DEF WalkInv
<1>4. UpClosed(there)'
  BY <1>3 DEF UpClosed
<1>5. lists' = 1 /\ ~NoFilter' =>
        OnCourse(Wanted', Deep', recursive_level', frames', file_list', there', Expected')
  BY <1>1, <1>2
<1>6. (lists = 1 /\ ~NoFilter
        => OnCourse(Wanted, Deep, recursive_level, frames, file_list, there, Expected))'
  BY <1>5
<1> QED BY <1>2, <1>4, <1>6 DEF WalkInv

LEMMA FirstCallStep == WalkInv /\ getDirectoryList => WalkInv'
<1> SUFFICES ASSUME WalkInv, getDirectoryList PROVE WalkInv'
  OBVIOUS
<1> DEFINE left == Entries(Root)
<1>1. /\ frames = <<>> /\ lists \in Nat /\ lists' = lists + 1 /\ TypeOK /\ UpClosed(there)
      /\ frames' = <<[dir |-> Root, left |-> left]>>
      /\ UNCHANGED <<settings, file_list, recursive_counter, there>>
  BY DEF WalkInv, getDirectoryList
<1>2. left = IF Root \in there THEN Children[Root] ELSE <<>>
  BY DEF Entries
<1>3. left \in Seq(Node) /\ Root \in Directories
  <2>1. <<>> \in Seq(Node)
    OBVIOUS
  <2> QED BY <1>2, <2>1, DirectoryAssumption
<1> HIDE DEF left
<1>4. TypeOK'
  <2>1. frames' \in Seq([dir : Directories, left : Seq(Node)]) /\ Len(frames') = 1 /\ frames' # <<>>
    BY <1>1, <1>3
  <2> QED BY <1>1, <2>1 DEF TypeOK, settings
<1>5. /\ recursive_level' = recursive_level /\ Wanted' = Wanted /\ Deep' = Deep
      /\ Expected' = Expected /\ NoFilter' = NoFilter
  BY <1>1, SettingsKept
<1>6. UpClosed(there)'
  BY <1>1 DEF UpClosed
<1>7. ASSUME lists' = 1, ~NoFilter
      PROVE  OnCourse(Wanted, Deep, recursive_level, frames', file_list', there, Expected)
  <2>1. lists = 0 /\ file_list' = <<>>
    BY <1>1, <1>7 DEF WalkInv
  <2>2. Deep \in Nat
    BY <1>1, DeepType
  <2>3. Expected = Reference(Wanted, Deep)[Root]
    BY DEF Expected, Deep
  <2>4. recursive_level = NO_LIMIT => Height[Root] = Deep
    BY DEF Deep
  <2> HIDE DEF Deep, Wanted, Expected
  <2>5. OnCourse(Wanted, Deep, recursive_level,
                 <<[dir |-> Root, left |-> IF Root \in there THEN Children[Root] ELSE <<>>]>>,
                 <<>>, there, Reference(Wanted, Deep)[Root])
    BY <1>1, <2>2, <2>4, CallOnCourse
  <2> QED BY <1>1, <1>2, <2>1, <2>3, <2>5
<1>8. (lists = 1 /\ ~NoFilter
        => OnCourse(Wanted, Deep, recursive_level, frames, file_list, there, Expected))'
  BY <1>1, <1>5, <1>7
<1> QED BY <1>1, <1>4, <1>6, <1>8 DEF WalkInv

LEMMA ReturnStep == WalkInv /\ Return => WalkInv'
<1> SUFFICES ASSUME WalkInv, Return PROVE WalkInv'
  OBVIOUS
<1> DEFINE n == Len(frames)
           Frame == [dir : Directories, left : Seq(Node)]
<1>1. /\ frames # <<>> /\ frames[n].left = <<>> /\ frames' = SubSeq(frames, 1, n - 1)
      /\ recursive_counter' = IF n = 1 THEN 0 ELSE recursive_counter - 1
      /\ UNCHANGED <<settings, file_list, there, lists>>
  BY DEF Return, Innermost, Rest, counterAfterReturn
<1>2. TypeOK /\ frames \in Seq(Frame) /\ lists # 0 /\ n \in Nat \ {0}
      /\ recursive_counter = n - 1
  BY <1>1 DEF WalkInv, TypeOK
<1>3. SubSeq(frames, 1, n - 1) \in Seq(Frame) /\ Len(SubSeq(frames, 1, n - 1)) = n - 1
  <2> HIDE DEF Frame
  <2> QED BY <1>1, <1>2, OuterProperties
<1>4. TypeOK'
  <2>1. frames' \in Seq(Frame) /\ Len(frames') = n - 1
    BY <1>1, <1>3
  <2>2. frames' = <<>> <=> n - 1 = 0
    <3> HIDE DEF Frame, n
    <3> QED BY <2>1, EmptySeq
  <2>3. recursive_counter' = IF frames' = <<>> THEN 0 ELSE Len(frames') - 1
    BY <1>1, <1>2, <2>1, <2>2
  <2> QED BY <1>1, <1>2, <2>1, <2>3 DEF TypeOK, settings
<1>5. ASSUME lists = 1, ~NoFilter
      PROVE  OnCourse(Wanted, Deep, recursive_level, frames', file_list', there, Expected)
  <2>1. OnCourse(Wanted, Deep, recursive_level, frames, file_list, there, Expected)
    BY <1>5 DEF WalkInv
  <2> HIDE DEF Wanted, Deep, Expected
  <2>2. OnCourse(Wanted, Deep, recursive_level, SubSeq(frames, 1, n - 1), file_list, there,
                 Expected)
    BY <1>1, <2>1, ReturnOnCourse
  <2> QED BY <1>1, <2>2
<1> QED BY <1>1, <1>2, <1>4, <1>5, CourseKept

LEMMA LossStep == WalkInv /\ Disappears => WalkInv'
<1> SUFFICES ASSUME WalkInv, Disappears PROVE WalkInv'
  OBVIOUS
<1>1. PICK node \in there \ {Root} : there' = there \ Below[node]
  BY DEF Disappears
<1>2. UNCHANGED <<settings, file_list, recursive_counter, frames, lists>>
  BY DEF Disappears
<1>3. TypeOK /\ there \subseteq Node /\ lists \in Nat
  BY DEF WalkInv, TypeOK
<1>4. TypeOK'
  BY <1>1, <1>2, <1>3 DEF TypeOK, settings
<1>5. UpClosed(there')
  BY <1>1, <1>3, LossesUpClosed DEF WalkInv
<1>6. UpClosed(there)'
  BY <1>5 DEF UpClosed
<1>7. /\ recursive_level' = recursive_level /\ Wanted' = Wanted /\ Deep' = Deep
      /\ Expected' = Expected /\ NoFilter' = NoFilter
  BY <1>2, SettingsKept
<1>8. ASSUME lists = 1, ~NoFilter
      PROVE  OnCourse(Wanted, Deep, recursive_level, frames, file_list, there', Expected)
  <2>1. OnCourse(Wanted, Deep, recursive_level, frames, file_list, there, Expected)
    BY <1>8 DEF WalkInv
  <2>2. there' \subseteq there
    BY <1>1
  <2> QED BY <2>1, <2>2, LossOnCourse
<1>9. (lists = 1 /\ ~NoFilter
        => OnCourse(Wanted, Deep, recursive_level, frames, file_list, there, Expected))'
  BY <1>2, <1>7, <1>8
<1> QED BY <1>2, <1>3, <1>4, <1>6, <1>9 DEF WalkInv

LEMMA ReadStep == WalkInv /\ ReadEntry => WalkInv'
<1> SUFFICES ASSUME WalkInv, ReadEntry PROVE WalkInv'
  OBVIOUS
<1> DEFINE n == Len(frames)
           Frame == [dir : Directories, left : Seq(Node)]
           node == Entry(frames)
           seen == node \in there /\ Kind[node] # "hidden"
           enters == seen /\ Kind[node] = "dir" /\ Descends
           inner == [dir |-> node, left |-> Children[node]]
<1>1. TypeOK /\ UpClosed(there) /\ frames # <<>> /\ frames[n].left # <<>>
  BY DEF WalkInv, ReadEntry, Innermost
<1>2. HasEntry(frames)
  BY <1>1 DEF HasEntry, TypeOK
<1>3. /\ n \in Nat \ {0} /\ Advanced(frames) \in Seq(Frame) /\ Len(Advanced(frames)) = n
      /\ node \in Node
  BY <1>2, AdvancedProperties
<1>4. Append(Rest(1), [Innermost EXCEPT !.left = AfterEntry(@)]) = Advanced(frames)
  <2>1. frames[n] \in Frame
    <3>1. frames \in Seq(Frame) /\ n \in 1 .. n
      BY <1>1, <1>3 DEF TypeOK
    <3> HIDE DEF Frame
    <3> QED BY <3>1, ElementOfSeq
  <2>2. [frames[n] EXCEPT !.left = Tail(frames[n].left)]
          = [dir |-> frames[n].dir, left |-> Tail(frames[n].left)]
    <3> DEFINE f == frames[n]
               t == Tail(f.left)
    <3>1. f \in Frame
      BY <2>1
    <3> HIDE DEF f, t
    <3>2. [f EXCEPT !.left = t] = [dir |-> f.dir, left |-> t]
      BY <3>1
    <3> QED BY <3>2 DEF f, t
  <2> QED BY <2>2 DEF Innermost, Rest, AfterEntry, Advanced
<1>5. /\ file_list' = IF seen /\ Listed(node) THEN Append(file_list, node) ELSE file_list
      /\ IF enters
         THEN /\ recursive_counter' = recursive_counter + 1
              /\ frames' = Append(Advanced(frames), [dir |-> node, left |-> Entries(node)])
         ELSE frames' = Advanced(frames) /\ UNCHANGED recursive_counter
      /\ UNCHANGED <<settings, there, lists>>
  BY <1>4 DEF ReadEntry, Innermost, Entry
<1>6. lists # 0 /\ recursive_counter = n - 1 /\ file_list \in Seq(Node) /\ there \subseteq Node
  BY <1>1 DEF WalkInv, TypeOK
<1>7. ~NoFilter => (Listed(node) <=> node \in Wanted)
  BY <1>1, <1>3, ListedIsWanted
<1>8. node \in Directories <=> Kind[node] = "dir"
  BY <1>3 DEF Directories
<1>9. lists = 1 /\ ~NoFilter =>
        OnCourse(Wanted, Deep, recursive_level, frames, file_list, there, Expected)
  BY DEF WalkInv
<1>10. Deep \in Nat
  BY <1>1, DeepType
<1>11. recursive_level # NO_LIMIT => Deep = recursive_level
  BY DEF Deep
<1>12. file_list' \in Seq(Node)
  BY <1>3, <1>5, <1>6
<1> HIDE DEF Deep, Wanted, Expected, n, node, Frame
<1>13. CASE enters
  <2>1. node \in Directories /\ Entries(node) = Children[node]
    BY <1>8, <1>13 DEF Entries
  <2>2. /\ frames' = Append(Advanced(frames), inner) /\ recursive_counter' = n
        /\ ~NoFilter => file_list' = Listing(Wanted, file_list, node)
    <3>1. recursive_counter' = n - 1 + 1
      BY <1>5, <1>6, <1>13
    <3>2. n - 1 + 1 = n
      BY <1>3
    <3>3. frames' = Append(Advanced(frames), inner)
      BY <1>5, <1>13, <2>1
    <3>4. ~NoFilter => file_list' = Listing(Wanted, file_list, node)
      BY <1>5, <1>7, <1>13 DEF Listing
    <3> QED BY <3>1, <3>2, <3>3, <3>4
  <2>3. inner \in Frame
    BY <2>1, DirectoryAssumption DEF Frame
  <2> HIDE DEF inner
  <2>4. frames' \in Seq(Frame) /\ Len(frames') = n + 1
    BY <1>3, <2>2, <2>3, AppendProperties
  <2>5. TypeOK'
    <3>1. frames' # <<>> /\ recursive_counter' = Len(frames') - 1
      BY <1>3, <2>2, <2>4
    <3> QED BY <1>1, <1>5, <1>12, <2>4, <3>1 DEF TypeOK, settings, Frame
  <2>6. ASSUME lists = 1, ~NoFilter
        PROVE  OnCourse(Wanted, Deep, recursive_level, frames', file_list', there, Expected)
    <3>1. OnCourse(Wanted, Deep, recursive_level, frames, file_list, there, Expected)
      BY <1>9, <2>6
    <3>2. n <= Deep
      <4>1. CASE recursive_level = NO_LIMIT
        <5>1. PICK W, done, keep, ahead :
                Situation(W, Wanted, Deep, NO_LIMIT, frames, file_list, there, Expected,
                          done, keep, ahead)
          BY <3>1, <4>1 DEF OnCourse
        <5>2. Fits(frames, Deep, NO_LIMIT)
          BY <5>1 DEF Situation
        <5> QED BY <1>2, <1>10, <5>2, LevelsLeft DEF n
      <4>2. CASE recursive_level # NO_LIMIT
        BY <1>3, <1>6, <1>10, <1>11, <1>13, <4>2 DEF Descends
      <4> QED BY <4>1, <4>2
    <3>3. OnCourse(Wanted, Deep, recursive_level, Append(Advanced(frames), inner),
                   Listing(Wanted, file_list, node), there, Expected)
      BY <1>2, <2>1, <3>1, <3>2, EnteredOnCourse DEF n, node, inner
    <3> QED BY <2>2, <2>6, <3>3
  <2> QED BY <1>5, <1>6, <2>5, <2>6, CourseKept
<1>14. CASE ~enters
  <2>1. frames' = Advanced(frames) /\ UNCHANGED recursive_counter
    BY <1>5, <1>14
  <2>2. TypeOK'
    <3>1. frames' \in Seq(Frame) /\ Len(frames') = n /\ frames' # <<>>
      BY <1>3, <2>1
    <3> QED BY <1>1, <1>5, <1>6, <1>12, <2>1, <3>1 DEF TypeOK, settings, Frame
  <2>3. ASSUME lists = 1, ~NoFilter
        PROVE  OnCourse(Wanted, Deep, recursive_level, frames', file_list', there, Expected)
    <3>1. OnCourse(Wanted, Deep, recursive_level, frames, file_list, there, Expected)
      BY <1>9, <2>3
    <3>2. CASE seen
      <4>1. file_list' = Listing(Wanted, file_list, node)
        BY <1>5, <1>7, <2>3, <3>2 DEF Listing
      <4>2. ASSUME node \in Directories PROVE n > Deep
        <5>1. ~Descends
          BY <1>8, <1>14, <3>2, <4>2
        <5>2. recursive_level # NO_LIMIT /\ ~(n - 1 < recursive_level)
          BY <1>6, <5>1 DEF Descends
        <5> QED BY <1>3, <1>10, <1>11, <5>2
      <4>3. OnCourse(Wanted, Deep, recursive_level, Advanced(frames),
                     Listing(Wanted, file_list, node), there, Expected)
        BY <1>2, <3>1, <4>2, EntryOnCourse DEF n, node
      <4> QED BY <2>1, <4>1, <4>3
    <3>3. CASE ~seen
      <4>1. file_list' = file_list
        BY <1>5, <3>3
      <4>2. node \in there => node \notin Wanted /\ node \notin Directories
        BY <1>8, <3>3 DEF Wanted
      <4>3. OnCourse(Wanted, Deep, recursive_level, Advanced(frames), file_list, there, Expected)
        BY <1>1, <1>2, <3>1, <4>2, SkipOnCourse DEF node
      <4> QED BY <2>1, <4>1, <4>3
    <3> QED BY <3>2, <3>3
  <2> QED BY <1>5, <1>6, <2>2, <2>3, CourseKept
<1> QED BY <1>13, <1>14

LEMMA WalkInvInductive == WalkInv /\ [Next]_vars => WalkInv'
<1> SUFFICES ASSUME WalkInv, UNCHANGED vars PROVE WalkInv'
  BY FirstCallStep, ReadStep, ReturnStep, LossStep DEF Next, Walk
<1>1. UNCHANGED settings
  BY DEF vars
<1>2. /\ recursive_level' = recursive_level /\ Wanted' = Wanted /\ Deep' = Deep
      /\ Expected' = Expected /\ NoFilter' = NoFilter
  BY <1>1, SettingsKept
<1>3. /\ UNCHANGED <<file_list, recursive_counter, frames, there, lists>>
      /\ UNCHANGED <<recursive_level, file_type, fileFilterList>>
  BY DEF vars, settings
<1>4. TypeOK'
  BY <1>3 DEF WalkInv, TypeOK
<1>5. UpClosed(there)'
  BY <1>3 DEF WalkInv, UpClosed
<1>6. (lists = 1 /\ ~NoFilter
        => OnCourse(Wanted, Deep, recursive_level, frames, file_list, there, Expected))'
  BY <1>2, <1>3 DEF WalkInv
<1> QED BY <1>3, <1>4, <1>5, <1>6 DEF WalkInv

LEMMA WalkInvAlways == Spec => []WalkInv
BY WalkStarts, WalkInvInductive, PTL DEF Spec

LEMMA WalkListsExpected == WalkInv => ListIsExpected
<1> SUFFICES ASSUME WalkInv, lists = 1, frames = <<>>, ~NoFilter
             PROVE  \E keep \in SUBSET (DOMAIN Expected) :
                      /\ \A k \in DOMAIN Expected : Expected[k] \in there => k \in keep
                      /\ IsPart(file_list, Expected, keep)
  BY DEF ListIsExpected, AsExpected, Done
<1>1. OnCourse(Wanted, Deep, recursive_level, <<>>, file_list, there, Expected)
  BY DEF WalkInv
<1> QED BY <1>1, AtTheEnd

\* The first list, of directories or of files with a filter, is the reference, in its
\* order, without some of what has disappeared and with all that has not, for every tree of directories and
\* whatever goes away at any point of the walk (readDirRecursive).
THEOREM ListsAreExpected == Spec => []ListIsExpected
BY WalkListsExpected, WalkInvAlways, PTL

\* Every variable of the walk keeps its type, and the counter is its depth.
THEOREM WalkTypes == Spec => []TypeOK
<1>1. WalkInv => TypeOK
  BY DEF WalkInv
<1> QED BY <1>1, WalkInvAlways, PTL

-----------------------------------------------------------------------------
(* The parts together.                                                     *)

LibrariesInv == WalkInv /\ DispatcherInv /\ ImageInv /\ FillInv

\* A step of one part is none of the others.
LEMMA LibrariesStep ==
  [LibrariesNext]_librariesVars
    => [Next]_vars /\ [DispatcherNext]_dispatcherVars /\ [ImageNext]_imageVars
BY DEF LibrariesNext, librariesVars, ListPart, DispatcherPart, ImagePart

LEMMA LibrariesInvAlways == LibrariesSpec => []LibrariesInv
<1>1. LibrariesInit => LibrariesInv
  BY WalkStarts, DispatcherInitHolds, ImageInitHolds, FillInvStarts
  DEF LibrariesInit, LibrariesInv
<1>2. LibrariesInv /\ [LibrariesNext]_librariesVars => LibrariesInv'
  BY LibrariesStep, WalkInvInductive, DispatcherInvInductive, ImageInvInductive,
     FillInvInductive
  DEF LibrariesInv
<1> QED BY <1>1, <1>2, PTL DEF LibrariesSpec

\* Every variable of each part has its type, whichever part the behaviour is of.
THEOREM LibrariesTypes == LibrariesSpec => []LibrariesTypeOK
<1>1. LibrariesInv => LibrariesTypeOK
  BY DEF LibrariesInv, WalkInv, DispatcherInv, ImageInv, LibrariesTypeOK
<1> QED BY <1>1, LibrariesInvAlways, PTL

\* What holds of each part on its own holds of it beside the others: the list is
\* the one expected where a filter is set, every reference has its owner, and the
\* fill follows.
THEOREM LibrariesKeepTheirWord ==
  LibrariesSpec => [](ListIsExpected /\ SurfacesCounted /\ FillFollows)
<1>1. LibrariesInv => ListIsExpected /\ SurfacesCounted /\ FillFollows
  BY WalkListsExpected, ImageCounts, FilledFollows DEF LibrariesInv
<1> QED BY <1>1, LibrariesInvAlways, PTL

\* The dispatcher keeps its promise beside the other parts.
THEOREM LibrariesPromise == LibrariesSpec => Promise!SafeWakeUp
<1>1. LibrariesInit => Promise!Idle
  BY InitPromised DEF LibrariesInit
<1>2. LibrariesInv => DispatcherInv
  BY DEF LibrariesInv
<1> QED BY <1>1, <1>2, LibrariesStep, StepPromised, LibrariesInvAlways, PTL
        DEF LibrariesSpec, Promise!SafeWakeUp
================================================================================
