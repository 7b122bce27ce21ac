---------------------------- MODULE SimulationProofs ----------------------------
(***************************************************************************)
(* What holds of the panel for any parts, any number of them held, and a   *)
(* queue of any length.                                                    *)
(*                                                                         *)
(* The queue holds what the user did (Deeds) and what the theme made of it *)
(* (Reports), in any order.  A deed becomes a report at the end of the     *)
(* queue, so that of a control the last deed counts, or else the last      *)
(* report, or else what was told.                                          *)
(***************************************************************************)
EXTENDS Simulation, FunctionTheorems, FiniteSetTheorems, TLAPS

AllParts == Cross \cup Knobs \cup ButtonParts
Deeds == {MouseDown, MouseUp} \X AllParts
Words == {"down", "up", "min", "max", "zero"}
WordReports ==
  ({"down", "up"} \X (ButtonSources \cup {"volume_botton"}))
    \cup ({"min", "max", "zero"} \X {"axis_x", "axis_y"})
Reports == WordReports \cup ({"tick"} \X Knobs)

\* The places of the queue with one of some signals; the last such signal is one
\* that says something.
Places(s, some) == {k \in 1 .. Len(s) : s[k] \in some}
LastIs(s, some, saying) ==
  \E k \in Places(s, some) :
    s[k] \in saying /\ \A j \in Places(s, some) : j <= k

\* What concerns a control, and what of it says a word.
DeedsOf(c) == {d \in Deeds : \E word \in Words : Emits(d) = <<word, c>>}
DeedsSaying(c, word) == {d \in Deeds : Emits(d) = <<word, c>>}
ReportsOf(c) == Words \X {c}
TurnsOf(knob) == {<<MouseDown, knob>>, <<"tick", knob>>}

SignalsOK ==
  /\ parts \in Panels /\ running \in BOOLEAN
  /\ held \subseteq Devices \X parts /\ lit \subseteq parts
  /\ signals \in Seq(Deeds \cup Reports) /\ Len(signals) <= MaxQueue
  /\ \A k \in 1 .. Len(signals) : signals[k] \in Deeds => signals[k][2] \in parts
  /\ told \in [Control -> Words \cup {"never"}]
  /\ last \in [Control -> Words \cup {"never"}]
  /\ turned \in [Knobs -> Nat] /\ turns \in [Knobs -> 0 .. MaxTurns]

\* The last report of a control says the word, or it was told already.
Reported(c, word) ==
  IF Places(signals, ReportsOf(c)) = {} THEN told[c] = word
  ELSE LastIs(signals, ReportsOf(c), {<<word, c>>})

LastCounts ==
  \A c \in Heard :
    IF Places(signals, DeedsOf(c)) = {} THEN Reported(c, last[c])
    ELSE LastIs(signals, DeedsOf(c), DeedsSaying(c, last[c]))

TurnsCounted ==
  \A knob \in Knobs :
    turns[knob] = turned[knob] + Cardinality(Places(signals, TurnsOf(knob)))

\* A light is changed by a deed, with the report of it put last.
HeardButtons == {part \in ButtonParts : Source(part) \in Heard}
LightsLead ==
  \A part \in HeardButtons :
    IF Places(signals, ReportsOf(Source(part))) = {}
    THEN told[Source(part)] = "down" <=> part \in lit
    ELSE LastIs(signals, ReportsOf(Source(part)),
                {<<IF part \in lit THEN "down" ELSE "up", Source(part)>>})

IInv == SignalsOK /\ LastCounts /\ TurnsCounted /\ LightsLead

-----------------------------------------------------------------------------
(* Queues.                                                                 *)

LEMMA Appended ==
  ASSUME NEW S, NEW s \in Seq(S), NEW e \in S, NEW some, NEW saying
  PROVE  /\ e \in some => /\ Places(Append(s, e), some) # {}
                          /\ e \in saying => LastIs(Append(s, e), some, saying)
         /\ e \notin some =>
              /\ Places(Append(s, e), some) = Places(s, some)
              /\ LastIs(s, some, saying) => LastIs(Append(s, e), some, saying)
<1> DEFINE t == Append(s, e)
<1>1. /\ Len(t) = Len(s) + 1 /\ t[Len(s) + 1] = e /\ Len(s) \in Nat
      /\ \A k \in 1 .. Len(s) : t[k] = s[k]
  OBVIOUS
<1> HIDE DEF t
<1>2. ASSUME e \in some
      PROVE  Len(s) + 1 \in Places(t, some) /\ \A j \in Places(t, some) : j <= Len(s) + 1
  BY <1>1, <1>2 DEF Places
<1>3. e \notin some => Places(t, some) = Places(s, some)
  BY <1>1 DEF Places
<1>4. \A k \in Places(s, some) : t[k] = s[k]
  BY <1>1 DEF Places
<1>5. QED
  BY <1>1, <1>2, <1>3, <1>4 DEF LastIs, t

LEMMA Taken ==
  ASSUME NEW S, NEW s \in Seq(S), s # <<>>, NEW some, NEW saying
  PROVE  /\ Places(Tail(s), some) # {} =>
              /\ Places(s, some) # {}
              /\ LastIs(s, some, saying) => LastIs(Tail(s), some, saying)
         /\ Places(Tail(s), some) = {} /\ LastIs(s, some, saying) =>
              Head(s) \in some /\ Head(s) \in saying
         /\ Places(Tail(s), some) = {} /\ Head(s) \notin some => Places(s, some) = {}
<1> DEFINE t == Tail(s)
<1>1. /\ Len(s) \in Nat /\ Len(s) > 0 /\ Len(t) = Len(s) - 1 /\ Head(s) = s[1]
      /\ \A k \in 1 .. Len(t) : t[k] = s[k + 1]
  OBVIOUS
<1> HIDE DEF t
<1>2. ASSUME NEW k \in Places(t, some) PROVE k + 1 \in Places(s, some)
  BY <1>1 DEF Places
<1>3. ASSUME NEW k \in Places(s, some), k # 1
      PROVE  k - 1 \in Places(t, some) /\ t[k - 1] = s[k]
  BY <1>1, <1>3 DEF Places
<1>4. Places(s, some) \subseteq Nat /\ Places(t, some) \subseteq Nat
  BY DEF Places
<1>5. ASSUME LastIs(s, some, saying), Places(t, some) # {}
      PROVE  LastIs(t, some, saying)
  <2>1. PICK k \in Places(s, some) :
          s[k] \in saying /\ \A j \in Places(s, some) : j <= k
    BY <1>5 DEF LastIs
  <2>2. PICK j \in Places(t, some) : TRUE
    BY <1>5
  <2>3. k # 1
    BY <1>2, <1>4, <2>1, <2>2 DEF Places
  <2>4. \A i \in Places(t, some) : i <= k - 1
    BY <1>2, <1>4, <2>1
  <2>5. QED
    BY <1>3, <2>1, <2>3, <2>4 DEF LastIs
<1>6. ASSUME Places(t, some) = {}
      PROVE  \A k \in Places(s, some) : k = 1 /\ s[k] = Head(s)
  BY <1>1, <1>3, <1>6
<1>7. Places(t, some) # {} => Places(s, some) # {}
  BY <1>2
<1>8. Head(s) \notin some /\ Places(t, some) = {} => Places(s, some) = {}
  BY <1>6 DEF Places
<1>9. Places(t, some) = {} /\ LastIs(s, some, saying) => Head(s) \in some /\ Head(s) \in saying
  BY <1>6 DEF LastIs, Places
<1>10. QED
  BY <1>5, <1>7, <1>8, <1>9 DEF t

\* How many there are of some signals.
LEMMA Counted ==
  ASSUME NEW S, NEW s \in Seq(S), NEW some
  PROVE  /\ IsFiniteSet(Places(s, some)) /\ Cardinality(Places(s, some)) \in Nat
         /\ s = <<>> => Cardinality(Places(s, some)) = 0
<1>1. Len(s) \in Nat
  OBVIOUS
<1>2. IsFiniteSet(1 .. Len(s))
  BY <1>1, FS_Interval
<1>3. Places(s, some) \in SUBSET (1 .. Len(s))
  BY DEF Places
<1>4. IsFiniteSet(Places(s, some))
  BY <1>2, <1>3, FS_Subset
<1>5. s = <<>> => Places(s, some) = {}
  BY DEF Places
<1>6. QED
  BY <1>4, <1>5, FS_CardinalityType, FS_EmptySet

LEMMA CountedAppended ==
  ASSUME NEW S, NEW s \in Seq(S), NEW e \in S, NEW some
  PROVE  Cardinality(Places(Append(s, e), some)) =
           Cardinality(Places(s, some)) + (IF e \in some THEN 1 ELSE 0)
<1>1. /\ Len(Append(s, e)) = Len(s) + 1 /\ Append(s, e)[Len(s) + 1] = e /\ Len(s) \in Nat
      /\ \A k \in 1 .. Len(s) : Append(s, e)[k] = s[k]
  OBVIOUS
<1>2. CASE e \in some
  <2>1. Places(Append(s, e), some) = Places(s, some) \cup {Len(s) + 1}
    BY <1>1, <1>2 DEF Places
  <2>2. Len(s) + 1 \notin Places(s, some)
    BY <1>1 DEF Places
  <2>3. QED
    BY <1>2, <2>1, <2>2, Counted, FS_AddElement
<1>3. CASE e \notin some
  <2>1. Places(Append(s, e), some) = Places(s, some)
    BY <1>1, <1>3 DEF Places
  <2>2. Cardinality(Places(s, some)) \in Nat
    BY Counted
  <2>3. QED
    BY <1>3, <2>1, <2>2
<1>4. QED
  BY <1>2, <1>3

LEMMA CountedTaken ==
  ASSUME NEW S, NEW s \in Seq(S), s # <<>>, NEW some
  PROVE  Cardinality(Places(s, some)) =
           Cardinality(Places(Tail(s), some)) + (IF Head(s) \in some THEN 1 ELSE 0)
<1> DEFINE t == Tail(s)
           rest == Places(s, some) \ {1}
           f == [k \in Places(t, some) |-> k + 1]
<1>1. /\ Len(s) \in Nat /\ Len(s) > 0 /\ Len(t) = Len(s) - 1 /\ Head(s) = s[1]
      /\ \A k \in 1 .. Len(t) : t[k] = s[k + 1] /\ t \in Seq(S)
  OBVIOUS
<1> HIDE DEF t
<1>2. Places(t, some) \subseteq Nat /\ Places(s, some) \subseteq Nat
  BY DEF Places
<1>3. \A k \in Places(t, some) : k + 1 \in rest
  BY <1>1 DEF Places
<1>4. \A k \in rest : k - 1 \in Places(t, some)
  BY <1>1 DEF Places
<1>5. f \in Bijection(Places(t, some), rest)
  <2>1. f \in [Places(t, some) -> rest]
    BY <1>3
  <2>2. \A j, k \in Places(t, some) : f[j] = f[k] => j = k
    BY <1>2
  <2>3. \A k \in rest : \E j \in Places(t, some) : f[j] = k
    <3> TAKE k \in rest
    <3>1. k - 1 \in Places(t, some) /\ k \in Nat
      BY <1>2, <1>4
    <3>2. f[k - 1] = k
      BY <3>1
    <3>3. QED
      BY <3>1, <3>2
  <2> HIDE DEF f, rest
  <2>4. QED
    BY <2>1, <2>2, <2>3, Fun_IsBij
<1>6. Cardinality(rest) = Cardinality(Places(t, some))
  <2>1. IsFiniteSet(Places(t, some))
    BY <1>1, Counted DEF Places
  <2> HIDE DEF f, rest
  <2>2. ExistsBijection(Places(t, some), rest)
    BY <1>5 DEF ExistsBijection
  <2>3. QED
    BY <2>1, <2>2, FS_Bijection
<1>7. 1 \in Places(s, some) <=> Head(s) \in some
  BY <1>1 DEF Places
<1>8. IsFiniteSet(Places(s, some)) /\ Cardinality(Places(s, some)) \in Nat
  BY Counted
<1>9. Cardinality(rest) = IF Head(s) \in some THEN Cardinality(Places(s, some)) - 1
                                              ELSE Cardinality(Places(s, some))
  BY <1>7, <1>8, FS_RemoveElement
<1>10. QED
  BY <1>6, <1>8, <1>9 DEF t

-----------------------------------------------------------------------------
(* The tables of the theme.                                                *)

LEMMA MouseWords ==
  MouseDown # MouseUp /\ {MouseDown, MouseUp} \cap (Words \cup {"tick"}) = {}
<1>1. MouseDown # MouseUp
  BY Zenon DEF MouseDown, MouseUp
<1>2. MouseDown \notin Words /\ MouseUp \notin Words
  BY Zenon DEF MouseDown, MouseUp, Words
<1>3. MouseDown # "tick" /\ MouseUp # "tick"
  BY Zenon DEF MouseDown, MouseUp
<1>4. QED
  BY <1>1, <1>2, <1>3

LEMMA DeedsEmit ==
  ASSUME NEW d \in Deeds
  PROVE  /\ Emits(d) \in Reports \cup {Nothing}
         /\ d[2] \in Knobs => Emits(d) = IF d[1] = MouseDown THEN <<"tick", d[2]>>
                                                                  ELSE Nothing
         /\ d[2] \notin Knobs => Emits(d) \in WordReports
         /\ d[2] \in ButtonParts =>
              Emits(d) = <<IF d[1] = MouseDown THEN "down" ELSE "up", Source(d[2])>>
         /\ d[2] \in Cross => Emits(d)[2] \in {"axis_x", "axis_y"}
<1>1. PICK name \in {MouseDown, MouseUp}, part \in AllParts : d = <<name, part>>
  BY DEF Deeds
<1>2. d[1] = name /\ d[2] = part
  BY <1>1
<1>3. CASE part \in Knobs
  <2>1. part \notin ButtonParts /\ part \notin Cross
    BY <1>3 DEF Knobs, ButtonParts, Cross
  <2>2. Emits(d) = IF name = MouseDown THEN <<"tick", part>> ELSE Nothing
    BY <1>2, <1>3, <2>1 DEF Emits, Ticks
  <2>3. QED
    BY <1>2, <1>3, <2>1, <2>2 DEF Reports
<1>4. CASE part \in ButtonParts
  <2>1. part \notin Knobs /\ part \notin Cross
    BY <1>4 DEF Knobs, ButtonParts, Cross
  <2>2. Emits(d) = <<IF name = MouseDown THEN "down" ELSE "up", Source(part)>>
    BY <1>2, <1>4, <2>1 DEF Emits
  <2>3. Source(part) \in ButtonSources \cup {"volume_botton"}
    BY <1>4 DEF ButtonParts, Source, ButtonSources
  <2>4. Emits(d) \in WordReports
    BY <2>2, <2>3 DEF WordReports
  <2>5. QED
    BY <1>2, <2>1, <2>2, <2>4 DEF Reports
<1>5. CASE part \in Cross
  <2>1. part \notin Knobs /\ part \notin ButtonParts
    BY <1>5 DEF Knobs, ButtonParts, Cross
  <2>2. \E word \in {"min", "max", "zero"} : Emits(d) = <<word, Axis(part)>>
    BY <1>2, <1>5, <2>1 DEF Emits, Cross
  <2>3. Axis(part) \in {"axis_x", "axis_y"}
    BY DEF Axis
  <2>4. Emits(d) \in WordReports
    BY <2>2, <2>3 DEF WordReports
  <2>5. QED
    BY <1>2, <2>1, <2>2, <2>3, <2>4 DEF Reports
<1>6. QED
  BY <1>1, <1>3, <1>4, <1>5 DEF AllParts

LEMMA SourcesDiffer ==
  ASSUME NEW p \in ButtonParts, NEW q \in ButtonParts, Source(p) = Source(q)
  PROVE  p = q
BY DEF ButtonParts, Source

LEMMA SourcesAreNoAxes ==
  ASSUME NEW p \in ButtonParts
  PROVE  Source(p) \notin {"axis_x", "axis_y"}
BY DEF ButtonParts, Source

\* A deed is no report, and a report of a word no tick.
LEMMA KindsDiffer ==
  /\ Deeds \cap Reports = {} /\ Nothing \notin Reports
  /\ \A c : ReportsOf(c) \cap Deeds = {} /\ DeedsOf(c) \subseteq Deeds
  /\ \A knob : TurnsOf(knob) \cap WordReports = {}
  /\ \A d \in Deeds : d[1] \in {MouseDown, MouseUp}
  /\ \A r \in Reports : r[1] \notin {MouseDown, MouseUp}
<1>1. \A d \in Deeds : d[1] \in {MouseDown, MouseUp}
  BY DEF Deeds
<1>2. \A r \in Reports : r[1] \in Words \cup {"tick"}
  BY DEF Reports, WordReports, Words
<1>3. Deeds \cap Reports = {} /\ \A r \in Reports : r[1] \notin {MouseDown, MouseUp}
  BY <1>1, <1>2, MouseWords
<1>4. Nothing \notin Reports
  BY <1>2 DEF Nothing, Words
<1>5. ASSUME NEW c PROVE ReportsOf(c) \cap Deeds = {} /\ DeedsOf(c) \subseteq Deeds
  <2>1. \A r \in ReportsOf(c) : r[1] \in Words
    BY DEF ReportsOf
  <2>2. QED
    BY <1>1, <2>1, MouseWords DEF DeedsOf
<1>6. ASSUME NEW knob PROVE TurnsOf(knob) \cap WordReports = {}
  <2>1. \A r \in WordReports : r[1] \in Words
    BY DEF WordReports, Words
  <2>2. \A r \in TurnsOf(knob) : r[1] \in {MouseDown, "tick"}
    BY DEF TurnsOf
  <2>3. "tick" \notin Words
    BY DEF Words
  <2>4. QED
    BY <2>1, <2>2, <2>3, MouseWords
<1>7. QED
  BY <1>1, <1>3, <1>4, <1>5, <1>6

LEMMA KnobsSayNothing ==
  ASSUME NEW d \in Deeds, d[2] \in Knobs, NEW c
  PROVE  d \notin DeedsOf(c)
<1>1. CASE Emits(d) = Nothing
  <2>1. "" \notin Words
    BY DEF Words
  <2>2. \A word \in Words : Nothing # <<word, c>>
    BY <2>1, Zenon DEF Nothing
  <2>3. QED
    BY <1>1, <2>2 DEF DeedsOf
<1>2. CASE Emits(d) = <<"tick", d[2]>>
  <2>1. "tick" \notin Words
    BY DEF Words
  <2>2. QED
    BY <1>2, <2>1 DEF DeedsOf
<1>3. QED
  BY <1>1, <1>2, DeedsEmit

\* The source that the theme gives is the control, the volume button apart.
LEMMA SourceIsControl ==
  ASSUME NEW part \in ButtonParts
  PROVE  /\ ControlOf(part) \in Heard <=> Source(part) \in Heard
         /\ Source(part) \in Heard => Source(part) = ControlOf(part)
BY DEF ButtonParts, ControlOf, Source, Heard, Control, ButtonSources

\* What the user did, and to what.
Said(d) == <<Meant(d[1], d[2]), ControlOf(d[2])>>

\* What the user means is what the theme emits, the volume button apart.
LEMMA MeantEmitted ==
  ASSUME NEW d \in Deeds, d[2] \notin Knobs
  PROVE  /\ Said(d)[1] \in Words /\ Said(d)[2] \in Control
         /\ Emits(d)[2] \in Heard => Said(d) = Emits(d)
         /\ Emits(d)[2] \notin Heard => Said(d)[2] \notin Heard
<1>1. PICK word \in Words, c \in Control \cup {"volume_botton"} : Emits(d) = <<word, c>>
  BY DeedsEmit DEF WordReports, Words, Control
<1>2. CASE d[2] = "volume_button"
  <2>1. Emits(d)[2] = "volume_botton"
    <3>1. "volume_button" \in ButtonParts
      BY DEF ButtonParts
    <3>2. QED
      BY <1>2, <3>1, DeedsEmit DEF Source
  <2>2. "volume_botton" \notin Heard /\ "volume_button" \notin Heard
        /\ "volume_button" \in Control
    BY DEF Heard, Control, ButtonSources
  <2>3. Said(d)[2] = "volume_button" /\ Said(d)[1] \in Words
    BY <1>2 DEF Said, Meant, WhenPressed, WhenReleased, ControlOf, ButtonParts, Words
  <2>4. QED
    BY <2>1, <2>2, <2>3
<1>3. CASE d[2] # "volume_button"
  <2>1. Said(d) = Emits(d)
    <3>1. PICK name \in {MouseDown, MouseUp}, part \in AllParts : d = <<name, part>>
      BY DEF Deeds
    <3>2. d[1] = name /\ d[2] = part /\ part \notin Knobs /\ part # "volume_button"
      BY <1>3, <3>1
    <3>3. CASE part \in ButtonParts
      <4>1. ControlOf(part) = Source(part)
        BY <3>2, <3>3 DEF ButtonParts, ControlOf, Source
      <4>2. Meant(name, part) = IF name = MouseDown THEN "down" ELSE "up"
        BY <3>3 DEF Meant, WhenPressed, WhenReleased, ButtonParts
      <4> QED BY <3>2, <3>3, <4>1, <4>2, DeedsEmit DEF Said
    <3>4. CASE part \in Cross
      <4>1. part \notin ButtonParts /\ part \notin Knobs
        BY <3>4 DEF Knobs, ButtonParts, Cross
      <4>2. ControlOf(part) = Axis(part)
        BY <3>4 DEF Cross, ControlOf, Axis
      <4>3. CASE name = MouseDown
        <5>1. Emits(d) = <<Meant(name, part), Axis(part)>>
          BY <3>2, <3>4, <4>1, <4>3 DEF Emits, Meant, WhenPressed, Cross, ButtonParts
        <5> QED BY <3>2, <4>2, <5>1 DEF Said
      <4>4. CASE name = MouseUp
        <5>1. Emits(d) = <<Meant(name, part), Axis(part)>>
          BY <3>2, <3>4, <4>1, <4>4, MouseWords DEF Emits, Meant, WhenReleased
        <5> QED BY <3>2, <4>2, <5>1 DEF Said
      <4> QED BY <3>1, <4>3, <4>4
    <3> QED BY <3>2, <3>3, <3>4 DEF AllParts
  <2>2. c # "volume_botton"
    <3>1. CASE d[2] \in ButtonParts
      <4>1. c = Source(d[2])
        BY <1>1, <3>1, DeedsEmit
      <4>2. Source(d[2]) # "volume_botton"
        BY <1>3, <3>1 DEF ButtonParts, Source
      <4>3. QED
        BY <4>1, <4>2
    <3>2. CASE d[2] \in Cross
      BY <1>1, <3>2, DeedsEmit
    <3>3. QED
      BY <3>1, <3>2 DEF Deeds, AllParts
  <2>3. QED
    BY <1>1, <2>1, <2>2
<1>4. QED
  BY <1>2, <1>3

-----------------------------------------------------------------------------
(* The steps.                                                              *)

LEMMA InitHolds == Init => IInv
<1> SUFFICES ASSUME Init PROVE IInv
  OBVIOUS
<1>1. \A some : Places(signals, some) = {}
  BY DEF Init, Places
<1>2. SignalsOK
  BY SimulationAssumption DEF Init, SignalsOK
<1>3. LastCounts
  BY <1>1 DEF Init, LastCounts, Reported, Heard
<1>4. TurnsCounted
  <2>1. \A some : Cardinality(Places(signals, some)) = 0
    BY <1>1, FS_EmptySet
  <2>2. QED
    BY <2>1 DEF Init, TurnsCounted
<1>5. LightsLead
  BY <1>1 DEF Init, LightsLead, HeardButtons, Heard
<1>6. QED
  BY <1>2, <1>3, <1>4, <1>5 DEF IInv

\* Whoever presses or releases a part puts a deed last.
LEMMA UserStep ==
  ASSUME IInv, NEW device \in Devices, NEW part \in parts,
         NEW name \in {MouseDown, MouseUp},
         UserSignal(name, part), held' \subseteq Devices \X parts,
         part \in Knobs /\ name = MouseDown => turns[part] < MaxTurns
  PROVE  IInv'
<1> DEFINE d == <<name, part>>
           S == Deeds \cup Reports
<1>1. part \in AllParts /\ d \in Deeds /\ d[1] = name /\ d[2] = part
  BY SimulationAssumption DEF IInv, SignalsOK, AllParts, Deeds
<1>2. /\ signals \in Seq(S) /\ d \in S /\ signals' = Append(signals, d)
      /\ Len(signals) < MaxQueue /\ Len(signals) \in Nat
  BY <1>1 DEF UserSignal, IInv, SignalsOK
<1>3. UNCHANGED <<parts, running, lit, told, turned>>
  BY DEF UserSignal
<1>4. \A c : d \notin ReportsOf(c)
  BY <1>1, KindsDiffer
<1>5. /\ last' \in [Control -> Words \cup {"never"}] /\ turns' \in [Knobs -> 0 .. MaxTurns]
      /\ \A c \in Heard : IF d \in DeedsOf(c) THEN d \in DeedsSaying(c, last'[c])
                                              ELSE last'[c] = last[c]
      /\ \A knob \in Knobs :
           turns'[knob] = turns[knob] + (IF d \in TurnsOf(knob) THEN 1 ELSE 0)
  <2>1. CASE part \in Knobs
    <3>1. /\ last' = last
          /\ turns' = IF name = MouseDown THEN [turns EXCEPT ![part] = @ + 1] ELSE turns
      BY <2>1 DEF UserSignal
    <3>2. Emits(d) \in {Nothing, <<"tick", part>>}
      BY <1>1, <2>1, DeedsEmit
    <3>3. \A c : d \notin DeedsOf(c)
      BY <1>1, <2>1, KnobsSayNothing
    <3>4. \A knob \in Knobs : d \in TurnsOf(knob) <=> name = MouseDown /\ knob = part
      BY MouseWords DEF TurnsOf
    <3>5. turns \in [Knobs -> 0 .. MaxTurns] /\ last \in [Control -> Words \cup {"never"}]
      BY DEF IInv, SignalsOK
    <3>6. QED
      BY <2>1, <3>1, <3>3, <3>4, <3>5, SimulationAssumption
  <2>2. CASE part \notin Knobs
    <3> DEFINE said == Said(d)
    <3>1. last' = [last EXCEPT ![said[2]] = said[1]] /\ turns' = turns
      BY <2>2 DEF UserSignal, Said
    <3>2. \A knob \in Knobs : d \notin TurnsOf(knob)
      BY <2>2, MouseWords DEF TurnsOf
    <3>3. turns \in [Knobs -> 0 .. MaxTurns] /\ last \in [Control -> Words \cup {"never"}]
      BY DEF IInv, SignalsOK
    <3>4. /\ said[1] \in Words /\ said[2] \in Control
          /\ Emits(d)[2] \in Heard => said = Emits(d)
          /\ Emits(d)[2] \notin Heard => said[2] \notin Heard
      BY <1>1, <2>2, MeantEmitted
    <3>5. PICK word \in Words, c \in Control \cup {"volume_botton"} : Emits(d) = <<word, c>>
      BY <1>1, <2>2, DeedsEmit DEF WordReports, Words, Control
    <3> HIDE DEF said
    <3>6. ASSUME NEW k \in Heard
          PROVE  IF d \in DeedsOf(k) THEN d \in DeedsSaying(k, last'[k]) ELSE last'[k] = last[k]
      <4>1. d \in DeedsOf(k) <=> k = c
        BY <1>1, <3>5 DEF DeedsOf
      <4>2. CASE k = c
        <5>1. last'[k] = word
          BY <3>1, <3>3, <3>4, <3>5, <4>2
        <5>2. QED
          BY <1>1, <3>5, <4>1, <4>2, <5>1 DEF DeedsSaying
      <4>3. CASE k # c
        BY <3>1, <3>3, <3>4, <3>5, <4>1, <4>3 DEF Heard
      <4>4. QED
        BY <4>2, <4>3
    <3>7. \A knob \in Knobs : turns'[knob] = turns[knob] + 0
      BY <3>1, <3>3
    <3>8. last' \in [Control -> Words \cup {"never"}]
      BY <3>1, <3>3, <3>4
    <3>9. QED
      BY <3>1, <3>2, <3>3, <3>6, <3>7, <3>8
  <2>3. QED
    BY <2>1, <2>2
<1> HIDE DEF d, S
<1>6. SignalsOK'
  <2>1. /\ Len(signals') = Len(signals) + 1 /\ signals'[Len(signals) + 1] = d
        /\ \A k \in 1 .. Len(signals) : signals'[k] = signals[k]
        /\ signals' \in Seq(S)
    BY <1>2
  <2>2. Len(signals') <= MaxQueue
    BY <1>2, <2>1, SimulationAssumption
  <2>3. \A k \in 1 .. Len(signals') : signals'[k] \in Deeds => signals'[k][2] \in parts
    BY <1>1, <1>2, <2>1 DEF IInv, SignalsOK
  <2>4. QED
    BY <1>3, <1>5, <2>1, <2>2, <2>3 DEF IInv, SignalsOK, S
<1>7. \A c : /\ Places(signals', ReportsOf(c)) = Places(signals, ReportsOf(c))
            /\ \A saying : LastIs(signals, ReportsOf(c), saying) =>
                             LastIs(signals', ReportsOf(c), saying)
  BY <1>2, <1>4, Appended
<1>8. ASSUME NEW c \in Heard
      PROVE  IF Places(signals', DeedsOf(c)) = {} THEN Reported(c, last[c])'
             ELSE LastIs(signals', DeedsOf(c), DeedsSaying(c, last'[c]))
  <2>1. CASE d \in DeedsOf(c)
    <3>1. d \in DeedsSaying(c, last'[c])
      BY <1>5, <2>1
    <3>2. /\ Places(signals', DeedsOf(c)) # {}
          /\ LastIs(signals', DeedsOf(c), DeedsSaying(c, last'[c]))
      BY <1>2, <2>1, <3>1, Appended
    <3>3. QED
      BY <3>2
  <2>2. CASE d \notin DeedsOf(c)
    <3>1. /\ Places(signals', DeedsOf(c)) = Places(signals, DeedsOf(c))
          /\ last'[c] = last[c]
          /\ LastIs(signals, DeedsOf(c), DeedsSaying(c, last[c])) =>
              LastIs(signals', DeedsOf(c), DeedsSaying(c, last[c]))
      BY <1>2, <1>5, <2>2, Appended
    <3>2. IF Places(signals, DeedsOf(c)) = {} THEN Reported(c, last[c])
          ELSE LastIs(signals, DeedsOf(c), DeedsSaying(c, last[c]))
      BY DEF IInv, LastCounts
    <3>3. QED
      BY <1>3, <1>7, <3>1, <3>2 DEF Reported
  <2>3. QED
    BY <2>1, <2>2
<1>9. TurnsCounted'
  <2> SUFFICES ASSUME NEW knob \in Knobs
               PROVE  turns'[knob] =
                        turned'[knob] + Cardinality(Places(signals', TurnsOf(knob)))
    BY DEF TurnsCounted
  <2>1. Cardinality(Places(signals', TurnsOf(knob))) =
          Cardinality(Places(signals, TurnsOf(knob))) + (IF d \in TurnsOf(knob) THEN 1 ELSE 0)
    BY <1>2, CountedAppended
  <2>2. Cardinality(Places(signals, TurnsOf(knob))) \in Nat /\ turned[knob] \in Nat
    BY <1>2, Counted DEF IInv, SignalsOK
  <2>3. turns[knob] = turned[knob] + Cardinality(Places(signals, TurnsOf(knob)))
    BY DEF IInv, TurnsCounted
  <2>4. QED
    BY <1>3, <1>5, <2>1, <2>2, <2>3
<1>10. LightsLead'
  BY <1>3, <1>7 DEF IInv, LightsLead
<1>11. LastCounts'
  BY <1>8 DEF LastCounts
<1>12. QED
  BY <1>6, <1>9, <1>10, <1>11 DEF IInv

\* A press of a knob becomes a tick, and the only turn a deed becomes.
LEMMA TurnsEmitted ==
  ASSUME NEW d \in Deeds, NEW knob \in Knobs
  PROVE  /\ d \in TurnsOf(knob) <=> Emits(d) = <<"tick", knob>>
         /\ Emits(d) \in TurnsOf(knob) <=> Emits(d) = <<"tick", knob>>
<1>1. d \in TurnsOf(knob) <=> d[1] = MouseDown /\ d[2] = knob
  <2>1. d = <<d[1], d[2]>> /\ d[1] # "tick"
    BY MouseWords DEF Deeds
  <2>2. QED
    BY <2>1 DEF TurnsOf
<1>2. \A r \in Reports : r # <<MouseDown, knob>>
  BY KindsDiffer
<1>3. Nothing # <<MouseDown, knob>> /\ Nothing # <<"tick", knob>>
  BY Zenon DEF Nothing, MouseDown
<1>4. Emits(d) \in TurnsOf(knob) <=> Emits(d) = <<"tick", knob>>
  BY <1>2, <1>3, DeedsEmit DEF TurnsOf
<1>5. CASE d[2] \in Knobs
  BY <1>1, <1>3, <1>4, <1>5, DeedsEmit
<1>6. CASE d[2] \notin Knobs
  <2>1. Emits(d) \in WordReports
    BY <1>6, DeedsEmit
  <2>2. Emits(d) # <<"tick", knob>>
    BY <2>1, KindsDiffer DEF TurnsOf
  <2>3. QED
    BY <1>1, <1>4, <1>6, <2>2
<1>7. QED
  BY <1>5, <1>6

\* The main loop takes a deed: its report, if any, goes last.
LEMMA DeedTaken ==
  ASSUME IInv, MainLoop, Head(signals) \in Deeds
  PROVE  IInv'
<1> DEFINE d == Head(signals)
           e == Emits(d)
           rest == Tail(signals)
           S == Deeds \cup Reports
<1>1. /\ signals \in Seq(S) /\ signals # <<>> /\ rest \in Seq(S)
      /\ Len(signals) \in Nat /\ Len(rest) = Len(signals) - 1 /\ d = signals[1]
      /\ \A k \in 1 .. Len(rest) : rest[k] = signals[k + 1]
  BY DEF MainLoop, IInv, SignalsOK
<1>2. /\ d \in Deeds /\ d[2] \in parts /\ d[1] \in {MouseDown, MouseUp}
      /\ e \in Reports \cup {Nothing}
  BY <1>1, DeedsEmit, KindsDiffer DEF IInv, SignalsOK
<1>3. /\ lit' = LitAfter(d) /\ signals' = IF e = Nothing THEN rest ELSE Append(rest, e)
      /\ UNCHANGED <<parts, running, held, told, turned, last, turns>>
  BY <1>2 DEF MainLoop
<1> HIDE DEF d, e, rest, S
<1>4. SignalsOK'
  <2>1. lit' \subseteq parts
    BY <1>2, <1>3 DEF LitAfter, IInv, SignalsOK
  <2>2. /\ signals' \in Seq(S) /\ Len(signals') <= Len(signals)
        /\ \A k \in 1 .. Len(signals') : signals'[k] \in Deeds => signals'[k][2] \in parts
    <3>1. \A k \in 1 .. Len(rest) : rest[k] \in Deeds => rest[k][2] \in parts
      BY <1>1 DEF IInv, SignalsOK
    <3>2. CASE e = Nothing
      BY <1>1, <1>3, <3>1, <3>2
    <3>3. CASE e # Nothing
      <4>1. e \in S /\ e \notin Deeds
        BY <1>2, <3>3, KindsDiffer DEF S
      <4>2. /\ Len(signals') = Len(rest) + 1 /\ signals'[Len(rest) + 1] = e
            /\ \A k \in 1 .. Len(rest) : signals'[k] = rest[k]
            /\ signals' \in Seq(S)
        BY <1>1, <1>3, <3>3, <4>1
      <4>3. QED
        BY <1>1, <3>1, <4>1, <4>2
    <3>4. QED
      BY <3>2, <3>3
  <2>3. Len(signals') <= MaxQueue
    BY <1>1, <2>2, SimulationAssumption DEF IInv, SignalsOK
  <2>4. QED
    BY <1>3, <2>1, <2>2, <2>3 DEF IInv, SignalsOK, S
<1>5. \A some, saying :
        /\ e \in some /\ e # Nothing => /\ Places(signals', some) # {}
                                        /\ e \in saying => LastIs(signals', some, saying)
        /\ e \notin some \/ e = Nothing =>
             /\ Places(signals', some) = Places(rest, some)
             /\ LastIs(rest, some, saying) => LastIs(signals', some, saying)
  <2>1. CASE e = Nothing
    BY <1>3, <2>1
  <2>2. CASE e # Nothing
    <3>1. e \in S
      BY <1>2, <2>2 DEF S
    <3>2. QED
      BY <1>1, <1>3, <2>2, <3>1, Appended
  <2>3. QED
    BY <2>1, <2>2
<1>6. \A some, saying :
        /\ Places(rest, some) # {} =>
             /\ Places(signals, some) # {}
             /\ LastIs(signals, some, saying) => LastIs(rest, some, saying)
        /\ Places(rest, some) = {} /\ LastIs(signals, some, saying) =>
             d \in some /\ d \in saying
        /\ Places(rest, some) = {} /\ d \notin some => Places(signals, some) = {}
  BY <1>1, Taken DEF d, rest
<1>7. ASSUME NEW c
      PROVE  d \notin ReportsOf(c) /\ (e = Nothing \/ e \notin DeedsOf(c))
  BY <1>2, KindsDiffer
<1>8. ASSUME NEW c, e = Nothing \/ e \notin ReportsOf(c)
      PROVE  /\ Places(signals', ReportsOf(c)) = {} <=> Places(signals, ReportsOf(c)) = {}
             /\ \A saying : LastIs(signals, ReportsOf(c), saying) =>
                              LastIs(signals', ReportsOf(c), saying)
  BY <1>5, <1>6, <1>7, <1>8
<1>9. LastCounts'
  <2> SUFFICES ASSUME NEW c \in Heard
               PROVE  IF Places(signals', DeedsOf(c)) = {} THEN Reported(c, last[c])'
                      ELSE LastIs(signals', DeedsOf(c), DeedsSaying(c, last[c]))
    BY <1>3 DEF LastCounts
  <2>1. IF Places(signals, DeedsOf(c)) = {} THEN Reported(c, last[c])
        ELSE LastIs(signals, DeedsOf(c), DeedsSaying(c, last[c]))
    BY DEF IInv, LastCounts
  <2>2. CASE Places(rest, DeedsOf(c)) # {}
    <3>1. LastIs(rest, DeedsOf(c), DeedsSaying(c, last[c]))
      BY <1>6, <2>1, <2>2
    <3>2. /\ Places(signals', DeedsOf(c)) # {}
          /\ LastIs(signals', DeedsOf(c), DeedsSaying(c, last[c]))
      BY <1>5, <1>7, <2>2, <3>1
    <3>3. QED
      BY <3>2
  <2>3. CASE Places(rest, DeedsOf(c)) = {} /\ d \in DeedsOf(c)
    <3>1. Places(signals, DeedsOf(c)) # {}
      BY <1>1, <2>3 DEF Places
    <3>2. e = <<last[c], c>>
      BY <1>6, <2>1, <2>3, <3>1 DEF DeedsSaying, e
    <3>3. e \in ReportsOf(c)
      BY <2>3 DEF DeedsOf, ReportsOf, e
    <3>4. e # Nothing
      <4>1. "" \notin Words
        BY DEF Words
      <4>2. \A word \in Words : Nothing # <<word, c>>
        BY <4>1, Zenon DEF Nothing
      <4>3. QED
        BY <2>3, <4>2 DEF DeedsOf, e
    <3>5. /\ Places(signals', DeedsOf(c)) = {} /\ Places(signals', ReportsOf(c)) # {}
          /\ LastIs(signals', ReportsOf(c), {<<last[c], c>>})
      BY <1>5, <1>7, <2>3, <3>2, <3>3, <3>4
    <3>6. QED
      BY <1>3, <3>5 DEF Reported
  <2>4. CASE Places(rest, DeedsOf(c)) = {} /\ d \notin DeedsOf(c)
    <3>1. Reported(c, last[c])
      BY <1>6, <2>1, <2>4
    <3>2. e \notin ReportsOf(c)
      BY <1>2, <2>4 DEF ReportsOf, DeedsOf, e
    <3>3. Places(signals', DeedsOf(c)) = {}
      BY <1>5, <1>7, <2>4
    <3>4. QED
      BY <1>3, <1>8, <3>1, <3>2, <3>3 DEF Reported
  <2>5. QED
    BY <2>2, <2>3, <2>4
<1>10. TurnsCounted'
  <2> SUFFICES ASSUME NEW knob \in Knobs
               PROVE  turns[knob] =
                        turned[knob] + Cardinality(Places(signals', TurnsOf(knob)))
    BY <1>3 DEF TurnsCounted
  <2>1. Cardinality(Places(signals, TurnsOf(knob))) =
          Cardinality(Places(rest, TurnsOf(knob))) + (IF d \in TurnsOf(knob) THEN 1 ELSE 0)
    BY <1>1, CountedTaken DEF d, rest
  <2>2. Cardinality(Places(rest, TurnsOf(knob))) \in Nat
    BY <1>1, Counted
  <2>3. d \in TurnsOf(knob) <=> e = <<"tick", knob>>
    BY <1>2, TurnsEmitted DEF e
  <2>4. e \in TurnsOf(knob) <=> e = <<"tick", knob>>
    BY <1>2, TurnsEmitted DEF e
  <2>5. Cardinality(Places(signals', TurnsOf(knob))) =
          Cardinality(Places(rest, TurnsOf(knob))) + (IF e \in TurnsOf(knob) THEN 1 ELSE 0)
    <3>1. CASE e = Nothing
      <4>1. e # <<"tick", knob>>
        BY <3>1, Zenon DEF Nothing
      <4>2. QED
        BY <1>3, <2>2, <2>4, <3>1, <4>1
    <3>2. CASE e # Nothing
      <4>1. e \in S
        BY <1>2, <3>2 DEF S
      <4>2. QED
        BY <1>1, <1>3, <3>2, <4>1, CountedAppended
    <3>3. QED
      BY <3>1, <3>2
  <2>6. turns[knob] = turned[knob] + Cardinality(Places(signals, TurnsOf(knob)))
    BY DEF IInv, TurnsCounted
  <2>7. QED
    BY <2>1, <2>3, <2>4, <2>5, <2>6
<1>11. LightsLead'
  <2> SUFFICES ASSUME NEW part \in HeardButtons
               PROVE  IF Places(signals', ReportsOf(Source(part))) = {}
                      THEN told[Source(part)] = "down" <=> part \in lit'
                      ELSE LastIs(signals', ReportsOf(Source(part)),
                             {<<IF part \in lit' THEN "down" ELSE "up", Source(part)>>})
    BY <1>3 DEF LightsLead, HeardButtons, Heard, Control, Source
  <2> DEFINE c == Source(part)
  <2>1. part \in ButtonParts
    BY DEF HeardButtons
  <2>2. CASE d[2] = part
    <3>1. e = <<IF d[1] = MouseDown THEN "down" ELSE "up", c>>
      BY <1>2, <2>1, <2>2, DeedsEmit DEF e
    <3>2. part \in lit' <=> d[1] = MouseDown
      BY <1>3, <2>2 DEF LitAfter
    <3>3. e \in ReportsOf(c) /\ e # Nothing
      <4>1. e \in ReportsOf(c)
        BY <3>1 DEF ReportsOf, Words
      <4>2. e \in Reports
        BY <1>2, <2>1, <2>2, DeedsEmit DEF e, Reports, Knobs, ButtonParts
      <4>3. QED
        BY <4>1, <4>2, KindsDiffer
    <3>4. e = <<IF part \in lit' THEN "down" ELSE "up", c>>
      BY <3>1, <3>2
    <3> HIDE DEF c
    <3>5. /\ Places(signals', ReportsOf(c)) # {}
          /\ LastIs(signals', ReportsOf(c), {<<IF part \in lit' THEN "down" ELSE "up", c>>})
      BY <1>5, <3>3, <3>4
    <3>6. QED
      BY <3>5 DEF c
  <2>3. CASE d[2] # part
    <3>1. part \in lit' <=> part \in lit
      BY <1>3, <2>3 DEF LitAfter
    <3>2. e = Nothing \/ e \notin ReportsOf(c)
      <4>1. \A r \in ReportsOf(c) : r[1] # "tick" /\ r[2] = c
        BY DEF ReportsOf, Words
      <4>2. CASE d[2] \in Knobs
        BY <1>2, <4>1, <4>2, DeedsEmit DEF e
      <4>3. CASE d[2] \in ButtonParts
        BY <1>2, <2>1, <2>3, <4>1, <4>3, DeedsEmit, SourcesDiffer DEF e
      <4>4. CASE d[2] \in Cross
        BY <1>2, <2>1, <4>1, <4>4, DeedsEmit, SourcesAreNoAxes DEF e
      <4>5. QED
        BY <1>2, <4>2, <4>3, <4>4 DEF Deeds, AllParts
    <3> HIDE DEF c
    <3>3. /\ Places(signals', ReportsOf(c)) = {} <=> Places(signals, ReportsOf(c)) = {}
          /\ \A saying : LastIs(signals, ReportsOf(c), saying) =>
                           LastIs(signals', ReportsOf(c), saying)
      BY <1>8, <3>2
    <3>4. QED
      BY <3>1, <3>3 DEF c, IInv, LightsLead
  <2>4. QED
    BY <2>2, <2>3
<1>12. QED
  BY <1>4, <1>9, <1>10, <1>11 DEF IInv

\* What the slots make of a report: it is told.
LEMMA ReportTold ==
  ASSUME IInv, NEW r \in Reports, Slots(r)
  PROVE  /\ told' \in [Control -> Words \cup {"never"}] /\ turned' \in [Knobs -> Nat]
         /\ \A c \in Heard : told'[c] = IF r \in ReportsOf(c) THEN r[1] ELSE told[c]
         /\ \A knob \in Knobs :
              turned'[knob] = turned[knob] + (IF r \in TurnsOf(knob) THEN 1 ELSE 0)
<1>1. told \in [Control -> Words \cup {"never"}] /\ turned \in [Knobs -> Nat]
  BY DEF IInv, SignalsOK
<1>2. CASE r \in {"tick"} \X Knobs
  <2>1. r = <<"tick", r[2]>> /\ r[2] \in Knobs
    BY <1>2
  <2>2. ~Connected(r) /\ ConnectedToRotary(r)
    BY <2>1 DEF Connected, ConnectedToRotary
  <2>3. \A c : r \notin ReportsOf(c)
    BY <2>1 DEF ReportsOf, Words
  <2>4. \A knob \in Knobs : r \in TurnsOf(knob) <=> r[2] = knob
    BY <2>1, MouseWords DEF TurnsOf
  <2>5. told' = told /\ turned' = [turned EXCEPT ![r[2]] = @ + 1]
    BY <2>2 DEF Slots
  <2>6. QED
    BY <1>1, <2>1, <2>3, <2>4, <2>5
<1>3. CASE r \in WordReports
  <2>1. \A knob : r \notin TurnsOf(knob)
    BY <1>3, KindsDiffer
  <2>2. /\ r = <<r[1], r[2]>> /\ r[1] \in Words
        /\ Connected(r) <=> r[2] \in Control
        /\ r[2] \in Heard => r[2] \in Control
        /\ ~ConnectedToRotary(r)
    BY <1>3 DEF WordReports, Words, Connected, ConnectedToRotary, Control, ButtonSources, Heard
  <2>3. turned' = turned /\ told' = IF r[2] \in Control THEN [told EXCEPT ![r[2]] = r[1]] ELSE told
    BY <2>2 DEF Slots
  <2>4. \A c : r \in ReportsOf(c) <=> r[2] = c
    BY <2>2 DEF ReportsOf
  <2>5. QED
    BY <1>1, <2>1, <2>2, <2>3, <2>4 DEF Heard
<1>4. QED
  BY <1>2, <1>3 DEF Reports

\* The main loop takes a report.
LEMMA ReportTaken ==
  ASSUME IInv, MainLoop, Head(signals) \in Reports
  PROVE  IInv'
<1> DEFINE r == Head(signals)
           rest == Tail(signals)
           S == Deeds \cup Reports
<1>1. /\ signals \in Seq(S) /\ signals # <<>> /\ rest \in Seq(S)
      /\ Len(signals) \in Nat /\ Len(rest) = Len(signals) - 1 /\ r = signals[1]
      /\ \A k \in 1 .. Len(rest) : rest[k] = signals[k + 1]
  BY DEF MainLoop, IInv, SignalsOK
<1>2. r \in Reports /\ r[1] \notin {MouseDown, MouseUp}
  BY KindsDiffer
<1>3. /\ Slots(r) /\ signals' = rest
      /\ UNCHANGED <<parts, running, held, lit, last, turns>>
  BY <1>2 DEF MainLoop
<1> HIDE DEF r, rest, S
<1>4. /\ told' \in [Control -> Words \cup {"never"}] /\ turned' \in [Knobs -> Nat]
      /\ \A c \in Heard : told'[c] = IF r \in ReportsOf(c) THEN r[1] ELSE told[c]
      /\ \A knob \in Knobs :
           turned'[knob] = turned[knob] + (IF r \in TurnsOf(knob) THEN 1 ELSE 0)
  BY <1>2, <1>3, ReportTold
<1>5. SignalsOK'
  <2>1. /\ Len(rest) <= MaxQueue
        /\ \A k \in 1 .. Len(rest) : rest[k] \in Deeds => rest[k][2] \in parts
    <3>1. Len(signals) <= MaxQueue
      BY DEF IInv, SignalsOK
    <3>2. \A k \in 1 .. Len(rest) : signals[k + 1] \in Deeds => signals[k + 1][2] \in parts
      BY <1>1 DEF IInv, SignalsOK
    <3>3. QED
      BY <1>1, <3>1, <3>2, SimulationAssumption
  <2>2. QED
    BY <1>1, <1>3, <1>4, <2>1 DEF IInv, SignalsOK, S
<1>6. \A some, saying :
        /\ Places(rest, some) # {} =>
             /\ Places(signals, some) # {}
             /\ LastIs(signals, some, saying) => LastIs(rest, some, saying)
        /\ Places(rest, some) = {} /\ LastIs(signals, some, saying) =>
             r \in some /\ r \in saying
        /\ Places(rest, some) = {} /\ r \notin some => Places(signals, some) = {}
  BY <1>1, Taken DEF r, rest
<1>7. ASSUME NEW c \in Heard, NEW word, Reported(c, word)
      PROVE  IF Places(rest, ReportsOf(c)) = {} THEN told'[c] = word
             ELSE LastIs(rest, ReportsOf(c), {<<word, c>>})
  <2>1. CASE Places(rest, ReportsOf(c)) # {}
    BY <1>6, <1>7, <2>1 DEF Reported
  <2>2. CASE Places(rest, ReportsOf(c)) = {} /\ r \in ReportsOf(c)
    <3>1. Places(signals, ReportsOf(c)) # {}
      BY <1>1, <2>2 DEF Places
    <3>2. r = <<word, c>>
      BY <1>6, <1>7, <2>2, <3>1 DEF Reported
    <3>3. QED
      BY <1>4, <2>2, <3>2
  <2>3. CASE Places(rest, ReportsOf(c)) = {} /\ r \notin ReportsOf(c)
    BY <1>4, <1>6, <1>7, <2>3 DEF Reported
  <2>4. QED
    BY <2>1, <2>2, <2>3
<1>8. LastCounts'
  <2> SUFFICES ASSUME NEW c \in Heard
               PROVE  IF Places(rest, DeedsOf(c)) = {} THEN Reported(c, last[c])'
                      ELSE LastIs(rest, DeedsOf(c), DeedsSaying(c, last[c]))
    BY <1>3 DEF LastCounts
  <2>1. IF Places(signals, DeedsOf(c)) = {} THEN Reported(c, last[c])
        ELSE LastIs(signals, DeedsOf(c), DeedsSaying(c, last[c]))
    BY DEF IInv, LastCounts
  <2>2. r \notin DeedsOf(c)
    BY <1>2, KindsDiffer
  <2>3. CASE Places(rest, DeedsOf(c)) = {}
    <3>1. Reported(c, last[c])
      BY <1>6, <2>1, <2>2, <2>3
    <3>2. QED
      BY <1>3, <1>7, <2>3, <3>1 DEF Reported
  <2>4. CASE Places(rest, DeedsOf(c)) # {}
    BY <1>6, <2>1, <2>4
  <2>5. QED
    BY <2>3, <2>4
<1>9. TurnsCounted'
  <2> SUFFICES ASSUME NEW knob \in Knobs
               PROVE  turns[knob] =
                        turned'[knob] + Cardinality(Places(rest, TurnsOf(knob)))
    BY <1>3 DEF TurnsCounted
  <2>1. Cardinality(Places(signals, TurnsOf(knob))) =
          Cardinality(Places(rest, TurnsOf(knob))) + (IF r \in TurnsOf(knob) THEN 1 ELSE 0)
    BY <1>1, CountedTaken DEF r, rest
  <2>2. Cardinality(Places(rest, TurnsOf(knob))) \in Nat /\ turned[knob] \in Nat
    BY <1>1, Counted DEF IInv, SignalsOK
  <2>3. turns[knob] = turned[knob] + Cardinality(Places(signals, TurnsOf(knob)))
    BY DEF IInv, TurnsCounted
  <2>4. QED
    BY <1>4, <2>1, <2>2, <2>3
<1>10. LightsLead'
  <2> SUFFICES ASSUME NEW part \in HeardButtons
               PROVE  IF Places(rest, ReportsOf(Source(part))) = {}
                      THEN told'[Source(part)] = "down" <=> part \in lit
                      ELSE LastIs(rest, ReportsOf(Source(part)),
                             {<<IF part \in lit THEN "down" ELSE "up", Source(part)>>})
    BY <1>3 DEF LightsLead, HeardButtons, Heard, Control, Source
  <2> DEFINE c == Source(part)
             word == IF part \in lit THEN "down" ELSE "up"
  <2>1. c \in Heard
    BY DEF HeardButtons
  <2>2. IF Places(signals, ReportsOf(c)) = {} THEN told[c] = "down" <=> part \in lit
        ELSE LastIs(signals, ReportsOf(c), {<<word, c>>})
    BY DEF IInv, LightsLead
  <2>3. word = "down" <=> part \in lit
    OBVIOUS
  <2> HIDE DEF c, word
  <2>4. CASE Places(signals, ReportsOf(c)) = {}
    <3>1. Places(rest, ReportsOf(c)) = {} /\ r \notin ReportsOf(c)
      BY <1>1, <1>6, <2>4 DEF Places
    <3>2. told'[c] = told[c]
      BY <1>4, <2>1, <3>1
    <3>3. QED
      BY <2>2, <2>4, <3>1, <3>2 DEF c
  <2>5. CASE Places(signals, ReportsOf(c)) # {}
    <3>1. Reported(c, word)
      BY <2>2, <2>5 DEF Reported
    <3>2. QED
      BY <1>7, <2>1, <2>3, <3>1 DEF c, word
  <2>6. QED
    BY <2>4, <2>5
<1>11. QED
  BY <1>5, <1>8, <1>9, <1>10 DEF IInv

-----------------------------------------------------------------------------
LEMMA Inductive == IInv /\ [Next]_vars => IInv'
<1> SUFFICES ASSUME IInv, [Next]_vars PROVE IInv'
  OBVIOUS
<1>1. ASSUME NEW device \in Devices,
             NEW part \in (IF device = "key" THEN parts \cap KeyParts ELSE parts),
             Press(device, part)
      PROVE  IInv'
  <2>1. part \in parts /\ UserSignal(MouseDown, part) /\ held' = held \cup {<<device, part>>}
        /\ (part \in Knobs => turns[part] < MaxTurns)
    BY <1>1 DEF Press
  <2>2. held' \subseteq Devices \X parts
    BY <2>1 DEF IInv, SignalsOK
  <2>3. QED
    BY <2>1, <2>2, UserStep
<1>2. ASSUME NEW device \in Devices,
             NEW part \in (IF device = "key" THEN parts \cap KeyParts ELSE parts),
             Release(device, part)
      PROVE  IInv'
  <2>1. part \in parts /\ UserSignal(MouseUp, part) /\ held' = held \ {<<device, part>>}
    BY <1>2 DEF Release
  <2>2. held' \subseteq Devices \X parts
    BY <2>1 DEF IInv, SignalsOK
  <2>3. QED
    BY <2>1, <2>2, UserStep, MouseWords
<1>3. CASE MainLoop
  <2>1. Head(signals) \in Deeds \cup Reports
    BY <1>3 DEF MainLoop, IInv, SignalsOK
  <2>2. QED
    BY <1>3, <2>1, DeedTaken, ReportTaken
<1>4. CASE quit
  BY <1>4 DEF quit, IInv, SignalsOK, LastCounts, Reported, TurnsCounted, LightsLead
<1>5. CASE UNCHANGED vars
  BY <1>5 DEF vars, IInv, SignalsOK, LastCounts, Reported, TurnsCounted, LightsLead
<1>6. QED
  BY <1>1, <1>2, <1>3, <1>4, <1>5 DEF Next

LEMMA AlwaysIInv == Spec => []IInv
BY InitHolds, Inductive, PTL DEF Spec

\* Every variable keeps its type, and no knob is heard to turn further than it was
\* turned (the slots of Simulation::exec and the programs of the theme).
THEOREM PanelTypes == Spec => []TypeOK
<1>1. IInv => TypeOK
  <2> SUFFICES ASSUME IInv PROVE TypeOK
    OBVIOUS
  <2>1. Len(signals) <= 2 * MaxQueue
    BY SimulationAssumption DEF IInv, SignalsOK
  <2>2. \A c \in Control : told[c] \in {"never", "down", "up", "min", "max", "zero"}
    BY DEF IInv, SignalsOK, Words
  <2>3. \A knob \in Knobs : turned[knob] <= turns[knob] /\ turns[knob] <= MaxTurns
    <3> TAKE knob \in Knobs
    <3>1. Cardinality(Places(signals, TurnsOf(knob))) \in Nat
      BY Counted DEF IInv, SignalsOK
    <3>2. turned[knob] \in Nat /\ turns[knob] \in 0 .. MaxTurns
      BY DEF IInv, SignalsOK
    <3>3. QED
      BY <3>1, <3>2, SimulationAssumption DEF IInv, TurnsCounted
  <2>4. QED
    BY <2>1, <2>2, <2>3 DEF IInv, SignalsOK, TypeOK
<1>2. QED
  BY <1>1, AlwaysIInv, PTL

\* Theme and slots fit but for the volume button, in whatever order and however often
\* parts are pressed: with the queue empty the listeners know what the user did last to
\* every other button and to the cross, and of every turn of a knob (Simulation::exec).
THEOREM PanelIsFollowed == Spec => []PanelFollowsUser
<1>1. IInv => PanelFollowsUser
  <2> SUFFICES ASSUME IInv, signals = <<>>
               PROVE  (\A c \in Heard : told[c] = last[c]) /\ turned = turns
    BY DEF PanelFollowsUser
  <2>1. \A some : Places(signals, some) = {}
    BY DEF Places
  <2>2. \A c \in Heard : told[c] = last[c]
    BY <2>1 DEF IInv, LastCounts, Reported
  <2>3. \A knob \in Knobs : Cardinality(Places(signals, TurnsOf(knob))) = 0
    BY <2>1, FS_EmptySet
  <2>4. turned = turns
    BY <2>3 DEF IInv, SignalsOK, TurnsCounted
  <2>5. QED
    BY <2>2, <2>4
<1>2. QED
  BY <1>1, AlwaysIInv, PTL

\* ... and a button other than the volume button is lit exactly if the listeners were
\* told it is down.
THEOREM LightsAlwaysAgree == Spec => []LightsAgree
<1>1. IInv => LightsAgree
  <2> SUFFICES ASSUME IInv, signals = <<>>, NEW part \in parts \cap ButtonParts,
                      Source(part) \in Heard
               PROVE  part \in lit <=> told[Source(part)] = "down"
    BY SourceIsControl DEF LightsAgree
  <2>1. \A some : Places(signals, some) = {}
    BY DEF Places
  <2>2. QED
    BY <2>1 DEF IInv, LightsLead, HeardButtons
<1>2. QED
  BY <1>1, AlwaysIInv, PTL
=============================================================================
