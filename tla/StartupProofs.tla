----------------------------- MODULE StartupProofs -----------------------------
(***************************************************************************)
(* What holds of the option parser, for every usage table and any argument *)
(* vectors, and of the start of the programs, for every start they may     *)
(* have.                                                                   *)
(*                                                                         *)
(* The parser reorders the vector it goes over, and yet stores what one    *)
(* reading of it from left to right gives: at every step what was counted  *)
(* or stored is what the arguments before the pointer say, but for those   *)
(* passed over, which say nothing (Scanned), and the whole vector still    *)
(* says what it was written to say (SameReadings).  So both passes see the *)
(* same, the first counts what the second stores (AllCounted), and the     *)
(* arrays suffice.  The lists are followed apart from that: each option    *)
(* stored is the new end of the list of its index and changes no other     *)
(* (ListsInv).  The preferences follow from what the parser stores.        *)
(***************************************************************************)
EXTENDS Startup, RecursionProofs, SequenceTheorems, FiniteSetTheorems, TLAPS

-----------------------------------------------------------------------------
(* Types.                                                                  *)

\* An argument or none, an Option that is stored, what an argument may stand for, what it does stand
\* for, and what a vector says.
Arg == Text \cup {NoArg}
Option == [index : Nat, name : Text, arg : Arg]
Verdict == {"ARG_NONE", "ARG_OK", "ARG_IGNORE", "ARG_ILLEGAL", "undescribed"}
Read == [option : Option, detached : BOOLEAN, verdict : Verdict]
MeaningType == [options : Seq(Option), length : {1, 2}, ok : BOOLEAN]
ReadingType == [options : Seq(Option), others : Seq(Text), ok : BOOLEAN]

-----------------------------------------------------------------------------
(* The equation of Meanings.                                               *)

MeaningStep(read, f, c) ==
  IF c > Len(read) THEN [options |-> <<>>, length |-> 1, ok |-> TRUE]
  ELSE CASE read[c].verdict = "ARG_OK" ->
              [options |-> <<read[c].option>>,
               length |-> IF read[c].detached THEN 2 ELSE 1, ok |-> TRUE]
         [] read[c].verdict = "ARG_ILLEGAL" ->
              [options |-> <<>>, length |-> 1, ok |-> FALSE]
         [] read[c].verdict = "undescribed" -> f[c + 1]
         [] OTHER -> More(<<read[c].option>>, f[c + 1])

LEMMA MeaningStepType ==
  ASSUME NEW read \in Seq(Read), NEW f, NEW c \in 1 .. Len(read) + 1,
         c <= Len(read) => f[c + 1] \in MeaningType
  PROVE  MeaningStep(read, f, c) \in MeaningType
<1>0. <<>> \in Seq(Option)
  BY EmptySeq
<1>1. CASE c > Len(read)
  BY <1>0, <1>1 DEF MeaningStep, MeaningType
<1>2. CASE ~(c > Len(read))
  <2>1. c \in 1 .. Len(read) /\ f[c + 1] \in MeaningType /\ read[c] \in Read
    BY <1>2
  <2>2. read[c].option \in Option /\ f[c + 1].options \in Seq(Option)
    BY <2>1 DEF Read, MeaningType
  <2>3. <<read[c].option>> \in Seq(Option)
    BY <2>2
  <2>4. <<read[c].option>> \o f[c + 1].options \in Seq(Option)
    BY <2>2, <2>3, ConcatProperties
  <2>5. More(<<read[c].option>>, f[c + 1]) \in MeaningType
    BY <2>1, <2>4 DEF MeaningType, More
  <2> QED BY <1>0, <1>2, <2>1, <2>3, <2>5 DEF MeaningStep, MeaningType
<1> QED BY <1>1, <1>2

LEMMA MeaningStepLocal ==
  ASSUME NEW read \in Seq(Read), NEW g, NEW h, NEW c \in 1 .. Len(read) + 1,
         \A i \in c + 1 .. Len(read) + 1 : g[i] = h[i]
  PROVE  MeaningStep(read, g, c) = MeaningStep(read, h, c)
<1>1. CASE c > Len(read)
  BY <1>1 DEF MeaningStep
<1>2. CASE ~(c > Len(read))
  <2>1. g[c + 1] = h[c + 1]
    BY <1>2
  <2> QED BY <2>1 DEF MeaningStep
<1> QED BY <1>1, <1>2

LEMMA MeaningsEquation ==
  ASSUME NEW read \in Seq(Read)
  PROVE  /\ Meanings(read) \in [1 .. Len(read) + 1 -> MeaningType]
         /\ \A c \in 1 .. Len(read) + 1 :
              Meanings(read)[c] = MeaningStep(read, Meanings(read), c)
<1> DEFINE b == Len(read) + 1
           F == [1 .. b -> MeaningType]
           G == [k \in 1 .. b |-> [f \in F |-> MeaningStep(read, f, k)]]
           Is(h) == h = [c \in 1 .. b |-> MeaningStep(read, h, c)]
<1>1. b \in Nat
  OBVIOUS
<1>2. MeaningType # {}
  <2>1. [options |-> <<>>, length |-> 1, ok |-> TRUE] \in MeaningType
    BY EmptySeq DEF MeaningType
  <2> QED BY <2>1
<1>3. \A k \in 1 .. b, f \in F : G[k][f] = MeaningStep(read, f, k)
  OBVIOUS
<1>4. G \in [1 .. b -> [F -> MeaningType]]
  <2> SUFFICES ASSUME NEW k \in 1 .. b, NEW f \in F
               PROVE  MeaningStep(read, f, k) \in MeaningType
    OBVIOUS
  <2> QED BY MeaningStepType
<1>5. ASSUME NEW k \in 1 .. b, NEW g \in F, NEW h \in F,
             \A i \in k + 1 .. b : g[i] = h[i]
      PROVE  G[k][g] = G[k][h]
  <2>1. MeaningStep(read, g, k) = MeaningStep(read, h, k)
    BY <1>5, MeaningStepLocal
  <2> HIDE DEF G
  <2> QED BY <1>3, <2>1
<1> HIDE DEF G
<1>6. PICK f \in F : \A k \in 1 .. b : f[k] = G[k][f]
  <2>1. \A k \in 1 .. b : \A g, h \in F :
          (\A i \in k + 1 .. b : g[i] = h[i]) => G[k][g] = G[k][h]
    BY <1>5
  <2>2. StepsDownwards(b, MeaningType, G)
    BY <1>1, <1>2, <1>4, <2>1 DEF StepsDownwards
  <2> HIDE DEF b
  <2> QED BY <2>2, RecursionDownwards
<1>7. Is(f)
  BY <1>3, <1>6
<1>8. Meanings(read) = CHOOSE h : Is(h)
  BY DEF Meanings, MeaningStep
<1> DEFINE M == Meanings(read)
<1>9. Is(M)
  <2> HIDE DEF Is
  <2> QED BY <1>7, <1>8
<1>10. DOMAIN M = 1 .. b /\ \A c \in 1 .. b : M[c] = MeaningStep(read, M, c)
  <2> HIDE DEF M
  <2> QED BY <1>9
<1> HIDE DEF M
<1> DEFINE T == {i \in 1 .. b : M[i] \in MeaningType}
<1>11. \A c \in 1 .. b : c \in T
  <2>1. b \in T
    <3>1. MeaningStep(read, M, b) \in MeaningType
      BY MeaningStepType
    <3> QED BY <3>1, <1>10
  <2>2. ASSUME NEW k \in 1 + 1 .. b, k \in T PROVE k - 1 \in T
    <3>1. k - 1 \in 1 .. b /\ M[k - 1 + 1] \in MeaningType
      BY <2>2
    <3>2. MeaningStep(read, M, k - 1) \in MeaningType
      BY <3>1, MeaningStepType
    <3> QED BY <3>1, <3>2, <1>10
  <2>3. 1 \in Int /\ b \in Int
    OBVIOUS
  <2> HIDE DEF T, b
  <2> QED BY <2>1, <2>2, <2>3, Downwards
<1>12. M \in [1 .. b -> MeaningType]
  BY <1>9, <1>11
<1> QED BY <1>10, <1>12 DEF M

-----------------------------------------------------------------------------
(* What is read of an argument has its type.                               *)

LEMMA LeastChosen ==
  ASSUME NEW T \in SUBSET Nat, T # {}
  PROVE  (CHOOSE d \in T : \A e \in T : d <= e) \in T
<1>1. \E d \in T : \A e \in T : d <= e
  BY LeastNumber
<1> QED BY <1>1

LEMMA LongMatchType ==
  ASSUME NEW m \in Mode, NEW t
  PROVE  LongMatch(m, t) \in 0 .. Len(m.usage)
<1> DEFINE exact == {d \in DOMAIN m.usage : streq(m.usage[d].longopt, t)}
           abbreviated == {d \in DOMAIN m.usage :
                             streqabbr(m.usage[d].longopt, t, m.min_abbr_len)}
           first == CHOOSE d \in exact : \A e \in exact : d <= e
<1>1. Len(m.usage) \in Nat /\ DOMAIN m.usage = 1 .. Len(m.usage)
  BY DEF Mode
<1>2. exact \subseteq 1 .. Len(m.usage) /\ abbreviated \subseteq 1 .. Len(m.usage)
  BY <1>1
<1> DEFINE best == IF exact = {} THEN 0 ELSE first
           some == CHOOSE d \in abbreviated : TRUE
<1>3. LongMatch(m, t) = IF best # 0 \/ m.min_abbr_len = 0 \/ Cardinality(abbreviated) # 1
                        THEN best ELSE some
  BY DEF LongMatch, First
<1>5. exact # {} => first \in exact
  <2>1. exact \in SUBSET Nat
    BY <1>1, <1>2
  <2> HIDE DEF exact
  <2> QED BY <2>1, LeastChosen
<1>7. Cardinality(abbreviated) = 1 => some \in abbreviated
  <2> HIDE DEF abbreviated
  <2>1. Cardinality({}) = 0
    BY FS_EmptySet
  <2>2. Cardinality(abbreviated) = 1 => abbreviated # {}
    BY <2>1
  <2> QED BY <2>2
<1> HIDE DEF exact, abbreviated, first, some
<1>8. best \in 0 .. Len(m.usage)
  <2>1. \A d \in exact : d \in 0 .. Len(m.usage)
    BY <1>1, <1>2
  <2> QED BY <2>1, <1>1, <1>5
<1>9. Cardinality(abbreviated) = 1 => some \in 0 .. Len(m.usage)
  <2>1. \A d \in abbreviated : d \in 0 .. Len(m.usage)
    BY <1>1, <1>2
  <2> QED BY <2>1, <1>7
<1> QED BY <1>3, <1>8, <1>9

LEMMA ShortMatchType ==
  ASSUME NEW m \in Mode, NEW c
  PROVE  ShortMatch(m, c) \in 0 .. Len(m.usage)
<1> DEFINE has == {d \in DOMAIN m.usage : c \in m.usage[d].shortopt}
           first == CHOOSE d \in has : \A e \in has : d <= e
<1>1. Len(m.usage) \in Nat /\ DOMAIN m.usage = 1 .. Len(m.usage)
  BY DEF Mode
<1>2. has \subseteq 1 .. Len(m.usage)
  BY <1>1
<1>3. ShortMatch(m, c) = IF has = {} THEN 0 ELSE first
  BY DEF ShortMatch, First
<1>4. has # {} => first \in has
  <2>1. has \in SUBSET Nat
    BY <1>1, <1>2
  <2> HIDE DEF has
  <2> QED BY <2>1, LeastChosen
<1>5. first \in 1 .. Len(m.usage) \/ has = {}
  <2> HIDE DEF has, first
  <2> QED BY <1>2, <1>4
<1> HIDE DEF has, first
<1> QED BY <1>1, <1>3, <1>5

LEMMA DummyType ==
  ASSUME NEW m \in Mode
  PROVE  Dummy(m) \in 0 .. Len(m.usage)
<1> DEFINE empty == {d \in DOMAIN m.usage :
                       m.usage[d].shortopt = {} /\ m.usage[d].longopt = <<>>}
           first == CHOOSE d \in empty : \A e \in empty : d <= e
<1>1. Len(m.usage) \in Nat /\ DOMAIN m.usage = 1 .. Len(m.usage)
  BY DEF Mode
<1>2. empty \subseteq 1 .. Len(m.usage)
  BY <1>1
<1>3. Dummy(m) = IF empty = {} THEN 0 ELSE first
  BY DEF Dummy, First
<1>4. empty # {} => first \in empty
  <2>1. empty \in SUBSET Nat
    BY <1>1, <1>2
  <2> HIDE DEF empty
  <2> QED BY <2>1, LeastChosen
<1>5. first \in 1 .. Len(m.usage) \/ empty = {}
  <2> HIDE DEF empty, first
  <2> QED BY <1>2, <1>4
<1> HIDE DEF empty, first
<1> QED BY <1>1, <1>3, <1>5

LEMMA DescribedType ==
  ASSUME NEW m \in Mode, NEW d \in 0 .. Len(m.usage)
  PROVE  Described(m, d) \in 0 .. Len(m.usage)
BY DummyType DEF Described

LEMMA RestType ==
  ASSUME NEW S, NEW s \in Seq(S), NEW k \in Nat \ {0}
  PROVE  /\ Rest(s, k) \in Seq(S)
         /\ Len(Rest(s, k)) = IF k <= Len(s) THEN Len(s) - k + 1 ELSE 0
         /\ \A i \in 1 .. Len(s) - k + 1 : Rest(s, k)[i] = s[k + i - 1]
<1>1. k \in Int /\ Len(s) \in Int /\ \A i \in k .. Len(s) : s[i] \in S
  BY ElementOfSeq
<1> QED BY <1>1, SubSeqProperties DEF Rest

LEMMA AttachedType ==
  ASSUME NEW t \in Text
  PROVE  Attached(t) \in Arg
<1> DEFINE eq == {k \in DOMAIN t : t[k] = "="}
           k == CHOOSE k \in eq : \A j \in eq : k <= j
<1>1. DOMAIN t = 1 .. Len(t) /\ Len(t) \in Nat
  BY DEF Text
<1>2. CASE eq = {}
  BY <1>2 DEF Attached, Arg
<1>3. CASE eq # {}
  <2>1. eq \subseteq 1 .. Len(t) /\ eq \in SUBSET Nat
    BY <1>1
  <2>2. k \in eq
    <3> HIDE DEF eq
    <3> QED BY <2>1, <1>3, LeastChosen
  <2>3. Attached(t) = Rest(t, k + 1)
    BY <1>3 DEF Attached
  <2> HIDE DEF eq, k
  <2>4. k + 1 \in Nat \ {0}
    BY <2>1, <2>2
  <2>5. Rest(t, k + 1) \in Text
    BY <2>4, RestType DEF Text
  <2> QED BY <2>3, <2>5 DEF Arg
<1> QED BY <1>2, <1>3

LEMMA CheckArgType ==
  ASSUME NEW check, NEW arg, NEW attached
  PROVE  check_arg(check, arg, attached) \in
           {"ARG_NONE", "ARG_OK", "ARG_IGNORE", "ARG_ILLEGAL"}
BY DEF check_arg

LEMMA ReadAsType ==
  ASSUME NEW m \in Mode, NEW name \in Text, NEW d \in 0 .. Len(m.usage),
         NEW attached \in Arg, NEW next \in Arg
  PROVE  ReadAs(m, name, d, attached, next) \in Read
<1> DEFINE arg == IF attached # NoArg THEN attached ELSE next
           verdict == IF d = 0 THEN "undescribed"
                      ELSE check_arg(m.usage[d].check_arg, arg, attached # NoArg)
           index == IF d = 0 THEN 0 ELSE m.usage[d].index
           given == IF verdict = "ARG_OK" THEN arg ELSE NoArg
           r == [option |-> [index |-> index, name |-> name, arg |-> given],
                 detached |-> attached = NoArg, verdict |-> verdict]
<1>1. ReadAs(m, name, d, attached, next) = r
  BY DEF ReadAs
<1>2. index \in Nat
  <2>1. d # 0 => m.usage[d] \in Descriptor
    BY DEF Mode
  <2> QED BY <2>1 DEF Descriptor
<1>3. verdict \in Verdict
  BY CheckArgType DEF Verdict
<1>4. given \in Arg
  BY DEF Arg
<1>5. (attached = NoArg) \in BOOLEAN
  OBVIOUS
<1> HIDE DEF arg, verdict, index, given
<1>6. r \in Read
  BY <1>2, <1>3, <1>4, <1>5 DEF Read, Option
<1> QED BY <1>1, <1>6

LEMMA AllReadType ==
  ASSUME NEW m \in Mode, NEW t \in Text, IsOption(t), NEW next \in Arg
  PROVE  /\ AllRead(m, t, next) \in Seq(Read)
         /\ Len(AllRead(m, t, next)) = IF ReadLong(m, t) THEN 1 ELSE Len(t) - 1
<1>1. Len(t) \in Nat /\ Len(t) >= 2
  BY DEF IsOption, Text
<1>2. CASE ReadLong(m, t)
  <2> DEFINE k == IF t[2] = "-" THEN 3 ELSE 2
             r == ReadAs(m, t, Described(m, LongMatch(m, Rest(t, k))),
                         Attached(Rest(t, k)), next)
  <2>1. AllRead(m, t, next) = <<r>>
    BY <1>2 DEF AllRead
  <2>2. Rest(t, k) \in Text
    BY RestType, SMTT(60) DEF Text
  <2>3. r \in Read
    BY <2>2, LongMatchType, DescribedType, AttachedType, ReadAsType
  <2> HIDE DEF r
  <2> QED BY <1>2, <2>1, <2>3
<1>3. CASE ~ReadLong(m, t)
  <2> DEFINE r(c) == ReadAs(m, Rest(t, c + 1), Described(m, ShortMatch(m, t[c + 1])),
                            IF c + 1 < Len(t) THEN Rest(t, c + 2) ELSE NoArg, next)
  <2>1. AllRead(m, t, next) = [c \in 1 .. Len(t) - 1 |-> r(c)]
    BY <1>3 DEF AllRead
  <2>2. ASSUME NEW c \in 1 .. Len(t) - 1 PROVE r(c) \in Read
    <3>0. c + 1 \in Nat \ {0} /\ c + 2 \in Nat \ {0}
      BY <1>1
    <3>1. Rest(t, c + 1) \in Text /\ Rest(t, c + 2) \in Text
      BY <3>0, RestType DEF Text
    <3>2. (IF c + 1 < Len(t) THEN Rest(t, c + 2) ELSE NoArg) \in Arg
      BY <3>1 DEF Arg
    <3>3. Described(m, ShortMatch(m, t[c + 1])) \in 0 .. Len(m.usage)
      BY ShortMatchType, DescribedType
    <3> QED BY <3>1, <3>2, <3>3, ReadAsType
  <2> HIDE DEF r
  <2>3. Len(t) - 1 \in Nat
    BY <1>1
  <2>4. [c \in 1 .. Len(t) - 1 |-> r(c)] \in Seq(Read)
    BY <2>2, <2>3, IsASeq
  <2> QED BY <1>3, <2>1, <2>3, <2>4
<1> QED BY <1>2, <1>3

LEMMA NextArgType ==
  ASSUME NEW v \in Seq(Text), NEW k \in 1 .. Len(v)
  PROVE  NextArg(v, k) \in Arg
BY DEF NextArg, Arg

LEMMA MeaningHasType ==
  ASSUME NEW m \in Mode, NEW v \in Seq(Text), NEW k \in 1 .. Len(v), IsOption(v[k])
  PROVE  Meaning(m, v, k) \in MeaningType
<1> DEFINE read == AllRead(m, v[k], NextArg(v, k))
<1>1. v[k] \in Text /\ NextArg(v, k) \in Arg
  BY NextArgType
<1>2. read \in Seq(Read)
  BY <1>1, AllReadType
<1>3. Meaning(m, v, k) = Meanings(read)[1]
  BY DEF Meaning
<1> HIDE DEF read
<1>4. Meanings(read) \in [1 .. Len(read) + 1 -> MeaningType] /\ 1 \in 1 .. Len(read) + 1
  BY <1>2, MeaningsEquation
<1> QED BY <1>3, <1>4

-----------------------------------------------------------------------------
(* The equation of Readings.                                               *)

ReadingStep(m, v, f, k) ==
  CASE k > Len(v) -> [options |-> <<>>, others |-> <<>>, ok |-> TRUE]
    [] k <= Len(v) /\ ~IsOption(v[k]) ->
         IF m.gnu THEN Passed(<<v[k]>>, f[k + 1])
         ELSE [options |-> <<>>, others |-> Rest(v, k), ok |-> TRUE]
    [] k <= Len(v) /\ IsDashDash(v[k]) ->
         [options |-> <<>>, others |-> Rest(v, k + 1), ok |-> TRUE]
    [] OTHER ->
         IF Meaning(m, v, k).ok
         THEN Behind(Meaning(m, v, k).options, f[k + Meaning(m, v, k).length])
         ELSE [options |-> Meaning(m, v, k).options, others |-> <<>>, ok |-> FALSE]

\* The kinds of places that a vector has.
IsOther(v, k) == k \in 1 .. Len(v) /\ ~IsOption(v[k])
IsEnd(v, k) == k \in 1 .. Len(v) /\ IsOption(v[k]) /\ IsDashDash(v[k])
IsChoice(v, k) == k \in 1 .. Len(v) /\ IsOption(v[k]) /\ ~IsDashDash(v[k])

LEMMA DashDashIsOption ==
  ASSUME NEW t, IsDashDash(t)
  PROVE  IsOption(t)
BY DEF IsDashDash, IsOption

LEMMA StepBehind ==
  ASSUME NEW m, NEW v, Len(v) \in Nat, NEW f, NEW k \in Nat, k > Len(v)
  PROVE  ReadingStep(m, v, f, k) =
           [options |-> <<>>, others |-> <<>>, ok |-> TRUE]
BY DEF ReadingStep

LEMMA StepOther ==
  ASSUME NEW m, NEW v, Len(v) \in Nat, NEW f, NEW k \in Nat, IsOther(v, k), m.gnu
  PROVE  ReadingStep(m, v, f, k) =
           Passed(<<v[k]>>, f[k + 1])
<1>1. k <= Len(v) /\ ~(k > Len(v)) /\ ~IsOption(v[k]) /\ ~IsDashDash(v[k])
  BY DashDashIsOption DEF IsOther
<1> QED BY <1>1 DEF ReadingStep

LEMMA StepLast ==
  ASSUME NEW m, NEW v, Len(v) \in Nat, NEW f, NEW k \in Nat, IsOther(v, k), ~m.gnu
  PROVE  ReadingStep(m, v, f, k) =
           [options |-> <<>>, others |-> Rest(v, k), ok |-> TRUE]
<1>1. k <= Len(v) /\ ~(k > Len(v)) /\ ~IsOption(v[k]) /\ ~IsDashDash(v[k])
  BY DashDashIsOption DEF IsOther
<1> QED BY <1>1 DEF ReadingStep

LEMMA StepEnd ==
  ASSUME NEW m, NEW v, Len(v) \in Nat, NEW f, NEW k \in Nat, IsEnd(v, k)
  PROVE  ReadingStep(m, v, f, k) =
           [options |-> <<>>, others |-> Rest(v, k + 1), ok |-> TRUE]
<1>1. k <= Len(v) /\ ~(k > Len(v)) /\ IsOption(v[k]) /\ IsDashDash(v[k])
  BY DashDashIsOption DEF IsEnd
<1> QED BY <1>1 DEF ReadingStep

LEMMA StepChoice ==
  ASSUME NEW m, NEW v, Len(v) \in Nat, NEW f, NEW k \in Nat, IsChoice(v, k), Meaning(m, v, k).ok
  PROVE  ReadingStep(m, v, f, k) =
           Behind(Meaning(m, v, k).options, f[k + Meaning(m, v, k).length])
<1>1. k <= Len(v) /\ ~(k > Len(v)) /\ IsOption(v[k]) /\ ~IsDashDash(v[k])
  BY DashDashIsOption DEF IsChoice
<1> QED BY <1>1 DEF ReadingStep

LEMMA StepIllegal ==
  ASSUME NEW m, NEW v, Len(v) \in Nat, NEW f, NEW k \in Nat, IsChoice(v, k), ~Meaning(m, v, k).ok
  PROVE  ReadingStep(m, v, f, k) =
           [options |-> Meaning(m, v, k).options, others |-> <<>>, ok |-> FALSE]
<1>1. k <= Len(v) /\ ~(k > Len(v)) /\ IsOption(v[k]) /\ ~IsDashDash(v[k])
  BY DashDashIsOption DEF IsChoice
<1> QED BY <1>1 DEF ReadingStep

LEMMA PlaceCases ==
  ASSUME NEW v \in Seq(Text), NEW k \in 1 .. Len(v) + 2
  PROVE  k > Len(v) \/ IsOther(v, k) \/ IsEnd(v, k) \/ IsChoice(v, k)
BY DEF IsOther, IsEnd, IsChoice

LEMMA MoreOptions ==
  ASSUME NEW r \in ReadingType, NEW opts \in Seq(Option)
  PROVE  Behind(opts, r) \in ReadingType
<1>1. opts \o r.options \in Seq(Option)
  BY ConcatProperties DEF ReadingType
<1> QED BY <1>1 DEF ReadingType, Behind

LEMMA MoreOthers ==
  ASSUME NEW r \in ReadingType, NEW texts \in Seq(Text)
  PROVE  Passed(texts, r) \in ReadingType
<1>1. texts \o r.others \in Seq(Text)
  BY ConcatProperties DEF ReadingType
<1> QED BY <1>1 DEF ReadingType, Passed

LEMMA ReadingStepType ==
  ASSUME NEW m \in Mode, NEW v \in Seq(Text), NEW f, NEW k \in 1 .. Len(v) + 2,
         k <= Len(v) => f[k + 1] \in ReadingType /\ f[k + 2] \in ReadingType
  PROVE  ReadingStep(m, v, f, k) \in ReadingType
<1>0. <<>> \in Seq(Option) /\ <<>> \in Seq(Text) /\ k \in Nat /\ Len(v) \in Nat
  BY EmptySeq
<1>1. CASE k > Len(v)
  <2>1. ReadingStep(m, v, f, k) = [options |-> <<>>, others |-> <<>>, ok |-> TRUE]
    BY <1>0, <1>1, StepBehind
  <2> QED BY <1>0, <2>1 DEF ReadingType
<1>2. CASE IsOther(v, k)
  <2>1. k <= Len(v) /\ v[k] \in Text /\ <<v[k]>> \in Seq(Text) /\ Rest(v, k) \in Seq(Text)
    <3>1. k \in 1 .. Len(v) /\ k \in Nat \ {0}
      BY <1>2 DEF IsOther
    <3>2. Rest(v, k) \in Seq(Text)
      BY <3>1, RestType
    <3> QED BY <3>1, <3>2
  <2>2. CASE m.gnu
    <3>1. ReadingStep(m, v, f, k) = Passed(<<v[k]>>, f[k + 1])
      BY <1>0, <1>2, <2>2, StepOther
    <3> QED BY <2>1, <3>1, MoreOthers
  <2>3. CASE ~m.gnu
    <3>1. ReadingStep(m, v, f, k) = [options |-> <<>>, others |-> Rest(v, k), ok |-> TRUE]
      BY <1>0, <1>2, <2>3, StepLast
    <3> QED BY <1>0, <2>1, <3>1 DEF ReadingType
  <2> QED BY <2>2, <2>3
<1>3. CASE IsEnd(v, k)
  <2>1. Rest(v, k + 1) \in Seq(Text)
    BY RestType
  <2>2. ReadingStep(m, v, f, k) = [options |-> <<>>, others |-> Rest(v, k + 1), ok |-> TRUE]
    BY <1>0, <1>3, StepEnd
  <2> QED BY <1>0, <2>1, <2>2 DEF ReadingType
<1>4. CASE IsChoice(v, k)
  <2> DEFINE M == Meaning(m, v, k)
  <2>1. M \in MeaningType
    BY <1>4, MeaningHasType DEF IsChoice
  <2>2. M.options \in Seq(Option) /\ M.length \in {1, 2} /\ M.ok \in BOOLEAN
    BY <2>1 DEF MeaningType
  <2>3. f[k + M.length] \in ReadingType
    <3>1. k <= Len(v)
      BY <1>4 DEF IsChoice
    <3> QED BY <2>2, <3>1
  <2>4. CASE M.ok
    <3>1. ReadingStep(m, v, f, k) = Behind(M.options, f[k + M.length])
      BY <1>0, <1>4, <2>4, StepChoice
    <3> QED BY <2>2, <2>3, <3>1, MoreOptions
  <2>5. CASE ~M.ok
    <3>1. ReadingStep(m, v, f, k) = [options |-> M.options, others |-> <<>>, ok |-> FALSE]
      BY <1>0, <1>4, <2>5, StepIllegal
    <3> QED BY <1>0, <2>2, <3>1 DEF ReadingType
  <2> QED BY <2>4, <2>5
<1> QED BY <1>1, <1>2, <1>3, <1>4, PlaceCases

LEMMA ReadingStepLocal ==
  ASSUME NEW m \in Mode, NEW v \in Seq(Text), NEW g, NEW h, NEW k \in 1 .. Len(v) + 2,
         \A i \in k + 1 .. Len(v) + 2 : g[i] = h[i]
  PROVE  ReadingStep(m, v, g, k) = ReadingStep(m, v, h, k)
<1>0. k \in Nat /\ Len(v) \in Nat
  OBVIOUS
<1>1. CASE k > Len(v)
  <2>1. \A f : ReadingStep(m, v, f, k) = [options |-> <<>>, others |-> <<>>, ok |-> TRUE]
    BY <1>0, <1>1, StepBehind
  <2> QED BY <2>1
<1>2. CASE IsOther(v, k) /\ m.gnu
  <2>1. g[k + 1] = h[k + 1]
    BY <1>2 DEF IsOther
  <2>2. \A f : ReadingStep(m, v, f, k) = Passed(<<v[k]>>, f[k + 1])
    BY <1>0, <1>2, StepOther
  <2> QED BY <2>1, <2>2
<1>3. CASE IsOther(v, k) /\ ~m.gnu
  <2>1. \A f : ReadingStep(m, v, f, k) =
                 [options |-> <<>>, others |-> Rest(v, k), ok |-> TRUE]
    BY <1>0, <1>3, StepLast
  <2> QED BY <2>1
<1>4. CASE IsEnd(v, k)
  <2>1. \A f : ReadingStep(m, v, f, k) =
                 [options |-> <<>>, others |-> Rest(v, k + 1), ok |-> TRUE]
    BY <1>0, <1>4, StepEnd
  <2> QED BY <2>1
<1> DEFINE M == Meaning(m, v, k)
<1>5. CASE IsChoice(v, k) /\ M.ok
  <2>1. M \in MeaningType
    BY <1>5, MeaningHasType DEF IsChoice
  <2>2. M.length \in {1, 2} /\ k <= Len(v)
    BY <1>5, <2>1 DEF MeaningType, IsChoice
  <2>3. g[k + M.length] = h[k + M.length]
    <3> HIDE DEF M
    <3>1. k + M.length \in k + 1 .. Len(v) + 2
      BY <2>2
    <3> QED BY <3>1
  <2>4. \A f : ReadingStep(m, v, f, k) = Behind(M.options, f[k + M.length])
    BY <1>0, <1>5, StepChoice
  <2> HIDE DEF M
  <2> QED BY <2>3, <2>4
<1>6. CASE IsChoice(v, k) /\ ~M.ok
  <2>1. \A f : ReadingStep(m, v, f, k) =
                 [options |-> M.options, others |-> <<>>, ok |-> FALSE]
    BY <1>0, <1>6, StepIllegal
  <2> QED BY <2>1
<1> QED BY <1>1, <1>2, <1>3, <1>4, <1>5, <1>6, PlaceCases

LEMMA ReadingsEquation ==
  ASSUME NEW m \in Mode, NEW v \in Seq(Text)
  PROVE  /\ Readings(m, v) \in [1 .. Len(v) + 2 -> ReadingType]
         /\ \A k \in 1 .. Len(v) + 2 :
              Readings(m, v)[k] = ReadingStep(m, v, Readings(m, v), k)
<1> DEFINE b == Len(v) + 2
           F == [1 .. b -> ReadingType]
           G == [k \in 1 .. b |-> [f \in F |-> ReadingStep(m, v, f, k)]]
           Is(h) == h = [k \in 1 .. b |-> ReadingStep(m, v, h, k)]
<1>1. b \in Nat
  OBVIOUS
<1>2. ReadingType # {}
  <2>1. [options |-> <<>>, others |-> <<>>, ok |-> TRUE] \in ReadingType
    BY EmptySeq DEF ReadingType
  <2> QED BY <2>1
<1>3. \A k \in 1 .. b, f \in F : G[k][f] = ReadingStep(m, v, f, k)
  OBVIOUS
<1>4. G \in [1 .. b -> [F -> ReadingType]]
  <2> SUFFICES ASSUME NEW k \in 1 .. b, NEW f \in F
               PROVE  ReadingStep(m, v, f, k) \in ReadingType
    OBVIOUS
  <2>1. k <= Len(v) => f[k + 1] \in ReadingType /\ f[k + 2] \in ReadingType
    OBVIOUS
  <2> QED BY <2>1, ReadingStepType
<1>5. ASSUME NEW k \in 1 .. b, NEW g \in F, NEW h \in F,
             \A i \in k + 1 .. b : g[i] = h[i]
      PROVE  G[k][g] = G[k][h]
  <2>1. ReadingStep(m, v, g, k) = ReadingStep(m, v, h, k)
    BY <1>5, ReadingStepLocal
  <2> HIDE DEF G
  <2> QED BY <1>3, <2>1
<1> HIDE DEF G
<1>6. PICK f \in F : \A k \in 1 .. b : f[k] = G[k][f]
  <2>1. \A k \in 1 .. b : \A g, h \in F :
          (\A i \in k + 1 .. b : g[i] = h[i]) => G[k][g] = G[k][h]
    BY <1>5
  <2>2. StepsDownwards(b, ReadingType, G)
    BY <1>1, <1>2, <1>4, <2>1 DEF StepsDownwards
  <2> HIDE DEF b
  <2> QED BY <2>2, RecursionDownwards
<1>7. Is(f)
  BY <1>3, <1>6
<1>8. Readings(m, v) = CHOOSE h : Is(h)
  BY DEF Readings, ReadingStep
<1> DEFINE R == Readings(m, v)
<1>9. Is(R)
  <2> HIDE DEF Is
  <2> QED BY <1>7, <1>8
<1>10. DOMAIN R = 1 .. b /\ \A k \in 1 .. b : R[k] = ReadingStep(m, v, R, k)
  <2> HIDE DEF R
  <2> QED BY <1>9
<1> HIDE DEF R
<1> DEFINE T == {i \in 1 .. b - 1 : R[i] \in ReadingType /\ R[i + 1] \in ReadingType}
<1>11. \A k \in 1 .. b - 1 : k \in T
  <2>1. b - 1 \in T
    <3>1. ReadingStep(m, v, R, b) \in ReadingType /\ ReadingStep(m, v, R, b - 1) \in ReadingType
      BY ReadingStepType
    <3> QED BY <3>1, <1>10
  <2>2. ASSUME NEW k \in 1 + 1 .. b - 1, k \in T PROVE k - 1 \in T
    <3>1. k - 1 \in 1 .. b - 1 /\ R[k - 1 + 1] \in ReadingType /\ R[k - 1 + 2] \in ReadingType
      BY <2>2
    <3>2. ReadingStep(m, v, R, k - 1) \in ReadingType
      BY <3>1, ReadingStepType
    <3> QED BY <3>1, <3>2, <1>10
  <2>3. 1 \in Int /\ b - 1 \in Int
    OBVIOUS
  <2> HIDE DEF T, b
  <2> QED BY <2>1, <2>2, <2>3, Downwards
<1>12. \A k \in 1 .. b : R[k] \in ReadingType
  <2> SUFFICES ASSUME NEW k \in 1 .. b PROVE R[k] \in ReadingType
    OBVIOUS
  <2>1. CASE k = b
    <3>1. b - 1 \in T
      BY <1>11
    <3> QED BY <3>1, <2>1
  <2>2. CASE k # b
    <3>1. k \in T
      BY <1>11, <2>2
    <3> QED BY <3>1
  <2> QED BY <2>1, <2>2
<1>13. R \in [1 .. b -> ReadingType]
  BY <1>9, <1>12
<1> QED BY <1>10, <1>13 DEF R

-----------------------------------------------------------------------------
(* What is read does not depend on what is not read.                       *)

LEMMA BehindBehind ==
  ASSUME NEW a \in Seq(Option), NEW b \in Seq(Option), NEW r \in ReadingType
  PROVE  Behind(a, Behind(b, r)) = Behind(a \o b, r)
<1> DEFINE c == r.options
<1>1. c \in Seq(Option)
  BY DEF ReadingType
<1> HIDE DEF c
<1>2. (a \o b) \o c = a \o (b \o c)
  BY <1>1, ConcatAssociative
<1> QED BY <1>2 DEF Behind, c

LEMMA PassedBehind ==
  ASSUME NEW texts, NEW opts, NEW r
  PROVE  Passed(texts, Behind(opts, r)) = Behind(opts, Passed(texts, r))
BY DEF Behind, Passed

LEMMA NothingBehind ==
  ASSUME NEW r \in ReadingType
  PROVE  Behind(<<>>, r) = r /\ Passed(<<>>, r) = r
<1>1. r.options \in Seq(Option) /\ r.others \in Seq(Text)
  BY DEF ReadingType
<1>2. <<>> \o r.options = r.options /\ <<>> \o r.others = r.others
  BY <1>1, ConcatEmptySeq
<1>3. r = [options |-> r.options, others |-> r.others, ok |-> r.ok]
  BY DEF ReadingType
<1> QED BY <1>2, <1>3 DEF Behind, Passed

LEMMA SameRest ==
  ASSUME NEW S, NEW u \in Seq(S), NEW v \in Seq(S), NEW k \in Nat \ {0},
         Len(u) = Len(v), \A i \in k .. Len(v) : u[i] = v[i]
  PROVE  Rest(u, k) = Rest(v, k)
<1>0. /\ Rest(u, k) \in Seq(S)
      /\ Len(Rest(u, k)) = IF k <= Len(u) THEN Len(u) - k + 1 ELSE 0
      /\ \A i \in 1 .. Len(u) - k + 1 : Rest(u, k)[i] = u[k + i - 1]
  BY RestType
<1>1. /\ Rest(v, k) \in Seq(S)
      /\ Len(Rest(v, k)) = IF k <= Len(v) THEN Len(v) - k + 1 ELSE 0
      /\ \A i \in 1 .. Len(v) - k + 1 : Rest(v, k)[i] = v[k + i - 1]
  BY RestType
<1>2. ASSUME NEW i \in 1 .. Len(Rest(v, k)) PROVE Rest(u, k)[i] = Rest(v, k)[i]
  <2>1. i \in 1 .. Len(v) - k + 1 /\ k + i - 1 \in k .. Len(v)
    BY <1>1
  <2> QED BY <1>0, <1>1, <2>1
<1>3. Len(Rest(u, k)) = Len(Rest(v, k))
  BY <1>0, <1>1
<1> QED BY <1>0, <1>1, <1>2, <1>3, SeqEqual

LEMMA SameStep ==
  ASSUME NEW m \in Mode, NEW u \in Seq(Text), NEW v \in Seq(Text), Len(u) = Len(v),
         NEW f, NEW g, NEW k \in 1 .. Len(v) + 2,
         \A i \in k .. Len(v) : u[i] = v[i],
         \A i \in k + 1 .. Len(v) + 2 : f[i] = g[i]
  PROVE  ReadingStep(m, u, f, k) = ReadingStep(m, v, g, k)
<1>1. k \in Nat \ {0} /\ k + 1 \in Nat \ {0} /\ Len(u) \in Nat
  OBVIOUS
<1>2. Rest(u, k) = Rest(v, k) /\ Rest(u, k + 1) = Rest(v, k + 1)
  <2>1. \A i \in k + 1 .. Len(v) : u[i] = v[i]
    OBVIOUS
  <2> QED BY <1>1, <2>1, SameRest
<1>3. ReadingStep(m, u, f, k) = ReadingStep(m, v, f, k)
  <2>1. CASE k > Len(v)
    BY <2>1 DEF ReadingStep
  <2>2. CASE k <= Len(v)
    <3>1. u[k] = v[k] /\ NextArg(u, k) = NextArg(v, k)
      BY <2>2 DEF NextArg
    <3>2. Meaning(m, u, k) = Meaning(m, v, k)
      BY <3>1 DEF Meaning
    <3> QED BY <1>2, <3>1, <3>2 DEF ReadingStep
  <2> QED BY <2>1, <2>2
<1>4. ReadingStep(m, v, f, k) = ReadingStep(m, v, g, k)
  BY ReadingStepLocal
<1> QED BY <1>3, <1>4

\* What is said from a place on depends on what stands from there on.
LEMMA SuffixReads ==
  ASSUME NEW m \in Mode, NEW u \in Seq(Text), NEW v \in Seq(Text), Len(u) = Len(v),
         NEW a \in 1 .. Len(v) + 2, \A i \in a .. Len(v) : u[i] = v[i]
  PROVE  Readings(m, u)[a] = Readings(m, v)[a]
<1> DEFINE f == Readings(m, u)
           g == Readings(m, v)
           b == Len(v) + 2
           T == {k \in a .. b : \A i \in k .. b : f[i] = g[i]}
<1>1. \A k \in 1 .. b : f[k] = ReadingStep(m, u, f, k) /\ g[k] = ReadingStep(m, v, g, k)
  BY ReadingsEquation
<1>2. a \in Nat /\ b \in Nat /\ a <= b /\ 1 <= a /\ Len(v) \in Nat
  OBVIOUS
<1> HIDE DEF f, g
<1>3. ASSUME NEW k \in a .. b, \A i \in k + 1 .. b : f[i] = g[i] PROVE f[k] = g[k]
  <2>1. k \in 1 .. Len(v) + 2 /\ k \in 1 .. b
    BY <1>2
  <2>2. \A i \in k .. Len(v) : u[i] = v[i]
    BY <1>2
  <2>3. \A i \in k + 1 .. Len(v) + 2 : f[i] = g[i]
    BY <1>3
  <2>4. ReadingStep(m, u, f, k) = ReadingStep(m, v, g, k)
    BY <2>1, <2>2, <2>3, SameStep
  <2> QED BY <1>1, <2>1, <2>4
<1>4. b \in T
  <2>1. b \in a .. b /\ \A i \in b + 1 .. b : f[i] = g[i]
    BY <1>2
  <2>2. f[b] = g[b]
    BY <2>1, <1>3
  <2>3. \A i \in b .. b : i = b
    BY <1>2
  <2> QED BY <2>1, <2>2, <2>3
<1>5. ASSUME NEW k \in a + 1 .. b, k \in T PROVE k - 1 \in T
  <2>1. k - 1 \in a .. b /\ \A i \in (k - 1) + 1 .. b : f[i] = g[i]
    BY <1>2, <1>5
  <2>2. f[k - 1] = g[k - 1]
    BY <2>1, <1>3
  <2>3. \A i \in k - 1 .. b : i = k - 1 \/ i \in k .. b
    BY <1>2
  <2> QED BY <2>1, <2>2, <2>3
<1>6. a \in T
  <2>1. a \in Int /\ b \in Int /\ a \in a .. b
    BY <1>2
  <2> HIDE DEF T, b
  <2>2. \A k \in a .. b : k \in T
    BY <1>4, <1>5, <2>1, Downwards
  <2> QED BY <2>1, <2>2
<1> QED BY <1>2, <1>6 DEF f, g

LEMMA ConsSubSeq ==
  ASSUME NEW S, NEW v \in Seq(S), NEW k \in Nat, NEW j \in Nat, 1 <= k, k <= j, j <= Len(v)
  PROVE  <<v[k]>> \o SubSeq(v, k + 1, j) = SubSeq(v, k, j)
<1>1. \A i \in 1 .. Len(v) : v[i] \in S
  BY ElementOfSeq
<1>2. /\ SubSeq(v, k, j) \in Seq(S) /\ SubSeq(v, k + 1, j) \in Seq(S)
      /\ Len(SubSeq(v, k, j)) = j - k + 1 /\ Len(SubSeq(v, k + 1, j)) = j - k
      /\ \A i \in 1 .. j - k + 1 : SubSeq(v, k, j)[i] = v[k + i - 1]
      /\ \A i \in 1 .. j - k : SubSeq(v, k + 1, j)[i] = v[k + 1 + i - 1]
  <2>1. /\ SubSeq(v, k, j) \in Seq(S)
        /\ Len(SubSeq(v, k, j)) = IF k <= j THEN j - k + 1 ELSE 0
        /\ \A i \in 1 .. j - k + 1 : SubSeq(v, k, j)[i] = v[k + i - 1]
    BY <1>1, SubSeqProperties
  <2>2. /\ SubSeq(v, k + 1, j) \in Seq(S)
        /\ Len(SubSeq(v, k + 1, j)) = IF k + 1 <= j THEN j - (k + 1) + 1 ELSE 0
        /\ \A i \in 1 .. j - (k + 1) + 1 : SubSeq(v, k + 1, j)[i] = v[k + 1 + i - 1]
    BY <1>1, SubSeqProperties
  <2> QED BY <2>1, <2>2
<1> DEFINE s == SubSeq(v, k, j)
           t == SubSeq(v, k + 1, j)
           e == <<v[k]>>
<1>3. e \in Seq(S) /\ Len(e) = 1 /\ e[1] = v[k]
  BY <1>1
<1> HIDE DEF s, t, e
<1>4. e \o t \in Seq(S) /\ Len(e \o t) = 1 + Len(t)
      /\ \A i \in 1 .. 1 + Len(t) : (e \o t)[i] = IF i <= 1 THEN e[i] ELSE t[i - 1]
  <2>1. t \in Seq(S)
    BY <1>2 DEF t
  <2>2. e \o t \in Seq(S) /\ Len(e \o t) = Len(e) + Len(t)
        /\ \A i \in 1 .. Len(e) + Len(t) : (e \o t)[i] = IF i <= Len(e) THEN e[i] ELSE t[i - Len(e)]
    BY <2>1, <1>3, ConcatProperties
  <2> QED BY <2>2, <1>3
<1>5. ASSUME NEW i \in 1 .. Len(s) PROVE (e \o t)[i] = s[i]
  <2>1. CASE i = 1
    BY <2>1, <1>2, <1>3, <1>4 DEF s, t
  <2>2. CASE i # 1
    <3>1. i - 1 \in 1 .. j - k /\ i \in 1 .. j - k + 1 /\ i \in 1 .. 1 + Len(t)
      BY <2>2, <1>2 DEF s, t
    <3>2. (e \o t)[i] = t[i - 1]
      BY <3>1, <1>4, <2>2
    <3>3. t[i - 1] = v[k + 1 + (i - 1) - 1] /\ s[i] = v[k + i - 1]
      BY <3>1, <1>2 DEF s, t
    <3> QED BY <3>2, <3>3
  <2> QED BY <2>1, <2>2
<1>6. Len(e \o t) = Len(s) /\ s \in Seq(S)
  BY <1>2, <1>4 DEF s, t
<1> QED BY <1>4, <1>5, <1>6, SeqEqual DEF s, t, e

\* Arguments that are no options are passed over one by one.
LEMMA NonopsRead ==
  ASSUME NEW m \in Mode, NEW v \in Seq(Text), NEW p \in Nat \ {0}, NEW a \in Nat,
         p <= a, a <= Len(v) + 1, \A k \in p .. a - 1 : IsOther(v, k), p < a => m.gnu
  PROVE  Readings(m, v)[p] = Passed(SubSeq(v, p, a - 1), Readings(m, v)[a])
<1> DEFINE f == Readings(m, v)
           T == {k \in p .. a : f[k] = Passed(SubSeq(v, k, a - 1), f[a])}
<1>1. /\ \A k \in 1 .. Len(v) + 2 : f[k] = ReadingStep(m, v, f, k)
      /\ f[a] \in ReadingType
  BY ReadingsEquation
<1> HIDE DEF f
<1>2. a \in T
  <2>1. SubSeq(v, a, a - 1) = <<>>
    BY SubSeqEmpty
  <2>2. a \in p .. a
    OBVIOUS
  <2>3. f[a] = Passed(<<>>, f[a])
    BY <1>1, NothingBehind
  <2> QED BY <2>1, <2>2, <2>3
<1>3. ASSUME NEW k \in p + 1 .. a, k \in T PROVE k - 1 \in T
  <2>1. k - 1 \in 1 .. Len(v) /\ IsOther(v, k - 1) /\ m.gnu /\ k - 1 \in Nat /\ Len(v) \in Nat
        /\ k - 1 \in p .. a - 1 /\ k - 1 \in 1 .. Len(v) + 2
    OBVIOUS
  <2>2. f[k - 1] = Passed(<<v[k - 1]>>, f[k - 1 + 1])
    BY <1>1, <2>1, StepOther
  <2>3. k - 1 + 1 = k
    OBVIOUS
  <2>4. f[k - 1] = Passed(<<v[k - 1]>>, Passed(SubSeq(v, k, a - 1), f[a]))
    BY <1>3, <2>2, <2>3
  <2>5. <<v[k - 1]>> \o SubSeq(v, k, a - 1) = SubSeq(v, k - 1, a - 1)
    <3>1. 1 <= k - 1 /\ k - 1 <= a - 1 /\ a - 1 <= Len(v) /\ a - 1 \in Nat
      OBVIOUS
    <3>2. <<v[k - 1]>> \o SubSeq(v, k - 1 + 1, a - 1) = SubSeq(v, k - 1, a - 1)
      BY <3>1, <2>1, ConsSubSeq
    <3> QED BY <3>2, <2>3
  <2>6. Passed(<<v[k - 1]>>, Passed(SubSeq(v, k, a - 1), f[a]))
          = Passed(<<v[k - 1]>> \o SubSeq(v, k, a - 1), f[a])
    <3>1. <<v[k - 1]>> \in Seq(Text) /\ SubSeq(v, k, a - 1) \in Seq(Text) /\ f[a].others \in Seq(Text)
      <4>1. v[k - 1] \in Text
        BY <2>1
      <4>2. SubSeq(v, k, a - 1) \in Seq(Text)
        <5>1. \A i \in k .. a - 1 : v[i] \in Text
          OBVIOUS
        <5> QED BY <5>1, SubSeqProperties
      <4> QED BY <4>1, <4>2, <1>1 DEF ReadingType
    <3> DEFINE e == <<v[k - 1]>>
               s == SubSeq(v, k, a - 1)
               o == f[a].others
    <3> HIDE DEF e, s, o
    <3>2. e \in Seq(Text) /\ s \in Seq(Text) /\ o \in Seq(Text)
      BY <3>1 DEF e, s, o
    <3>3. (e \o s) \o o = e \o (s \o o)
      BY <3>2, ConcatAssociative, SMTT(60)
    <3>4. Passed(e, Passed(s, f[a])) = Passed(e \o s, f[a])
      BY <3>3 DEF Passed, o
    <3> QED BY <3>4 DEF e, s
  <2>7. k - 1 \in p .. a
    OBVIOUS
  <2> QED BY <2>4, <2>5, <2>6, <2>7
<1>4. p \in T
  <2>1. p \in Int /\ a \in Int /\ p \in p .. a
    OBVIOUS
  <2> HIDE DEF T
  <2>2. \A k \in p .. a : k \in T
    BY <1>2, <1>3, <2>1, Downwards
  <2> QED BY <2>1, <2>2
<1> QED BY <1>4 DEF f

-----------------------------------------------------------------------------
(* An option that takes no argument up does not depend on the next one.    *)

LEMMA ArgIsThere ==
  ASSUME NEW check, NEW arg, NEW attached, check_arg(check, arg, attached) = "ARG_OK"
  PROVE  arg # NoArg
<1>1. NoArg[1] \notin Numbers
  BY OptionAssumption DEF Atom, NoArg
<1> QED BY <1>1 DEF check_arg

\* Two readings that differ at most in an argument that the option would take up.
Alike(r, s) ==
  r = s \/ (r.detached /\ s.detached /\ {r.verdict, s.verdict} \subseteq {"ARG_OK", "ARG_ILLEGAL"})

LEMMA ReadAsAlike ==
  ASSUME NEW m, NEW name, NEW d, NEW attached, NEW next, NEW other
  PROVE  Alike(ReadAs(m, name, d, attached, next), ReadAs(m, name, d, attached, other))
<1> DEFINE r == ReadAs(m, name, d, attached, next)
           s == ReadAs(m, name, d, attached, other)
<1>1. CASE attached # NoArg \/ d = 0
  <2>1. r = s
    BY <1>1 DEF ReadAs
  <2> QED BY <2>1 DEF Alike
<1>2. CASE ~(attached # NoArg \/ d = 0)
  <2> DEFINE check == m.usage[d].check_arg
             Says(arg) == check_arg(check, arg, FALSE)
  <2>1. r.detached = TRUE /\ s.detached = TRUE /\ r.verdict = Says(next) /\ s.verdict = Says(other)
    BY <1>2 DEF ReadAs
  <2>2. CASE check = "None"
    <3>1. Says(next) = "ARG_NONE" /\ Says(other) = "ARG_NONE"
      BY <2>2 DEF check_arg
    <3>2. r = s
      BY <1>2, <3>1 DEF ReadAs
    <3> QED BY <3>2 DEF Alike
  <2>3. CASE check = "Optional"
    <3>1. Says(next) = "ARG_IGNORE" /\ Says(other) = "ARG_IGNORE"
      BY <2>3 DEF check_arg
    <3>2. r = s
      BY <1>2, <3>1 DEF ReadAs
    <3> QED BY <3>2 DEF Alike
  <2>4. CASE check \notin {"None", "Optional"}
    <3>1. {Says(next), Says(other)} \subseteq {"ARG_OK", "ARG_ILLEGAL"}
      BY <2>4 DEF check_arg
    <3> HIDE DEF r, s, Says
    <3>2. r.detached /\ s.detached /\ {r.verdict, s.verdict} \subseteq {"ARG_OK", "ARG_ILLEGAL"}
      BY <2>1, <3>1
    <3>3. Alike(r, s)
      BY <3>2 DEF Alike
    <3> QED BY <3>3 DEF r, s
  <2> QED BY <2>2, <2>3, <2>4
<1> QED BY <1>1, <1>2

LEMMA AllReadAlike ==
  ASSUME NEW m \in Mode, NEW t \in Text, IsOption(t), NEW next \in Arg, NEW other \in Arg
  PROVE  \A c \in 1 .. Len(AllRead(m, t, next)) :
           Alike(AllRead(m, t, next)[c], AllRead(m, t, other)[c])
<1>1. /\ Len(AllRead(m, t, next)) = IF ReadLong(m, t) THEN 1 ELSE Len(t) - 1
      /\ Len(t) \in Nat
  BY AllReadType DEF Text
<1>2. CASE ReadLong(m, t)
  <2> DEFINE name == Rest(t, IF t[2] = "-" THEN 3 ELSE 2)
             r(n) == ReadAs(m, t, Described(m, LongMatch(m, name)), Attached(name), n)
  <2>1. AllRead(m, t, next) = <<r(next)>> /\ AllRead(m, t, other) = <<r(other)>>
    BY <1>2 DEF AllRead
  <2>2. Alike(r(next), r(other))
    BY ReadAsAlike
  <2>3. AllRead(m, t, next)[1] = r(next) /\ AllRead(m, t, other)[1] = r(other)
    <3> HIDE DEF r
    <3> QED BY <2>1
  <2> HIDE DEF r
  <2>4. \A c \in 1 .. Len(AllRead(m, t, next)) : c = 1
    BY <1>1, <1>2
  <2> QED BY <2>2, <2>3, <2>4
<1>3. CASE ~ReadLong(m, t)
  <2> DEFINE r(c, n) ==
               ReadAs(m, Rest(t, c + 1), Described(m, ShortMatch(m, t[c + 1])),
                      IF c + 1 < Len(t) THEN Rest(t, c + 2) ELSE NoArg, n)
  <2>1. /\ AllRead(m, t, next) = [c \in 1 .. Len(t) - 1 |-> r(c, next)]
        /\ AllRead(m, t, other) = [c \in 1 .. Len(t) - 1 |-> r(c, other)]
    BY <1>3 DEF AllRead
  <2>2. \A c : Alike(r(c, next), r(c, other))
    BY ReadAsAlike
  <2> HIDE DEF r
  <2>3. Len(AllRead(m, t, next)) = Len(t) - 1
    BY <1>1, <1>3
  <2> QED BY <2>1, <2>2, <2>3
<1> QED BY <1>2, <1>3

\* The steps through the options of an argument, one lemma for each verdict.

LEMMA MeaningAtEnd ==
  ASSUME NEW read \in Seq(Read)
  PROVE  Meanings(read)[Len(read) + 1] = [options |-> <<>>, length |-> 1, ok |-> TRUE]
<1>1. Len(read) + 1 \in 1 .. Len(read) + 1 /\ Len(read) + 1 > Len(read)
  OBVIOUS
<1>2. Meanings(read)[Len(read) + 1] = MeaningStep(read, Meanings(read), Len(read) + 1)
  BY <1>1, MeaningsEquation
<1>3. \A f : MeaningStep(read, f, Len(read) + 1) = [options |-> <<>>, length |-> 1, ok |-> TRUE]
  BY <1>1 DEF MeaningStep
<1> QED BY <1>2, <1>3

LEMMA MeaningOfOk ==
  ASSUME NEW read \in Seq(Read), NEW c \in 1 .. Len(read), read[c].verdict = "ARG_OK"
  PROVE  Meanings(read)[c] = [options |-> <<read[c].option>>,
                              length |-> IF read[c].detached THEN 2 ELSE 1, ok |-> TRUE]
<1>1. c \in 1 .. Len(read) + 1 /\ ~(c > Len(read))
  OBVIOUS
<1>2. Meanings(read)[c] = MeaningStep(read, Meanings(read), c)
  BY <1>1, MeaningsEquation
<1>3. \A f : MeaningStep(read, f, c) = [options |-> <<read[c].option>>,
                              length |-> IF read[c].detached THEN 2 ELSE 1, ok |-> TRUE]
  BY <1>1 DEF MeaningStep
<1> QED BY <1>2, <1>3

LEMMA MeaningOfIllegal ==
  ASSUME NEW read \in Seq(Read), NEW c \in 1 .. Len(read), read[c].verdict = "ARG_ILLEGAL"
  PROVE  Meanings(read)[c] = [options |-> <<>>, length |-> 1, ok |-> FALSE]
<1>1. c \in 1 .. Len(read) + 1 /\ ~(c > Len(read))
  OBVIOUS
<1>2. Meanings(read)[c] = MeaningStep(read, Meanings(read), c)
  BY <1>1, MeaningsEquation
<1>3. \A f : MeaningStep(read, f, c) = [options |-> <<>>, length |-> 1, ok |-> FALSE]
  BY <1>1 DEF MeaningStep
<1> QED BY <1>2, <1>3

LEMMA MeaningOfUndescribed ==
  ASSUME NEW read \in Seq(Read), NEW c \in 1 .. Len(read), read[c].verdict = "undescribed"
  PROVE  Meanings(read)[c] = Meanings(read)[c + 1]
<1>1. c \in 1 .. Len(read) + 1 /\ ~(c > Len(read))
  OBVIOUS
<1>2. Meanings(read)[c] = MeaningStep(read, Meanings(read), c)
  BY <1>1, MeaningsEquation
<1>3. \A f : MeaningStep(read, f, c) = f[c + 1]
  BY <1>1 DEF MeaningStep
<1> QED BY <1>2, <1>3

LEMMA MeaningOfFlag ==
  ASSUME NEW read \in Seq(Read), NEW c \in 1 .. Len(read),
         read[c].verdict \in {"ARG_NONE", "ARG_IGNORE"}
  PROVE  Meanings(read)[c] = More(<<read[c].option>>, Meanings(read)[c + 1])
<1>1. c \in 1 .. Len(read) + 1 /\ ~(c > Len(read))
  OBVIOUS
<1>2. Meanings(read)[c] = MeaningStep(read, Meanings(read), c)
  BY <1>1, MeaningsEquation
<1>3. \A f : MeaningStep(read, f, c) = More(<<read[c].option>>, f[c + 1])
  BY <1>1 DEF MeaningStep
<1> QED BY <1>2, <1>3

LEMMA VerdictCases ==
  ASSUME NEW read \in Seq(Read), NEW c \in 1 .. Len(read)
  PROVE  \/ read[c].verdict = "ARG_OK" \/ read[c].verdict = "ARG_ILLEGAL"
         \/ read[c].verdict = "undescribed" \/ read[c].verdict \in {"ARG_NONE", "ARG_IGNORE"}
<1>1. read[c] \in Read
  BY ElementOfSeq
<1> QED BY <1>1 DEF Read, Verdict

\* If nothing after the argument is taken up, it means the same before another one.
LEMMA MeaningsAlike ==
  ASSUME NEW r \in Seq(Read), NEW s \in Seq(Read), Len(r) = Len(s),
         \A c \in 1 .. Len(r) : Alike(r[c], s[c]),
         NEW a \in 1 .. Len(r) + 1, Meanings(r)[a].ok, Meanings(r)[a].length = 1
  PROVE  Meanings(s)[a] = Meanings(r)[a]
<1> DEFINE M == Meanings(r)
           N == Meanings(s)
           b == Len(r) + 1
           T == {c \in 1 .. b : M[c].ok /\ M[c].length = 1 => N[c] = M[c]}
<1>1. b \in Nat /\ Len(r) \in Nat
  OBVIOUS
<1>2. b \in T
  <2>1. b \in 1 .. b
    BY <1>1
  <2>2. N[b] = M[b]
    BY MeaningAtEnd
  <2> HIDE DEF M, N
  <2> QED BY <2>1, <2>2
<1>3. ASSUME NEW k \in 1 + 1 .. b, k \in T PROVE k - 1 \in T
  <2> DEFINE c == k - 1
  <2>1. c \in 1 .. Len(r) /\ c \in 1 .. Len(s) /\ c + 1 = k /\ c \in 1 .. b
    OBVIOUS
  <2>2. M[k].ok /\ M[k].length = 1 => N[k] = M[k]
    BY <1>3
  <2>10. Alike(r[c], s[c])
    BY <2>1
  <2> HIDE DEF c
  <2>3. SUFFICES ASSUME M[c].ok, M[c].length = 1 PROVE N[c] = M[c]
    BY <2>1 DEF c
  <2>4. CASE r[c].verdict = "ARG_ILLEGAL"
    <3>1. M[c].ok = FALSE
      BY <2>1, <2>4, MeaningOfIllegal
    <3> QED BY <2>3, <3>1
  <2>5. CASE r[c].verdict = "ARG_OK"
    <3>1. M[c] = [options |-> <<r[c].option>>,
                  length |-> IF r[c].detached THEN 2 ELSE 1, ok |-> TRUE]
      BY <2>1, <2>5, MeaningOfOk
    <3>2. ~r[c].detached
      <4> HIDE DEF M, N
      <4> QED BY <3>1, <2>3
    <3>3. r[c] = s[c]
      BY <3>2, <2>10 DEF Alike
    <3>4. N[c] = [options |-> <<s[c].option>>,
                  length |-> IF s[c].detached THEN 2 ELSE 1, ok |-> TRUE]
      BY <2>1, <2>5, <3>3, MeaningOfOk
    <3> HIDE DEF M, N
    <3> QED BY <3>1, <3>3, <3>4
  <2>6. CASE r[c].verdict = "undescribed"
    <3>1. r[c] = s[c]
      BY <2>6, <2>10 DEF Alike
    <3>2. M[c] = M[k]
      BY <2>1, <2>6, MeaningOfUndescribed
    <3>3. N[c] = N[k]
      BY <2>1, <2>6, <3>1, MeaningOfUndescribed
    <3> HIDE DEF M, N
    <3> QED BY <2>2, <2>3, <3>2, <3>3
  <2>7. CASE r[c].verdict \in {"ARG_NONE", "ARG_IGNORE"}
    <3>1. r[c] = s[c]
      BY <2>7, <2>10 DEF Alike
    <3>2. M[c] = More(<<r[c].option>>, M[k])
      BY <2>1, <2>7, MeaningOfFlag
    <3>3. N[c] = More(<<s[c].option>>, N[k])
      BY <2>1, <2>7, <3>1, MeaningOfFlag
    <3> HIDE DEF M, N
    <3>4. M[k].ok /\ M[k].length = 1
      BY <2>3, <3>2 DEF More
    <3> QED BY <2>2, <3>1, <3>2, <3>3, <3>4
  <2> QED BY <2>1, <2>4, <2>5, <2>6, <2>7, VerdictCases
<1>4. \A c \in 1 .. b : c \in T
  <2>1. 1 \in Int /\ b \in Int
    BY <1>1
  <2> HIDE DEF T, b
  <2> QED BY <1>2, <1>3, <2>1, Downwards
<1> QED BY <1>4

\* An argument that takes up no other means the same wherever it stands.
LEMMA MeaningElsewhere ==
  ASSUME NEW m \in Mode, NEW u \in Seq(Text), NEW v \in Seq(Text),
         NEW k \in 1 .. Len(u), NEW a \in 1 .. Len(v), u[k] = v[a], IsOption(v[a]),
         Meaning(m, v, a).ok,
         Meaning(m, v, a).length = 1 \/ NextArg(u, k) = NextArg(v, a)
  PROVE  Meaning(m, u, k) = Meaning(m, v, a)
<1>1. CASE NextArg(u, k) = NextArg(v, a)
  BY <1>1 DEF Meaning
<1>2. CASE Meaning(m, v, a).length = 1
  <2> DEFINE r == AllRead(m, v[a], NextArg(v, a))
             s == AllRead(m, v[a], NextArg(u, k))
  <2>1. v[a] \in Text /\ NextArg(v, a) \in Arg /\ NextArg(u, k) \in Arg
    BY NextArgType
  <2>2. /\ r \in Seq(Read) /\ s \in Seq(Read)
        /\ Len(r) = (IF ReadLong(m, v[a]) THEN 1 ELSE Len(v[a]) - 1)
        /\ Len(s) = (IF ReadLong(m, v[a]) THEN 1 ELSE Len(v[a]) - 1)
    BY <2>1, AllReadType
  <2>3. \A c \in 1 .. Len(r) : Alike(r[c], s[c])
    BY <2>1, AllReadAlike
  <2>4. Meaning(m, v, a) = Meanings(r)[1] /\ Meaning(m, u, k) = Meanings(s)[1]
    BY DEF Meaning
  <2> HIDE DEF r, s
  <2>5. 1 \in 1 .. Len(r) + 1 /\ Len(r) = Len(s)
    BY <2>2
  <2>6. Meanings(r)[1].ok /\ Meanings(r)[1].length = 1
    BY <1>2, <2>4
  <2>7. Meanings(s)[1] = Meanings(r)[1]
    BY <2>2, <2>3, <2>5, <2>6, MeaningsAlike, SMTT(60)
  <2> QED BY <2>4, <2>7
<1> QED BY <1>1, <1>2

-----------------------------------------------------------------------------
(* Reordering a vector does not change what it says.                       *)

\* Whatever follows behind the first p - 1 arguments of v, they say opts.
PrefixReads(m, v, p, opts) ==
  \A u \in Seq(Text) :
    Len(u) = Len(v) /\ (\A i \in 1 .. p - 1 : u[i] = v[i]) =>
      Readings(m, u)[1] = Behind(opts, Readings(m, u)[p])

\* From a on, length arguments of v stand in front of those from p on in w.
Moved(v, w, p, a, length) ==
  /\ w \in Seq(Text) /\ Len(w) = Len(v)
  /\ \A i \in 1 .. p - 1 : w[i] = v[i]
  /\ \A i \in p .. p + length - 1 : w[i] = v[a + i - p]
  /\ \A i \in p + length .. a + length - 1 : w[i] = v[i - length]
  /\ \A i \in a + length .. Len(v) : w[i] = v[i]

\* The arguments passed over between p and a.
Between(v, p, a) == SubSeq(v, p, a - 1)
PassedOver(m, v, p, a) == (\A k \in p .. a - 1 : IsOther(v, k)) /\ (p < a => m.gnu)

LEMMA NothingReads ==
  ASSUME NEW m \in Mode, NEW v \in Seq(Text)
  PROVE  PrefixReads(m, v, 1, <<>>)
<1> SUFFICES ASSUME NEW u \in Seq(Text)
             PROVE  Readings(m, u)[1] = Behind(<<>>, Readings(m, u)[1])
  BY DEF PrefixReads
<1>1. Readings(m, u)[1] \in ReadingType
  BY ReadingsEquation, SMTT(60)
<1> QED BY <1>1, NothingBehind

LEMMA PrefixMoves ==
  ASSUME NEW m, NEW v, NEW w, Len(w) = Len(v), NEW p, NEW opts,
         \A i \in 1 .. p - 1 : w[i] = v[i], PrefixReads(m, v, p, opts)
  PROVE  PrefixReads(m, w, p, opts)
BY DEF PrefixReads

\* The argument at k and those that it takes up are options that are all legal.
Says(m, v, k, more, length) ==
  /\ IsChoice(v, k) /\ k + length - 1 <= Len(v)
  /\ Meaning(m, v, k) = [options |-> more, length |-> length, ok |-> TRUE]

LEMMA ChoiceReads ==
  ASSUME NEW m \in Mode, NEW v \in Seq(Text), NEW k \in Nat,
         NEW more \in Seq(Option), NEW length \in {1, 2}, Says(m, v, k, more, length)
  PROVE  Readings(m, v)[k] = Behind(more, Readings(m, v)[k + length])
<1>1. Len(v) \in Nat /\ k \in 1 .. Len(v) + 2 /\ IsChoice(v, k) /\ Meaning(m, v, k).ok
  BY DEF IsChoice, Says
<1>2. Readings(m, v)[k] = ReadingStep(m, v, Readings(m, v), k)
  BY <1>1, ReadingsEquation
<1>3. Meaning(m, v, k).options = more /\ Meaning(m, v, k).length = length
  BY DEF Says
<1> QED BY <1>1, <1>2, <1>3, StepChoice

\* What an argument says does not depend on where it stands.
LEMMA SaysElsewhere ==
  ASSUME NEW m \in Mode, NEW u \in Seq(Text), NEW v \in Seq(Text),
         NEW k \in Nat \ {0}, NEW a \in Nat,
         NEW more \in Seq(Option), NEW length \in {1, 2}, Says(m, v, a, more, length),
         k + length - 1 <= Len(u), \A i \in k .. k + length - 1 : u[i] = v[a + i - k]
  PROVE  Says(m, u, k, more, length)
<1>1. a \in 1 .. Len(v) /\ IsOption(v[a]) /\ ~IsDashDash(v[a]) /\ a + length - 1 <= Len(v)
      /\ Len(u) \in Nat /\ Len(v) \in Nat
  BY DEF Says, IsChoice
<1>2. k \in 1 .. Len(u) /\ u[k] = v[a]
      /\ (length = 2 => a < Len(v) /\ k < Len(u) /\ u[k + 1] = v[a + 1])
  <2>1. k \in k .. k + length - 1 /\ a + k - k = a /\ k \in 1 .. Len(u)
    BY <1>1
  <2>2. ASSUME length = 2 PROVE a < Len(v) /\ k < Len(u) /\ u[k + 1] = v[a + 1]
    <3>1. k + 1 \in k .. k + length - 1 /\ a + (k + 1) - k = a + 1
      BY <2>2
    <3> QED BY <1>1, <2>2, <3>1
  <2> QED BY <2>1, <2>2
<1>3. Meaning(m, v, a).ok /\ Meaning(m, v, a).length = length
  BY DEF Says
<1>4. Meaning(m, v, a).length = 1 \/ NextArg(u, k) = NextArg(v, a)
  BY <1>1, <1>2, <1>3 DEF NextArg
<1>5. Meaning(m, u, k) = Meaning(m, v, a)
  BY <1>1, <1>2, <1>3, <1>4, MeaningElsewhere
<1>6. IsChoice(u, k)
  BY <1>1, <1>2 DEF IsChoice
<1> QED BY <1>5, <1>6 DEF Says

LEMMA PrefixGrows ==
  ASSUME NEW m \in Mode, NEW w \in Seq(Text), NEW p \in Nat \ {0}, NEW opts \in Seq(Option),
         NEW more \in Seq(Option), NEW length \in {1, 2},
         PrefixReads(m, w, p, opts), Says(m, w, p, more, length)
  PROVE  PrefixReads(m, w, p + length, opts \o more)
<1>1. p + length - 1 <= Len(w) /\ Len(w) \in Nat
  BY DEF Says
<1>2. ASSUME NEW u \in Seq(Text), Len(u) = Len(w), \A i \in 1 .. p + length - 1 : u[i] = w[i]
      PROVE  Readings(m, u)[1] = Behind(opts \o more, Readings(m, u)[p + length])
  <2>1. (\A i \in 1 .. p - 1 : u[i] = w[i]) /\ (\A i \in p .. p + length - 1 : u[i] = w[p + i - p])
    BY <1>2
  <2>2. Readings(m, u)[1] = Behind(opts, Readings(m, u)[p])
    BY <1>2, <2>1 DEF PrefixReads
  <2>3. Says(m, u, p, more, length)
    BY <1>1, <1>2, <2>1, SaysElsewhere
  <2>4. Readings(m, u)[p] = Behind(more, Readings(m, u)[p + length])
    BY <2>3, ChoiceReads
  <2>5. Readings(m, u)[p + length] \in ReadingType
    <3>1. p + length \in 1 .. Len(u) + 2
      BY <1>1, <1>2
    <3> QED BY <3>1, ReadingsEquation
  <2> QED BY <2>2, <2>4, <2>5, BehindBehind
<1> QED BY <1>2 DEF PrefixReads

LEMMA SameSubSeq ==
  ASSUME NEW S, NEW v \in Seq(S), NEW w \in Seq(S), NEW a \in Int, NEW b \in Int, NEW d \in Int,
         1 <= a, b <= Len(v), 1 <= a + d, b + d <= Len(w),
         \A i \in a .. b : w[i + d] = v[i]
  PROVE  SubSeq(w, a + d, b + d) = SubSeq(v, a, b)
<1>1. (\A i \in a .. b : v[i] \in S) /\ (\A i \in a + d .. b + d : w[i] \in S)
  BY ElementOfSeq
<1>2. /\ SubSeq(v, a, b) \in Seq(S)
      /\ Len(SubSeq(v, a, b)) = IF a <= b THEN b - a + 1 ELSE 0
      /\ \A i \in 1 .. b - a + 1 : SubSeq(v, a, b)[i] = v[a + i - 1]
  BY <1>1, SubSeqProperties
<1>3. /\ SubSeq(w, a + d, b + d) \in Seq(S)
      /\ Len(SubSeq(w, a + d, b + d)) = IF a + d <= b + d THEN (b + d) - (a + d) + 1 ELSE 0
      /\ \A i \in 1 .. (b + d) - (a + d) + 1 : SubSeq(w, a + d, b + d)[i] = w[a + d + i - 1]
  BY <1>1, SubSeqProperties
<1> DEFINE s == SubSeq(v, a, b)
           t == SubSeq(w, a + d, b + d)
<1>4. Len(t) = Len(s) /\ Len(s) = IF a <= b THEN b - a + 1 ELSE 0
  BY <1>2, <1>3
<1>5. ASSUME NEW i \in 1 .. Len(t) PROVE t[i] = s[i]
  <2>1. i \in 1 .. b - a + 1 /\ i \in 1 .. (b + d) - (a + d) + 1 /\ a + i - 1 \in a .. b
    BY <1>4
  <2>2. t[i] = w[a + d + i - 1] /\ s[i] = v[a + i - 1]
    BY <1>2, <1>3, <2>1
  <2>3. w[(a + i - 1) + d] = v[a + i - 1] /\ (a + i - 1) + d = a + d + i - 1
    BY <2>1, SMTT(60)
  <2> QED BY <2>2, <2>3
<1>6. s \in Seq(S) /\ t \in Seq(S)
  BY <1>2, <1>3
<1> HIDE DEF s, t
<1>7. t = s
  BY <1>4, <1>5, <1>6, SeqEqual
<1> QED BY <1>7 DEF s, t

\* What was passed over comes behind, in its order.
LEMMA MovedPassedOver ==
  ASSUME NEW m, NEW v \in Seq(Text), NEW w, NEW p \in Nat \ {0}, NEW a \in Nat,
         NEW length \in {1, 2}, p <= a, a + length - 1 <= Len(v), Moved(v, w, p, a, length),
         PassedOver(m, v, p, a)
  PROVE  PassedOver(m, w, p + length, a + length)
<1>1. \A i \in p + length .. a + length - 1 : w[i] = v[i - length]
  BY DEF Moved
<1>2. ASSUME NEW i \in p + length .. a + length - 1 PROVE IsOther(w, i)
  <2>1. i - length \in p .. a - 1 /\ w[i] = v[i - length] /\ i \in 1 .. Len(w)
    BY <1>1 DEF Moved
  <2>2. IsOther(v, i - length)
    BY <2>1 DEF PassedOver
  <2> QED BY <2>1, <2>2 DEF IsOther
<1>3. p + length < a + length => m.gnu
  BY DEF PassedOver
<1> QED BY <1>2, <1>3 DEF PassedOver

LEMMA MovedBetween ==
  ASSUME NEW v \in Seq(Text), NEW w, NEW p \in Nat \ {0}, NEW a \in Nat,
         NEW length \in {1, 2}, p <= a, a + length - 1 <= Len(v), Moved(v, w, p, a, length)
  PROVE  Between(w, p + length, a + length) = Between(v, p, a)
<1>0. Len(v) \in Nat /\ Len(w) = Len(v) /\ w \in Seq(Text)
  BY DEF Moved
<1>1. SubSeq(w, p + length, a - 1 + length) = SubSeq(v, p, a - 1)
  <2>1. \A i \in p .. a - 1 : w[i + length] = v[i]
    <3>1. \A i \in p + length .. a + length - 1 : w[i] = v[i - length]
      BY DEF Moved
    <3> QED BY <3>1
  <2>2. 1 <= p /\ a - 1 <= Len(v) /\ 1 <= p + length /\ a - 1 + length <= Len(w) /\ a - 1 \in Int
        /\ p \in Int /\ length \in Int
    BY <1>0
  <2> QED BY <1>0, <2>1, <2>2, SameSubSeq
<1>2. a - 1 + length = a + length - 1
  OBVIOUS
<1> QED BY <1>1, <1>2 DEF Between

LEMMA OptionMoves ==
  ASSUME NEW m \in Mode, NEW v \in Seq(Text), NEW w, NEW p \in Nat \ {0}, NEW a \in Nat, p <= a,
         NEW opts \in Seq(Option), PrefixReads(m, v, p, opts), PassedOver(m, v, p, a),
         NEW more \in Seq(Option), NEW length \in {1, 2}, Says(m, v, a, more, length),
         Moved(v, w, p, a, length)
  PROVE  /\ PrefixReads(m, w, p + length, opts \o more)
         /\ Readings(m, w)[1] = Readings(m, v)[1]
<1> DEFINE q == p + length
           e == a + length
           s == Between(v, p, a)
           f == Readings(m, v)
           g == Readings(m, w)
<1>1. a \in 1 .. Len(v) /\ Len(v) \in Nat /\ Len(w) = Len(v) /\ w \in Seq(Text)
      /\ a + length - 1 <= Len(v)
  BY DEF IsChoice, Moved, Says
<1>2. PrefixReads(m, w, p, opts)
  <2>1. \A i \in 1 .. p - 1 : w[i] = v[i]
    BY DEF Moved
  <2> QED BY <1>1, <2>1, PrefixMoves
<1>3. Says(m, w, p, more, length)
  <2>1. \A i \in p .. p + length - 1 : w[i] = v[a + i - p]
    BY DEF Moved
  <2>2. p + length - 1 <= Len(w)
    BY <1>1
  <2>3. w \in Seq(Text)
    BY <1>1
  <2> QED BY <2>1, <2>2, <2>3, SaysElsewhere
<1>4. PrefixReads(m, w, q, opts \o more)
  BY <1>1, <1>2, <1>3, PrefixGrows
<1>5. g[1] = Behind(opts \o more, g[q])
  BY <1>1, <1>4 DEF PrefixReads
<1>6. PassedOver(m, w, q, e) /\ Between(w, q, e) = s
  <2>1. a + length - 1 <= Len(v)
    BY <1>1
  <2>2. PassedOver(m, w, p + length, a + length)
    BY <2>1, MovedPassedOver
  <2>3. Between(w, p + length, a + length) = Between(v, p, a)
    BY <2>1, MovedBetween, ZenonT(60)
  <2> QED BY <2>2, <2>3
<1>7. g[q] = Passed(s, g[e])
  <2>1. q \in Nat \ {0} /\ e \in Nat /\ q <= e /\ e <= Len(w) + 1
    BY <1>1
  <2>2. (\A k \in q .. e - 1 : IsOther(w, k)) /\ (q < e => m.gnu)
    BY <1>6 DEF PassedOver
  <2> HIDE DEF q, e, s
  <2>3. g[q] = Passed(SubSeq(w, q, e - 1), g[e])
    BY <1>1, <2>1, <2>2, NonopsRead
  <2> QED BY <1>6, <2>3 DEF Between
<1>8. g[e] = f[e] /\ f[e] \in ReadingType
  <2>1. e \in 1 .. Len(v) + 2 /\ \A i \in e .. Len(v) : w[i] = v[i]
    BY <1>1 DEF Moved
  <2> HIDE DEF e
  <2> QED BY <1>1, <2>1, SuffixReads, ReadingsEquation
<1>9. f[1] = Behind(opts, f[p])
  BY DEF PrefixReads
<1>10. f[p] = Passed(s, f[a])
  <2>1. (\A k \in p .. a - 1 : IsOther(v, k)) /\ (p < a => m.gnu)
    BY DEF PassedOver
  <2>2. a <= Len(v) + 1
    BY <1>1
  <2> QED BY <2>1, <2>2, NonopsRead DEF Between
<1>11. f[a] = Behind(more, f[e])
  BY ChoiceReads, SMTT(60)
<1>12. s \in Seq(Text)
  <2>1. \A k \in p .. a - 1 : v[k] \in Text
    BY <1>1
  <2> QED BY <2>1, SubSeqProperties DEF Between
<1> HIDE DEF q, e, s, f, g
<1>13. Passed(s, f[e]) \in ReadingType
  BY <1>8, <1>12, MoreOthers
<1>14. f[1] = Behind(opts, Behind(more, Passed(s, f[e])))
  BY <1>9, <1>10, <1>11, PassedBehind
<1>15. f[1] = Behind(opts \o more, Passed(s, f[e]))
  BY <1>13, <1>14, BehindBehind
<1>16. g[1] = f[1]
  BY <1>5, <1>7, <1>8, <1>15
<1> QED BY <1>4, <1>16 DEF f, g, q

-----------------------------------------------------------------------------
(* What shift does, and what a vector says when it is done.                *)

LEMMA ShiftMoves ==
  ASSUME NEW v \in Seq(Text), NEW a \in 1 .. Len(v), NEW n \in 0 .. a - 1
  PROVE  Moved(v, shift(v, a, n), a - n, a, 1)
<1> DEFINE w == shift(v, a, n)
<1>1. Len(v) \in Nat /\ DOMAIN v = 1 .. Len(v) /\ \A k \in 1 .. Len(v) : v[k] \in Text
  BY ElementOfSeq
<1>2. w = [k \in 1 .. Len(v) |-> CASE k = a - n -> v[a]
                                 [] k \in a - n + 1 .. a -> v[k - 1]
                                 [] OTHER -> v[k]]
  BY <1>1 DEF shift
<1>3. \A k \in 1 .. Len(v) :
        /\ k = a - n => w[k] = v[a]
        /\ k \in a - n + 1 .. a => w[k] = v[k - 1]
        /\ k # a - n /\ k \notin a - n + 1 .. a => w[k] = v[k]
  BY <1>2
<1>4. \A k \in 1 .. Len(v) : w[k] \in Text
  BY <1>1, <1>3
<1>5. w \in Seq(Text) /\ Len(w) = Len(v)
  <2>1. w \in [1 .. Len(v) -> Text]
    BY <1>2, <1>4
  <2> HIDE DEF w
  <2> QED BY <1>1, <2>1, LenProperties, IsASeq
<1> HIDE DEF w
<1>6. \A i \in 1 .. a - n - 1 : w[i] = v[i]
  BY <1>1, <1>3
<1>7. \A i \in a - n .. a - n + 1 - 1 : w[i] = v[a + i - (a - n)]
  <2> SUFFICES ASSUME NEW i \in a - n .. a - n + 1 - 1 PROVE w[i] = v[a + i - (a - n)]
    OBVIOUS
  <2>1. i = a - n /\ a + i - (a - n) = a /\ i \in 1 .. Len(v)
    BY <1>1
  <2> QED BY <1>3, <2>1
<1>8. \A i \in a - n + 1 .. a + 1 - 1 : w[i] = v[i - 1]
  BY <1>1, <1>3
<1>9. \A i \in a + 1 .. Len(v) : w[i] = v[i]
  BY <1>1, <1>3
<1>10. Moved(v, w, a - n, a, 1)
  BY <1>5, <1>6, <1>7, <1>8, <1>9 DEF Moved
<1> QED BY <1>10 DEF w

LEMMA ShiftMovesTwo ==
  ASSUME NEW v \in Seq(Text), NEW a \in 1 .. Len(v), NEW n \in 0 .. a - 1, a + 1 <= Len(v)
  PROVE  Moved(v, shift(shift(v, a, n), a + 1, n), a - n, a, 2)
<1> DEFINE u == shift(v, a, n)
           w == shift(u, a + 1, n)
           p == a - n
<1>1. Moved(v, u, p, a, 1)
  BY ShiftMoves
<1>2. u \in Seq(Text) /\ Len(u) = Len(v) /\ Len(v) \in Nat
  BY <1>1 DEF Moved
<1>3. Moved(u, w, a + 1 - n, a + 1, 1)
  <2>1. a + 1 \in 1 .. Len(u) /\ n \in 0 .. a + 1 - 1
    BY <1>2
  <2> HIDE DEF u
  <2> QED BY <1>2, <2>1, ShiftMoves
<1>4. p \in Nat \ {0} /\ p <= a /\ a \in Nat /\ a + 1 - n = p + 1
  OBVIOUS
<1>5. Moved(u, w, p + 1, a + 1, 1)
  BY <1>3, <1>4
<1> HIDE DEF u, w, p
<1>6. ASSUME NEW i \in 1 .. p - 1 PROVE w[i] = v[i]
  <2>1. i \in 1 .. (p + 1) - 1
    BY <1>4
  <2>2. w[i] = u[i]
    BY <1>5, <2>1 DEF Moved
  <2>3. u[i] = v[i]
    BY <1>1 DEF Moved
  <2> QED BY <2>2, <2>3
<1>7. w[p] = v[a]
  <2>1. w[p] = u[p]
    <3>1. p \in 1 .. p + 1 - 1
      BY <1>4
    <3> QED BY <1>5, <3>1 DEF Moved
  <2>2. u[p] = v[a + p - p]
    <3>1. p \in p .. p + 1 - 1
      BY <1>4
    <3> QED BY <1>1, <3>1 DEF Moved
  <2>3. a + p - p = a
    BY <1>4
  <2> QED BY <2>1, <2>2, <2>3
<1>8. w[p + 1] = v[a + 1]
  <2>1. w[p + 1] = u[a + 1 + (p + 1) - (p + 1)]
    <3>1. p + 1 \in p + 1 .. p + 1 + 1 - 1
      BY <1>4
    <3> QED BY <1>5, <3>1 DEF Moved
  <2>2. u[a + 1] = v[a + 1]
    <3>1. a + 1 \in a + 1 .. Len(v)
      BY <1>2
    <3> QED BY <1>1, <3>1 DEF Moved
  <2>3. a + 1 + (p + 1) - (p + 1) = a + 1
    BY <1>4
  <2> QED BY <2>1, <2>2, <2>3
<1>9. ASSUME NEW i \in p + 2 .. a + 1 PROVE w[i] = v[i - 2]
  <2>1. i \in p + 1 + 1 .. a + 1 + 1 - 1 /\ i - 1 \in p + 1 .. a + 1 - 1 /\ i - 1 - 1 = i - 2
    BY <1>4
  <2>2. w[i] = u[i - 1]
    BY <1>5, <2>1 DEF Moved
  <2>3. u[i - 1] = v[i - 1 - 1]
    BY <1>1, <2>1 DEF Moved
  <2> QED BY <2>1, <2>2, <2>3
<1>10. ASSUME NEW i \in a + 2 .. Len(v) PROVE w[i] = v[i]
  <2>1. i \in a + 1 + 1 .. Len(u) /\ i \in a + 1 .. Len(v)
    BY <1>2, <1>4
  <2> QED BY <1>1, <1>5, <2>1 DEF Moved
<1>11. w \in Seq(Text) /\ Len(w) = Len(v)
  BY <1>2, <1>5 DEF Moved
<1>12. \A i \in p .. p + 2 - 1 : w[i] = v[a + i - p]
  <2> SUFFICES ASSUME NEW i \in p .. p + 2 - 1 PROVE w[i] = v[a + i - p]
    OBVIOUS
  <2>1. (i = p /\ a + i - p = a) \/ (i = p + 1 /\ a + i - p = a + 1)
    BY <1>4
  <2> QED BY <1>7, <1>8, <2>1
<1>13. \A i \in p + 2 .. a + 2 - 1 : w[i] = v[i - 2]
  BY <1>4, <1>9
<1>14. Moved(v, w, p, a, 2)
  BY <1>6, <1>10, <1>11, <1>12, <1>13 DEF Moved
<1> QED BY <1>14 DEF w, u, p

\* What a vector says from its first place on if it is known up to a.
LEMMA ReadsBehind ==
  ASSUME NEW m \in Mode, NEW v \in Seq(Text), NEW p \in Nat \ {0}, NEW a \in Nat, p <= a,
         a <= Len(v) + 1,
         NEW opts \in Seq(Option), PrefixReads(m, v, p, opts), PassedOver(m, v, p, a)
  PROVE  Reading(m, v) = Behind(opts, Passed(Between(v, p, a), Readings(m, v)[a]))
<1>1. Readings(m, v)[1] = Behind(opts, Readings(m, v)[p])
  BY DEF PrefixReads
<1>2. Readings(m, v)[p] = Passed(Between(v, p, a), Readings(m, v)[a])
  <2>1. (\A k \in p .. a - 1 : IsOther(v, k)) /\ (p < a => m.gnu)
    BY DEF PassedOver
  <2> QED BY <2>1, NonopsRead DEF Between
<1> QED BY <1>1, <1>2 DEF Reading

LEMMA BetweenType ==
  ASSUME NEW v \in Seq(Text), NEW p \in Nat \ {0}, NEW a \in Nat, a <= Len(v) + 1
  PROVE  Between(v, p, a) \in Seq(Text) /\ Between(v, p, p) = <<>>
<1>1. Between(v, p, a) \in Seq(Text)
  <2>1. \A k \in p .. a - 1 : v[k] \in Text
    OBVIOUS
  <2> QED BY <2>1, SubSeqProperties DEF Between
<1>2. Between(v, p, p) = <<>>
  BY SubSeqEmpty DEF Between
<1> QED BY <1>1, <1>2

\* At the end, or at an argument that ends the options.
LEMMA ReadsToTheEnd ==
  ASSUME NEW m \in Mode, NEW v \in Seq(Text), NEW p \in Nat \ {0}, NEW a \in Nat, p <= a,
         NEW opts \in Seq(Option), PrefixReads(m, v, p, opts), PassedOver(m, v, p, a),
         a = Len(v) + 1 \/ (IsOther(v, a) /\ ~m.gnu)
  PROVE  Reading(m, v) = [options |-> opts, others |-> Rest(v, p), ok |-> TRUE]
<1> DEFINE f == Readings(m, v)
<1>0. opts \o <<>> = opts
  BY ConcatEmptySeq
<1>1. CASE a = Len(v) + 1
  <2>1. Len(v) \in Nat /\ a \in 1 .. Len(v) + 2 /\ a > Len(v) /\ a <= Len(v) + 1
    BY <1>1
  <2>2. f[a] = [options |-> <<>>, others |-> <<>>, ok |-> TRUE]
    <3>1. f[a] = ReadingStep(m, v, f, a)
      BY <2>1, ReadingsEquation
    <3>2. \A g : ReadingStep(m, v, g, a) = [options |-> <<>>, others |-> <<>>, ok |-> TRUE]
      BY <2>1, StepBehind
    <3> QED BY <3>1, <3>2
  <2>3. Reading(m, v) = Behind(opts, Passed(Between(v, p, a), f[a]))
    BY <2>1, ReadsBehind
  <2>4. Between(v, p, a) \in Seq(Text) /\ Between(v, p, a) = Rest(v, p)
    <3>1. Between(v, p, a) \in Seq(Text)
      BY <2>1, BetweenType
    <3>2. a - 1 = Len(v)
      BY <1>1
    <3> QED BY <3>1, <3>2 DEF Between, Rest
  <2>5. Between(v, p, a) \o <<>> = Between(v, p, a)
    <3> DEFINE s == Between(v, p, a)
    <3>1. s \in Seq(Text)
      BY <2>4
    <3> HIDE DEF s
    <3>2. s \o <<>> = s
      BY <3>1, ConcatEmptySeq
    <3> QED BY <3>2 DEF s
  <2> QED BY <1>0, <2>2, <2>3, <2>4, <2>5 DEF Behind, Passed
<1>2. CASE IsOther(v, a) /\ ~m.gnu
  <2>1. a \in 1 .. Len(v) + 2 /\ p = a /\ a \in Nat /\ Len(v) \in Nat
    BY <1>2 DEF IsOther, PassedOver
  <2>2. f[a] = [options |-> <<>>, others |-> Rest(v, a), ok |-> TRUE]
    <3>1. f[a] = ReadingStep(m, v, f, a)
      BY <2>1, ReadingsEquation
    <3>2. \A g : ReadingStep(m, v, g, a) = [options |-> <<>>, others |-> Rest(v, a), ok |-> TRUE]
      BY <1>2, <2>1, StepLast
    <3> QED BY <3>1, <3>2
  <2>3. Reading(m, v) = Behind(opts, f[p])
    BY DEF PrefixReads, Reading
  <2>4. f[p] = [options |-> <<>>, others |-> Rest(v, p), ok |-> TRUE]
    BY <2>1, <2>2
  <2> HIDE DEF f
  <2> QED BY <1>0, <2>3, <2>4 DEF Behind
<1> QED BY <1>1, <1>2

\* At the "--", which is moved in front of what was passed over.
LEMMA ReadsToDashDash ==
  ASSUME NEW m \in Mode, NEW v \in Seq(Text), NEW w, NEW p \in Nat \ {0}, NEW a \in Nat, p <= a,
         NEW opts \in Seq(Option), PrefixReads(m, v, p, opts), PassedOver(m, v, p, a),
         IsEnd(v, a), Moved(v, w, p, a, 1)
  PROVE  Reading(m, v) = [options |-> opts, others |-> Rest(w, p + 1), ok |-> TRUE]
<1> DEFINE f == Readings(m, v)
<1>0. opts \o <<>> = opts
  BY ConcatEmptySeq
<1>1. a \in 1 .. Len(v) /\ Len(v) \in Nat /\ w \in Seq(Text) /\ Len(w) = Len(v)
      /\ a \in 1 .. Len(v) + 2 /\ p \in 1 .. Len(w) /\ p \in 1 .. Len(w) + 2 /\ a <= Len(v) + 1
  BY DEF IsEnd, Moved
<1>4. f[a] = [options |-> <<>>, others |-> Rest(v, a + 1), ok |-> TRUE]
  <2>1. f[a] = ReadingStep(m, v, f, a)
    BY <1>1, ReadingsEquation
  <2>2. \A h : ReadingStep(m, v, h, a) = [options |-> <<>>, others |-> Rest(v, a + 1), ok |-> TRUE]
    BY <1>1, StepEnd
  <2> QED BY <2>1, <2>2
<1>7. Reading(m, v) = [options |-> opts, others |-> Between(v, p, a) \o Rest(v, a + 1), ok |-> TRUE]
  <2>1. Reading(m, v) = Behind(opts, Passed(Between(v, p, a), f[a]))
    BY <1>1, ReadsBehind
  <2> QED BY <1>0, <1>4, <2>1 DEF Behind, Passed
<1>8. Between(v, p, a) \o Rest(v, a + 1) = Rest(w, p + 1)
  <2>1. Between(w, p + 1, a + 1) = Between(v, p, a)
    <3>1. a + 1 - 1 <= Len(v) /\ 1 \in {1, 2}
      BY <1>1
    <3> QED BY <3>1, MovedBetween
  <2>2. Rest(w, a + 1) = Rest(v, a + 1)
    <3>1. \A i \in a + 1 .. Len(v) : w[i] = v[i]
      BY DEF Moved
    <3>2. a + 1 \in Nat \ {0}
      BY <1>1
    <3> QED BY <1>1, <3>1, <3>2, SameRest
  <2>3. SubSeq(w, p + 1, a) \o SubSeq(w, a + 1, Len(w)) = SubSeq(w, p + 1, Len(w))
    <3>1. p + 1 \in 1 .. Len(w) + 1 /\ a \in (p + 1) - 1 .. Len(w) /\ Len(w) \in a .. Len(w)
      BY <1>1
    <3> QED BY <1>1, <3>1, ConcatAdjacentSubSeq
  <2>4. a + 1 - 1 = a
    OBVIOUS
  <2>5. Between(w, p + 1, a + 1) = SubSeq(w, p + 1, a) /\ Rest(w, a + 1) = SubSeq(w, a + 1, Len(w))
        /\ Rest(w, p + 1) = SubSeq(w, p + 1, Len(w))
    BY <2>4 DEF Between, Rest
  <2> QED BY <2>1, <2>2, <2>3, <2>5
<1> QED BY <1>7, <1>8

\* It says the same when the "--" has been moved.
LEMMA DashDashMoves ==
  ASSUME NEW m \in Mode, NEW v \in Seq(Text), NEW w, NEW p \in Nat \ {0}, NEW a \in Nat, p <= a,
         NEW opts \in Seq(Option), PrefixReads(m, v, p, opts), PassedOver(m, v, p, a),
         IsEnd(v, a), Moved(v, w, p, a, 1)
  PROVE  Reading(m, w) = [options |-> opts, others |-> Rest(w, p + 1), ok |-> TRUE]
<1> DEFINE g == Readings(m, w)
<1>0. opts \o <<>> = opts
  BY ConcatEmptySeq
<1>1. a \in 1 .. Len(v) /\ Len(v) \in Nat /\ w \in Seq(Text) /\ Len(w) = Len(v)
      /\ a \in 1 .. Len(v) + 2 /\ p \in 1 .. Len(w) /\ p \in 1 .. Len(w) + 2 /\ a <= Len(v) + 1
  BY DEF IsEnd, Moved
<1>2. w[p] = v[a] /\ \A i \in 1 .. p - 1 : w[i] = v[i]
  <2>1. p \in p .. p + 1 - 1 /\ a + p - p = a
    OBVIOUS
  <2> QED BY <2>1 DEF Moved
<1>3. IsEnd(w, p)
  BY <1>1, <1>2 DEF IsEnd
<1>5. g[p] = [options |-> <<>>, others |-> Rest(w, p + 1), ok |-> TRUE]
  <2>1. g[p] = ReadingStep(m, w, g, p)
    BY <1>1, ReadingsEquation
  <2>2. \A h : ReadingStep(m, w, h, p) = [options |-> <<>>, others |-> Rest(w, p + 1), ok |-> TRUE]
    BY <1>1, <1>3, StepEnd
  <2> QED BY <2>1, <2>2
<1>6. Reading(m, w) = [options |-> opts, others |-> Rest(w, p + 1), ok |-> TRUE]
  <2>1. PrefixReads(m, w, p, opts)
    BY <1>1, <1>2, PrefixMoves
  <2>2. g[1] = Behind(opts, g[p])
    BY <1>1, <2>1 DEF PrefixReads
  <2> QED BY <1>0, <1>5, <2>2 DEF Behind, Reading
<1> QED BY <1>6

\* The argument at k has an illegal option behind those that are done.
Fails(m, v, k, done) ==
  IsChoice(v, k) /\ Meaning(m, v, k) = [options |-> done, length |-> 1, ok |-> FALSE]

\* The vector is illegal, with these options before the illegal one.
SaysUntil(m, v, opts, done) ==
  Reading(m, v).options = opts \o done /\ Reading(m, v).ok = FALSE

\* At an illegal option.
LEMMA ReadsToIllegal ==
  ASSUME NEW m \in Mode, NEW v \in Seq(Text), NEW p \in Nat \ {0}, NEW a \in Nat, p <= a,
         NEW opts \in Seq(Option), PrefixReads(m, v, p, opts), PassedOver(m, v, p, a),
         NEW done \in Seq(Option), Fails(m, v, a, done)
  PROVE  SaysUntil(m, v, opts, done)
<1> DEFINE f == Readings(m, v)
<1>1. a \in 1 .. Len(v) + 2 /\ a <= Len(v) + 1 /\ Len(v) \in Nat
  BY DEF IsChoice, Fails
<1>a. Meaning(m, v, a).ok = FALSE /\ Meaning(m, v, a).options = done /\ IsChoice(v, a)
  BY DEF Fails
<1>2. f[a] = [options |-> done, others |-> <<>>, ok |-> FALSE]
  <2>1. f[a] = ReadingStep(m, v, f, a)
    BY <1>1, ReadingsEquation
  <2>2. \A h : ReadingStep(m, v, h, a) =
                 [options |-> Meaning(m, v, a).options, others |-> <<>>, ok |-> FALSE]
    BY <1>1, <1>a, StepIllegal
  <2> QED BY <1>a, <2>1, <2>2
<1>3. Reading(m, v) = Behind(opts, Passed(Between(v, p, a), f[a]))
  BY <1>1, ReadsBehind
<1> QED BY <1>2, <1>3 DEF SaysUntil, Behind, Passed

\* No vector says less than what is known of it.
LEMMA ReadsAtLeast ==
  ASSUME NEW m \in Mode, NEW v \in Seq(Text), NEW p \in Nat \ {0}, NEW a \in Nat, p <= a,
         a <= Len(v) + 1,
         NEW opts \in Seq(Option), PrefixReads(m, v, p, opts), PassedOver(m, v, p, a)
  PROVE  /\ Len(opts) <= Len(Reading(m, v).options)
         /\ IsChoice(v, a) =>
              Len(opts) + Len(Meaning(m, v, a).options) <= Len(Reading(m, v).options)
<1> DEFINE f == Readings(m, v)
           rest == f[a].options
<1>1. a \in 1 .. Len(v) + 2 /\ Len(v) \in Nat
  OBVIOUS
<1>2. f[a] \in ReadingType
  BY <1>1, ReadingsEquation
<1>3. Reading(m, v).options = opts \o rest
  <2>1. Reading(m, v) = Behind(opts, Passed(Between(v, p, a), f[a]))
    BY ReadsBehind
  <2> QED BY <2>1, SMTT(60) DEF Behind, Passed
<1>4. rest \in Seq(Option)
  BY <1>2 DEF ReadingType
<1>5. Len(opts \o rest) = Len(opts) + Len(rest)
  <2> HIDE DEF rest
  <2> QED BY <1>4, ConcatProperties
<1>6. ASSUME IsChoice(v, a) PROVE Len(Meaning(m, v, a).options) <= Len(rest)
  <2> DEFINE M == Meaning(m, v, a)
  <2>1. M.options \in Seq(Option) /\ M.length \in {1, 2} /\ M.ok \in BOOLEAN
    <3>1. M \in MeaningType
      BY <1>6, MeaningHasType DEF IsChoice
    <3> QED BY <3>1 DEF MeaningType
  <2>2. f[a] = ReadingStep(m, v, f, a)
    BY <1>1, ReadingsEquation
  <2>3. CASE M.ok
    <3>1. \A h : ReadingStep(m, v, h, a) = Behind(M.options, h[a + M.length])
      BY <1>1, <1>6, <2>3, StepChoice
    <3>2. f[a + M.length] \in ReadingType
      <4>1. a + M.length \in 1 .. Len(v) + 2
        BY <1>6, <2>1 DEF IsChoice
      <4> HIDE DEF M
      <4> QED BY <4>1, ReadingsEquation
    <3> DEFINE o == M.options
               t == f[a + M.length].options
    <3>3. o \in Seq(Option) /\ t \in Seq(Option)
      BY <2>1, <3>2 DEF ReadingType
    <3>4. rest = o \o t
      <4>1. f[a] = Behind(M.options, f[a + M.length])
        BY <2>2, <3>1
      <4>2. \A x, y : Behind(x, y).options = x \o y.options
        BY DEF Behind
      <4> QED BY <4>1, <4>2
    <3> HIDE DEF o, t, rest
    <3>5. Len(o \o t) = Len(o) + Len(t) /\ Len(o) \in Nat /\ Len(t) \in Nat
      BY <3>3, ConcatProperties
    <3>6. Len(o) <= Len(rest)
      BY <3>4, <3>5
    <3> QED BY <3>6 DEF o
  <2>4. CASE ~M.ok
    <3>1. \A h : ReadingStep(m, v, h, a) = [options |-> M.options, others |-> <<>>, ok |-> FALSE]
      BY <1>1, <1>6, <2>4, StepIllegal
    <3>2. rest = M.options
      <4>1. f[a] = [options |-> M.options, others |-> <<>>, ok |-> FALSE]
        BY <2>2, <3>1
      <4> HIDE DEF M, f
      <4> QED BY <4>1
    <3>3. Len(M.options) \in Nat
      BY <2>1
    <3> HIDE DEF M, rest
    <3>4. Len(M.options) <= Len(rest)
      BY <3>2, <3>3
    <3> QED BY <3>4 DEF M
  <2> QED BY <2>1, <2>3, <2>4
<1> DEFINE n == Len(rest)
           k == Len(opts)
<1>7. n \in Nat /\ k \in Nat /\ Len(Reading(m, v).options) = k + n
  BY <1>3, <1>4, <1>5
<1> HIDE DEF n, k, rest
<1>8. k <= Len(Reading(m, v).options)
  BY <1>7
<1>9. ASSUME IsChoice(v, a)
      PROVE  k + Len(Meaning(m, v, a).options) <= Len(Reading(m, v).options)
  <2> DEFINE j == Len(Meaning(m, v, a).options)
  <2>1. j \in Nat
    <3>1. Meaning(m, v, a).options \in Seq(Option)
      BY <1>9, MeaningHasType DEF IsChoice, MeaningType
    <3> QED BY <3>1
  <2>2. j <= n
    BY <1>6, <1>9 DEF n
  <2> HIDE DEF j
  <2>3. k + j <= k + n
    BY <1>7, <2>1, <2>2
  <2> QED BY <1>7, <2>3 DEF j
<1> QED BY <1>8, <1>9 DEF k

-----------------------------------------------------------------------------
(* How far workhorse is in a vector, as a relation between the vector, its *)
(* position and the options it has found.                                  *)

\* The argument at a is being taken apart, and done are its options so far.
TakenApart(m, v, a, g, done) ==
  /\ IsChoice(v, a)
  /\ g.param \in 1 .. Len(v[a])
  /\ \/ g = [param |-> 1, short |-> v[a][2] # "-", long |-> m.single_minus_longopt]
     \/ g = [param |-> g.param, short |-> TRUE, long |-> FALSE] /\ ~ReadLong(m, v[a])
  /\ Meaning(m, v, a) = More(done, Meanings(AllRead(m, v[a], NextArg(v, a)))[g.param])

\* What stands before args, but for the n arguments passed over, says opts.
Scanned(m, v, a, n, g, opts, done) ==
  /\ a \in 1 .. Len(v) + 1 /\ n \in 0 .. a - 1
  /\ PrefixReads(m, v, a - n, opts) /\ PassedOver(m, v, a - n, a)
  /\ IF g = NoGroup THEN done = <<>> ELSE TakenApart(m, v, a, g, done)

LEMMA NoMore ==
  ASSUME NEW M \in MeaningType
  PROVE  More(<<>>, M) = M
<1> DEFINE o == M.options
<1>1. o \in Seq(Option) /\ M = [options |-> o, length |-> M.length, ok |-> M.ok]
  BY DEF MeaningType
<1> HIDE DEF o
<1>2. <<>> \o o = o
  BY <1>1, ConcatEmptySeq
<1>3. M.options = o
  BY DEF o
<1> QED BY <1>1, <1>2, <1>3 DEF More

LEMMA MoreAndMore ==
  ASSUME NEW a \in Seq(Option), NEW b \in Seq(Option), NEW M \in MeaningType
  PROVE  More(a, More(b, M)) = More(a \o b, M)
<1> DEFINE c == M.options
<1>1. c \in Seq(Option)
  BY DEF MeaningType
<1> HIDE DEF c
<1>2. (a \o b) \o c = a \o (b \o c)
  BY <1>1, ConcatAssociative
<1> QED BY <1>2 DEF More, c

\* Is the group a long option?
LEMMA GroupIsLong ==
  ASSUME NEW done, TakenApart(mode, vector, args, group, done)
  PROVE  /\ IsLong <=> ReadLong(mode, text)
         /\ IsLong => group.param = 1 /\ longFound = LongMatch(mode, longopt_name)
<1> USE DEF text
<1>1. CASE group = [param |-> 1, short |-> text[2] # "-", long |-> mode.single_minus_longopt]
  <2>1. CASE text[2] = "-"
    <3>1. group.short = FALSE /\ group.param = 1
      BY <1>1, <2>1
    <3> QED BY <2>1, <3>1 DEF IsLong, longFound, ReadLong
  <2>2. CASE text[2] # "-"
    <3>1. group.short = TRUE /\ group.param = 1 /\ group.long = mode.single_minus_longopt
      BY <1>1, <2>2
    <3>2. longopt_name = Rest(text, 2)
      BY <2>2 DEF longopt_name
    <3> QED BY <2>2, <3>1, <3>2 DEF IsLong, longFound, ReadLong
  <2> QED BY <2>1, <2>2
<1>2. CASE group = [param |-> group.param, short |-> TRUE, long |-> FALSE] /\ ~ReadLong(mode, text)
  <2>1. group.short = TRUE /\ group.long = FALSE
    BY <1>2
  <2> QED BY <1>2, <2>1 DEF IsLong, longFound
<1> QED BY <1>1, <1>2 DEF TakenApart

\* What is found at the group's position is what the reference reads there.
AllOfIt == AllRead(mode, text, NextArg(vector, args))

LEMMA GroupReads ==
  ASSUME mode \in Mode, vector \in Seq(Text), args \in Nat,
         NEW done, TakenApart(mode, vector, args, group, done)
  PROVE  /\ AllOfIt \in Seq(Read)
         /\ group.param \in 1 .. Len(AllOfIt) + 1
         /\ GroupEnds <=> group.param = Len(AllOfIt) + 1
         /\ GroupEnds => checked = "group_end"
         /\ ~GroupEnds =>
              /\ checked = AllOfIt[group.param].verdict
              /\ AllOfIt[group.param].detached = (attachedArg = NoArg)
              /\ checked # "undescribed" => ThisOption = AllOfIt[group.param].option
<1> DEFINE t == text
           next == NextArg(vector, args)
           read == AllOfIt
           c == group.param
<1>1. t \in Text /\ IsOption(t) /\ args \in 1 .. Len(vector) /\ next \in Arg /\ c \in 1 .. Len(t)
      /\ Len(t) \in Nat
  <2>1. args \in 1 .. Len(vector) /\ IsOption(t) /\ c \in 1 .. Len(t)
    BY DEF TakenApart, IsChoice, text
  <2>2. t \in Text /\ next \in Arg
    BY <2>1, NextArgType DEF text
  <2> QED BY <2>1, <2>2 DEF Text
<1>2. read \in Seq(Read) /\ Len(read) = IF ReadLong(mode, t) THEN 1 ELSE Len(t) - 1
  BY <1>1, AllReadType DEF AllOfIt
<1>3. (IsLong <=> ReadLong(mode, t)) /\ (IsLong => c = 1 /\ longFound = LongMatch(mode, longopt_name))
  BY GroupIsLong
<1>4. c \in 1 .. Len(read) + 1 /\ (GroupEnds <=> c = Len(read) + 1)
  <2>1. CASE IsLong
    BY <1>2, <1>3, <2>1 DEF GroupEnds
  <2>2. CASE ~IsLong
    <3>1. Len(read) = Len(t) - 1
      BY <1>2, <1>3, <2>2
    <3>2. GroupEnds <=> c + 1 > Len(t)
      BY <2>2 DEF GroupEnds, char
    <3> QED BY <1>1, <3>1, <3>2
  <2> QED BY <2>1, <2>2
<1>5. GroupEnds => checked = "group_end"
  BY DEF checked
<1>6. NextArg(vector, args) = detachedArg
  BY DEF NextArg, detachedArg
<1> DEFINE name == IF IsLong THEN text ELSE Rest(text, char)
           r == ReadAs(mode, name, descriptor, attachedArg, next)
<1>8. ASSUME ~GroupEnds PROVE read[c] = r
  <2>1. CASE IsLong
    <3> DEFINE k == IF t[2] = "-" THEN 3 ELSE 2
    <3>1. Rest(t, k) = longopt_name
      BY DEF longopt_name
    <3>2. descriptor = Described(mode, LongMatch(mode, longopt_name)) /\ attachedArg = Attached(longopt_name)
      BY <1>3, <2>1 DEF descriptor, attachedArg
    <3>3. read = <<ReadAs(mode, t, Described(mode, LongMatch(mode, Rest(t, k))),
                          Attached(Rest(t, k)), next)>>
      BY <1>3, <2>1 DEF AllRead, AllOfIt
    <3>4. read = <<r>>
      BY <2>1, <3>1, <3>2, <3>3
    <3> HIDE DEF read, r
    <3> QED BY <1>3, <2>1, <3>4
  <2>2. CASE ~IsLong
    <3> DEFINE s(i) == ReadAs(mode, Rest(t, i + 1), Described(mode, ShortMatch(mode, t[i + 1])),
                              IF i + 1 < Len(t) THEN Rest(t, i + 2) ELSE NoArg, next)
    <3>1. read = [i \in 1 .. Len(t) - 1 |-> s(i)]
      BY <1>3, <2>2 DEF AllRead, AllOfIt
    <3>2. c \in 1 .. Len(t) - 1
      <4>1. c + 1 <= Len(t)
        BY <1>1, <1>8, <2>2 DEF GroupEnds, char
      <4> QED BY <1>1, <4>1
    <3>3. read[c] = s(c)
      <4> HIDE DEF s
      <4> QED BY <3>1, <3>2
    <3>4. char = c + 1 /\ char + 1 = c + 2
      BY <1>1 DEF char
    <3>5. descriptor = Described(mode, ShortMatch(mode, t[char]))
      BY <2>2 DEF descriptor
    <3>6. attachedArg = IF char < Len(t) THEN Rest(t, char + 1) ELSE NoArg
      BY <2>2 DEF attachedArg
    <3>7. name = Rest(t, char)
      BY <2>2
    <3> HIDE DEF name, t
    <3>8. s(c) = ReadAs(mode, Rest(t, char), Described(mode, ShortMatch(mode, t[char])),
                        IF char < Len(t) THEN Rest(t, char + 1) ELSE NoArg, next)
      BY <3>4
    <3>9. s(c) = r
      BY <3>5, <3>6, <3>7, <3>8
    <3> QED BY <3>3, <3>9
  <2> QED BY <2>1, <2>2
<1>9. ASSUME ~GroupEnds
      PROVE  /\ checked = r.verdict
             /\ r.detached = (attachedArg = NoArg)
             /\ checked # "undescribed" => ThisOption = r.option
  <2>1. r.detached = (attachedArg = NoArg)
    BY DEF ReadAs
  <2> DEFINE check == mode.usage[descriptor].check_arg
  <2>2. r.verdict = IF descriptor = 0 THEN "undescribed"
                    ELSE check_arg(check, optarg, attachedArg # NoArg)
    BY <1>6 DEF ReadAs, optarg
  <2>3. checked = IF descriptor = 0 THEN "undescribed"
                  ELSE check_arg(check, optarg, attachedArg # NoArg)
    BY <1>9 DEF checked
  <2>4. checked = r.verdict
    BY <2>2, <2>3
  <2>5. ASSUME checked # "undescribed" PROVE ThisOption = r.option
    <3>1. descriptor # 0
      BY <2>3, <2>5
    <3>2. r.option = [index |-> mode.usage[descriptor].index, name |-> name,
                      arg |-> IF r.verdict = "ARG_OK" THEN optarg ELSE NoArg]
      BY <1>6, <3>1 DEF ReadAs, optarg
    <3>3. ThisOption = [index |-> mode.usage[descriptor].index, name |-> name,
                        arg |-> IF checked = "ARG_OK" THEN optarg ELSE NoArg]
      BY DEF ThisOption
    <3> HIDE DEF r
    <3> QED BY <2>4, <3>2, <3>3
  <2> QED BY <2>1, <2>4, <2>5
<1> HIDE DEF r
<1> QED BY <1>2, <1>4, <1>5, <1>8, <1>9

\* An option that is not described: what the argument means is meant from the next one on.
LEMMA MeansUndescribed ==
  ASSUME mode \in Mode, vector \in Seq(Text), args \in Nat, NEW done \in Seq(Option),
         TakenApart(mode, vector, args, group, done), checked = "undescribed"
  PROVE  /\ Meaning(mode, vector, args) = More(done, Meanings(AllOfIt)[group.param + 1])
         /\ group.param \in 1 .. Len(AllOfIt)
<1> DEFINE read == AllOfIt
           c == group.param
<1>1. read \in Seq(Read) /\ c \in 1 .. Len(read) /\ read[c].verdict = "undescribed"
  <2>1. ~GroupEnds
    BY GroupReads
  <2>2. read \in Seq(Read) /\ c \in 1 .. Len(read) + 1 /\ c # Len(read) + 1
        /\ checked = read[c].verdict
    BY <2>1, GroupReads
  <2> HIDE DEF read, c
  <2>3. c \in 1 .. Len(read)
    BY <2>2
  <2> QED BY <2>2, <2>3
<1>2. Meaning(mode, vector, args) = More(done, Meanings(read)[c])
  BY DEF TakenApart, AllOfIt, text
<1> HIDE DEF read
<1>3. Meanings(read)[c] = Meanings(read)[c + 1]
  BY <1>1, MeaningOfUndescribed
<1> QED BY <1>1, <1>2, <1>3 DEF read

\* An option that takes no argument: it comes behind those that are done.
LEMMA MeansFlag ==
  ASSUME mode \in Mode, vector \in Seq(Text), args \in Nat, NEW done \in Seq(Option),
         TakenApart(mode, vector, args, group, done), checked \in {"ARG_NONE", "ARG_IGNORE"}
  PROVE  /\ Meaning(mode, vector, args)
              = More(done \o <<ThisOption>>, Meanings(AllOfIt)[group.param + 1])
         /\ ThisOption \in Option
         /\ group.param \in 1 .. Len(AllOfIt)
<1> DEFINE read == AllOfIt
           c == group.param
<1>1. /\ read \in Seq(Read) /\ c \in 1 .. Len(read)
      /\ read[c].verdict \in {"ARG_NONE", "ARG_IGNORE"} /\ ThisOption = read[c].option
  <2>1. ~GroupEnds
    BY GroupReads
  <2>2. read \in Seq(Read) /\ c \in 1 .. Len(read) + 1 /\ c # Len(read) + 1
        /\ checked = read[c].verdict /\ ThisOption = read[c].option
    BY <2>1, GroupReads
  <2> HIDE DEF read, c
  <2>3. c \in 1 .. Len(read)
    BY <2>2
  <2> QED BY <2>2, <2>3
<1>2. Meaning(mode, vector, args) = More(done, Meanings(read)[c])
  BY DEF TakenApart, AllOfIt, text
<1> HIDE DEF read
<1>3. ThisOption \in Option
  <2>1. read[c] \in Read
    BY <1>1, ElementOfSeq
  <2> QED BY <1>1, <2>1 DEF Read
<1>4. Meanings(read)[c] = More(<<ThisOption>>, Meanings(read)[c + 1])
  BY <1>1, MeaningOfFlag
<1>5. Meanings(read)[c + 1] \in MeaningType
  <2>1. c + 1 \in 1 .. Len(read) + 1
    BY <1>1
  <2> QED BY <1>1, <2>1, MeaningsEquation
<1>6. <<ThisOption>> \in Seq(Option)
  BY <1>3
<1>7. More(done, More(<<ThisOption>>, Meanings(read)[c + 1]))
        = More(done \o <<ThisOption>>, Meanings(read)[c + 1])
  BY <1>5, <1>6, MoreAndMore
<1> QED BY <1>1, <1>2, <1>3, <1>4, <1>7 DEF read

\* An option with its argument is the last one.
LEMMA MeansOk ==
  ASSUME mode \in Mode, vector \in Seq(Text), args \in Nat, NEW done \in Seq(Option),
         TakenApart(mode, vector, args, group, done), checked = "ARG_OK"
  PROVE  /\ Meaning(mode, vector, args)
              = [options |-> done \o <<ThisOption>>, length |-> taken, ok |-> TRUE]
         /\ ThisOption \in Option
         /\ taken \in {1, 2} /\ args + taken - 1 <= Len(vector)
<1> DEFINE read == AllOfIt
           c == group.param
<1>1. /\ read \in Seq(Read) /\ c \in 1 .. Len(read)
      /\ read[c].verdict = "ARG_OK" /\ ThisOption = read[c].option
      /\ read[c].detached = (attachedArg = NoArg) /\ ~GroupEnds
  <2>1. ~GroupEnds
    BY GroupReads
  <2>2. read \in Seq(Read) /\ c \in 1 .. Len(read) + 1 /\ c # Len(read) + 1
        /\ checked = read[c].verdict /\ ThisOption = read[c].option
        /\ read[c].detached = (attachedArg = NoArg)
    BY <2>1, GroupReads
  <2> HIDE DEF read, c
  <2>3. c \in 1 .. Len(read)
    BY <2>2
  <2> QED BY <2>1, <2>2, <2>3
<1>2. Meaning(mode, vector, args) = More(done, Meanings(read)[c])
  BY DEF TakenApart, AllOfIt, text
<1> HIDE DEF read
<1>3. ThisOption \in Option
  <2>1. read[c] \in Read
    BY <1>1, ElementOfSeq
  <2> QED BY <1>1, <2>1 DEF Read
<1>4. Meanings(read)[c] = [options |-> <<ThisOption>>, length |-> taken, ok |-> TRUE]
  <2>1. Meanings(read)[c] = [options |-> <<read[c].option>>,
                             length |-> IF read[c].detached THEN 2 ELSE 1, ok |-> TRUE]
    BY <1>1, MeaningOfOk
  <2>2. taken = IF read[c].detached THEN 2 ELSE 1
    BY <1>1 DEF taken
  <2> QED BY <1>1, <2>1, <2>2
<1>5. taken \in {1, 2} /\ args + taken - 1 <= Len(vector)
  <2>1. args \in 1 .. Len(vector) /\ Len(vector) \in Nat
    BY DEF TakenApart, IsChoice
  <2>2. CASE attachedArg = NoArg
    <3> DEFINE check == mode.usage[descriptor].check_arg
    <3>1. check_arg(check, optarg, attachedArg # NoArg) = "ARG_OK"
      BY <1>1 DEF checked
    <3>2. optarg # NoArg
      BY <3>1, ArgIsThere
    <3>3. args < Len(vector)
      BY <2>2, <3>2 DEF optarg, detachedArg
    <3> QED BY <2>1, <3>3 DEF taken
  <2>3. CASE attachedArg # NoArg
    BY <2>1, <2>3 DEF taken
  <2> QED BY <2>2, <2>3
<1>6. More(done, [options |-> <<ThisOption>>, length |-> taken, ok |-> TRUE])
        = [options |-> done \o <<ThisOption>>, length |-> taken, ok |-> TRUE]
  BY DEF More
<1> QED BY <1>2, <1>3, <1>4, <1>5, <1>6

\* The end of a group.
LEMMA MeansEnd ==
  ASSUME mode \in Mode, vector \in Seq(Text), args \in Nat, NEW done \in Seq(Option),
         TakenApart(mode, vector, args, group, done), GroupEnds
  PROVE  Meaning(mode, vector, args) = [options |-> done, length |-> 1, ok |-> TRUE]
<1> DEFINE read == AllOfIt
           c == group.param
<1>1. read \in Seq(Read) /\ c = Len(read) + 1
  BY GroupReads
<1>2. Meaning(mode, vector, args) = More(done, Meanings(read)[c])
  BY DEF TakenApart, AllOfIt, text
<1> HIDE DEF read
<1>3. Meanings(read)[c] = [options |-> <<>>, length |-> 1, ok |-> TRUE]
  BY <1>1, MeaningAtEnd
<1>4. done \o <<>> = done
  BY ConcatEmptySeq
<1> QED BY <1>2, <1>3, <1>4 DEF More

\* An illegal option.
LEMMA MeansIllegal ==
  ASSUME mode \in Mode, vector \in Seq(Text), args \in Nat, NEW done \in Seq(Option),
         TakenApart(mode, vector, args, group, done), checked = "ARG_ILLEGAL"
  PROVE  Meaning(mode, vector, args) = [options |-> done, length |-> 1, ok |-> FALSE]
<1> DEFINE read == AllOfIt
           c == group.param
<1>1. read \in Seq(Read) /\ c \in 1 .. Len(read) /\ read[c].verdict = "ARG_ILLEGAL"
  <2>1. ~GroupEnds
    BY GroupReads
  <2>2. read \in Seq(Read) /\ c \in 1 .. Len(read) + 1 /\ c # Len(read) + 1
        /\ checked = read[c].verdict
    BY <2>1, GroupReads
  <2> HIDE DEF read, c
  <2>3. c \in 1 .. Len(read)
    BY <2>2
  <2> QED BY <2>2, <2>3
<1>2. Meaning(mode, vector, args) = More(done, Meanings(read)[c])
  BY DEF TakenApart, AllOfIt, text
<1> HIDE DEF read
<1>3. Meanings(read)[c] = [options |-> <<>>, length |-> 1, ok |-> FALSE]
  BY <1>1, MeaningOfIllegal
<1>4. done \o <<>> = done
  BY ConcatEmptySeq
<1> QED BY <1>2, <1>3, <1>4 DEF More

-----------------------------------------------------------------------------
(* A step through the argument that is taken apart.                        *)

\* The options that are done after this one.
DoneNow(done) == IF Performs THEN done \o <<ThisOption>> ELSE done

\* Where the parser is.
InVector ==
  /\ mode \in Mode
  /\ vectors \in Seq(Seq(Text))
  /\ feed \in 1 .. Len(vectors)
  /\ args \in Nat \ {0}
  /\ nonops \in Nat

LEMMA VectorType ==
  ASSUME InVector
  PROVE  vector \in Seq(Text) /\ mode \in Mode /\ args \in Nat
<1>1. vectors[feed] \in Seq(Text)
  BY DEF InVector
<1> QED BY <1>1 DEF InVector, vector

\* The argument is done: all its options are known.
LEMMA SaysAll ==
  ASSUME InVector, NEW done \in Seq(Option),
         TakenApart(mode, vector, args, group, done),
         IsLong \/ checked \in {"ARG_OK", "group_end"}, checked # "ARG_ILLEGAL"
  PROVE  /\ DoneNow(done) \in Seq(Option) /\ taken \in {1, 2}
         /\ Says(mode, vector, args, DoneNow(done), taken)
<1>0. vector \in Seq(Text) /\ mode \in Mode /\ args \in Nat
  BY VectorType
<1>1. IsChoice(vector, args) /\ args \in 1 .. Len(vector) /\ Len(vector) \in Nat
  BY DEF TakenApart, IsChoice
<1>2. CASE checked = "ARG_OK"
  <2>1. /\ Meaning(mode, vector, args)
             = [options |-> done \o <<ThisOption>>, length |-> taken, ok |-> TRUE]
        /\ ThisOption \in Option
        /\ taken \in {1, 2} /\ args + taken - 1 <= Len(vector)
    BY <1>0, <1>2, MeansOk
  <2>2. DoneNow(done) = done \o <<ThisOption>>
    BY <1>2 DEF DoneNow, Performs
  <2>3. <<ThisOption>> \in Seq(Option)
    BY <2>1
  <2>4. done \o <<ThisOption>> \in Seq(Option)
    BY <2>3, ConcatProperties
  <2> QED BY <1>1, <2>1, <2>2, <2>4 DEF Says
<1>3. CASE checked # "ARG_OK"
  <2>0. taken = 1 /\ args + taken - 1 <= Len(vector)
    BY <1>1, <1>3 DEF taken
  <2>1. CASE GroupEnds
    <3>1. Meaning(mode, vector, args) = [options |-> done, length |-> 1, ok |-> TRUE]
      BY <1>0, <2>1, MeansEnd
    <3>2. checked = "group_end"
      BY <2>1 DEF checked
    <3>3. DoneNow(done) = done
      BY <3>2 DEF DoneNow, Performs
    <3> QED BY <1>1, <2>0, <3>1, <3>3 DEF Says
  <2>2. CASE ~GroupEnds
    <3>1. /\ AllOfIt \in Seq(Read) /\ group.param \in 1 .. Len(AllOfIt) + 1
          /\ group.param # Len(AllOfIt) + 1 /\ checked = AllOfIt[group.param].verdict
      BY <1>0, <2>2, GroupReads
    <3> DEFINE read == AllOfIt
               c == group.param
    <3>2. c \in 1 .. Len(read) /\ read \in Seq(Read) /\ checked = read[c].verdict
      <4> HIDE DEF read, c
      <4>1. c \in 1 .. Len(read) + 1 /\ c # Len(read) + 1 /\ read \in Seq(Read)
        BY <3>1 DEF read, c
      <4>2. c \in 1 .. Len(read)
        BY <4>1
      <4> QED BY <3>1, <4>2 DEF read, c
    <3>3. checked \in Verdict
      <4>1. read[c] \in Read
        <5> HIDE DEF read, c
        <5> QED BY <3>2, ElementOfSeq
      <4> QED BY <3>2, <4>1 DEF Read
    <3>4. IsLong /\ checked \in {"undescribed", "ARG_NONE", "ARG_IGNORE"}
      BY <1>3, <3>3 DEF Verdict
    <3>5. c + 1 = Len(read) + 1
      <4>1. ReadLong(mode, text) /\ c = 1
        BY <3>4, GroupIsLong
      <4>2. Len(read) = 1
        <5>1. text \in Text /\ IsOption(text) /\ NextArg(vector, args) \in Arg
          BY <1>0, <1>1, NextArgType DEF text, IsChoice
        <5> QED BY <1>0, <4>1, <5>1, AllReadType DEF AllOfIt
      <4> QED BY <4>1, <4>2
    <3>6. Meanings(read)[c + 1] = [options |-> <<>>, length |-> 1, ok |-> TRUE]
      <4>1. Meanings(read)[Len(read) + 1] = [options |-> <<>>, length |-> 1, ok |-> TRUE]
        BY <3>2, MeaningAtEnd
      <4> QED BY <3>5, <4>1
    <3>7. Meaning(mode, vector, args) = More(DoneNow(done), Meanings(read)[c + 1])
          /\ DoneNow(done) \in Seq(Option)
      <4>1. CASE checked = "undescribed"
        <5>1. DoneNow(done) = done
          BY <4>1 DEF DoneNow, Performs
        <5> QED BY <1>0, <4>1, <5>1, MeansUndescribed
      <4>2. CASE checked \in {"ARG_NONE", "ARG_IGNORE"}
        <5>1. DoneNow(done) = done \o <<ThisOption>>
          BY <4>2 DEF DoneNow, Performs
        <5>2. Meaning(mode, vector, args) = More(done \o <<ThisOption>>, Meanings(read)[c + 1])
              /\ ThisOption \in Option
          BY <1>0, <4>2, MeansFlag
        <5>3. <<ThisOption>> \in Seq(Option)
          BY <5>2
        <5>4. done \o <<ThisOption>> \in Seq(Option)
          BY <5>3, ConcatProperties
        <5> QED BY <5>1, <5>2, <5>4
      <4> QED BY <3>4, <4>1, <4>2
    <3> DEFINE d == DoneNow(done)
    <3>8. d \in Seq(Option)
      BY <3>7
    <3>9. More(d, [options |-> <<>>, length |-> 1, ok |-> TRUE])
            = [options |-> d, length |-> 1, ok |-> TRUE]
      <4> HIDE DEF d
      <4>1. d \o <<>> = d
        BY <3>8, ConcatEmptySeq
      <4> QED BY <4>1 DEF More
    <3>10. Meaning(mode, vector, args) = [options |-> d, length |-> 1, ok |-> TRUE]
      <4> HIDE DEF d
      <4> QED BY <3>6, <3>7, <3>9 DEF d
    <3> QED BY <1>1, <2>0, <3>8, <3>10 DEF Says
  <2> QED BY <2>1, <2>2
<1> QED BY <1>2, <1>3

\* The next option of the group follows.
LEMMA SaysMore ==
  ASSUME InVector, NEW done \in Seq(Option),
         TakenApart(mode, vector, args, group, done),
         ~IsLong, checked \notin {"ARG_OK", "group_end", "ARG_ILLEGAL"}
  PROVE  /\ DoneNow(done) \in Seq(Option)
         /\ TakenApart(mode, vector, args, [param |-> char, short |-> TRUE, long |-> FALSE],
                       DoneNow(done))
<1>0. vector \in Seq(Text) /\ mode \in Mode /\ args \in Nat
  BY VectorType
<1>1. IsChoice(vector, args) /\ args \in 1 .. Len(vector) /\ Len(vector) \in Nat
  BY DEF TakenApart, IsChoice
<1>2. ~GroupEnds
  BY DEF checked
<1> DEFINE read == AllOfIt
           c == group.param
           d == DoneNow(done)
<1>3. /\ read \in Seq(Read) /\ c \in 1 .. Len(read) + 1
      /\ c # Len(read) + 1 /\ checked = read[c].verdict
  BY <1>0, <1>2, GroupReads
<1>4. c \in 1 .. Len(read)
  <2> HIDE DEF read, c
  <2> QED BY <1>3
<1>5. checked \in {"undescribed", "ARG_NONE", "ARG_IGNORE"}
  <2>1. read[c] \in Read
    <3> HIDE DEF read, c
    <3> QED BY <1>3, <1>4, ElementOfSeq
  <2>2. checked \in Verdict
    BY <1>3, <2>1 DEF Read
  <2> QED BY <2>2 DEF Verdict
<1>6. Meaning(mode, vector, args) = More(d, Meanings(read)[c + 1]) /\ d \in Seq(Option)
  <2>1. CASE checked = "undescribed"
    <3>1. DoneNow(done) = done
      BY <2>1 DEF DoneNow, Performs
    <3> QED BY <1>0, <2>1, <3>1, MeansUndescribed
  <2>2. CASE checked \in {"ARG_NONE", "ARG_IGNORE"}
    <3>1. DoneNow(done) = done \o <<ThisOption>>
      BY <2>2 DEF DoneNow, Performs
    <3>2. Meaning(mode, vector, args) = More(done \o <<ThisOption>>, Meanings(read)[c + 1])
          /\ ThisOption \in Option
      BY <1>0, <2>2, MeansFlag
    <3>3. <<ThisOption>> \in Seq(Option)
      BY <3>2
    <3>4. done \o <<ThisOption>> \in Seq(Option)
      BY <3>3, ConcatProperties
    <3> QED BY <3>1, <3>2, <3>4
  <2> QED BY <1>5, <2>1, <2>2
<1>7. ~ReadLong(mode, text)
  BY GroupIsLong
<1>8. char \in 1 .. Len(text) /\ char = c + 1
  <2>1. text \in Text /\ IsOption(text) /\ NextArg(vector, args) \in Arg
    BY <1>0, <1>1, NextArgType DEF text, IsChoice
  <2>2. Len(read) = Len(text) - 1 /\ Len(text) \in Nat
    BY <1>0, <1>7, <2>1, AllReadType DEF AllOfIt, Text
  <2>3. char = c + 1
    BY DEF char
  <2> HIDE DEF read, c
  <2> QED BY <1>4, <2>2, <2>3
<1>9. Meaning(mode, vector, args) = More(d, Meanings(AllRead(mode, text, NextArg(vector, args)))[char])
  BY <1>6, <1>8 DEF AllOfIt
<1> DEFINE g == [param |-> char, short |-> TRUE, long |-> FALSE]
<1>10. g.param = char
  OBVIOUS
<1> HIDE DEF read, c, d
<1>11. TakenApart(mode, vector, args, g, d)
  BY <1>1, <1>7, <1>8, <1>9, <1>10 DEF TakenApart, text
<1> QED BY <1>6, <1>11 DEF d

-----------------------------------------------------------------------------
(* The steps of workhorse keep track.                                      *)

LEMMA StartsScanned ==
  ASSUME NEW m \in Mode, NEW v \in Seq(Text)
  PROVE  Scanned(m, v, 1, 0, NoGroup, <<>>, <<>>)
<1>1. Len(v) \in Nat /\ 1 \in 1 .. Len(v) + 1 /\ 0 \in 0 .. 1 - 1 /\ 1 - 0 = 1
  OBVIOUS
<1>2. PassedOver(m, v, 1, 1)
  BY DEF PassedOver
<1>3. PrefixReads(m, v, 1, <<>>)
  BY NothingReads
<1> QED BY <1>1, <1>2, <1>3 DEF Scanned

LEMMA PassOverScanned ==
  ASSUME NEW m \in Mode, NEW v \in Seq(Text), NEW a \in 1 .. Len(v), NEW n, NEW opts, NEW done,
         Scanned(m, v, a, n, NoGroup, opts, done), ~IsOption(v[a]), m.gnu
  PROVE  Scanned(m, v, a + 1, n + 1, NoGroup, opts, done)
<1>1. n \in 0 .. a - 1 /\ PrefixReads(m, v, a - n, opts) /\ PassedOver(m, v, a - n, a) /\ done = <<>>
  BY DEF Scanned
<1>2. (a + 1) - (n + 1) = a - n /\ a + 1 \in 1 .. Len(v) + 1 /\ n + 1 \in 0 .. (a + 1) - 1
  BY <1>1
<1>3. PassedOver(m, v, a - n, a + 1)
  <2>1. ASSUME NEW k \in a - n .. (a + 1) - 1 PROVE IsOther(v, k)
    <3>1. CASE k = a
      BY <3>1 DEF IsOther
    <3>2. CASE k # a
      <4>1. k \in a - n .. a - 1
        BY <3>2, <1>1
      <4> QED BY <4>1, <1>1 DEF PassedOver
    <3> QED BY <3>1, <3>2
  <2> QED BY <2>1 DEF PassedOver
<1> QED BY <1>1, <1>2, <1>3 DEF Scanned

LEMMA TakeApartScanned ==
  ASSUME NEW m \in Mode, NEW v \in Seq(Text), NEW a \in 1 .. Len(v), NEW n, NEW opts, NEW done,
         Scanned(m, v, a, n, NoGroup, opts, done), IsOption(v[a]), ~IsDashDash(v[a])
  PROVE  Scanned(m, v, a, n,
                 [param |-> 1, short |-> v[a][2] # "-", long |-> m.single_minus_longopt],
                 opts, <<>>)
<1> DEFINE g == [param |-> 1, short |-> v[a][2] # "-", long |-> m.single_minus_longopt]
           read == AllRead(m, v[a], NextArg(v, a))
<1>1. IsChoice(v, a) /\ v[a] \in Text /\ NextArg(v, a) \in Arg
  BY NextArgType DEF IsChoice
<1>2. read \in Seq(Read)
  BY <1>1, AllReadType
<1>3. Meanings(read)[1] \in MeaningType
  <2> HIDE DEF read
  <2>1. 1 \in 1 .. Len(read) + 1
    BY <1>2
  <2> QED BY <1>2, <2>1, MeaningsEquation
<1>4. Meaning(m, v, a) = More(<<>>, Meanings(read)[1])
  BY <1>3, NoMore DEF Meaning
<1>5. 1 \in 1 .. Len(v[a])
  BY <1>1 DEF IsOption, Text
<1>6. g.param = 1 /\ g # NoGroup
  BY DEF NoGroup
<1>7. TakenApart(m, v, a, g, <<>>)
  BY <1>1, <1>4, <1>5, <1>6 DEF TakenApart
<1> HIDE DEF g
<1>8. Scanned(m, v, a, n, g, opts, <<>>)
  BY <1>6, <1>7 DEF Scanned
<1> QED BY <1>8 DEF g

\* The end of an argument that was taken apart: it is moved.
LEMMA ArgumentScanned ==
  ASSUME NEW m \in Mode, NEW v \in Seq(Text), NEW w, NEW a \in Nat \ {0}, NEW n \in Nat, NEW g,
         NEW opts \in Seq(Option), NEW done, g # NoGroup,
         Scanned(m, v, a, n, g, opts, done),
         NEW more \in Seq(Option), NEW length \in {1, 2}, Says(m, v, a, more, length),
         Moved(v, w, a - n, a, length)
  PROVE  Scanned(m, w, a + length, n, NoGroup, opts \o more, <<>>)
<1> DEFINE p == a - n
<1>1. /\ a \in 1 .. Len(v) + 1 /\ n \in 0 .. a - 1 /\ PrefixReads(m, v, p, opts)
      /\ PassedOver(m, v, p, a)
  BY DEF Scanned
<1>2. p \in Nat \ {0} /\ p <= a /\ (a + length) - n = p + length
      /\ n \in 0 .. (a + length) - 1
  BY <1>1
<1>3. a + length - 1 <= Len(v) /\ Len(v) \in Nat
  BY DEF Says
<1>4. Moved(v, w, p, a, length) /\ Len(w) = Len(v)
  BY DEF Moved
<1> HIDE DEF p
<1>5. PrefixReads(m, w, p + length, opts \o more)
  BY <1>1, <1>2, <1>4, OptionMoves, ZenonT(60)
<1>6. PassedOver(m, w, p + length, a + length)
  <2>1. a \in Nat
    OBVIOUS
  <2> QED BY <1>1, <1>2, <1>3, <1>4, <2>1, MovedPassedOver
<1>7. a + length \in 1 .. Len(w) + 1
  BY <1>3, <1>4
<1> QED BY <1>2, <1>5, <1>6, <1>7 DEF Scanned

LEMMA ArgumentReads ==
  ASSUME NEW m \in Mode, NEW v \in Seq(Text), NEW w, NEW a \in Nat \ {0}, NEW n \in Nat, NEW g,
         NEW opts \in Seq(Option), NEW done, g # NoGroup,
         Scanned(m, v, a, n, g, opts, done),
         NEW more \in Seq(Option), NEW length \in {1, 2}, Says(m, v, a, more, length),
         Moved(v, w, a - n, a, length)
  PROVE  Reading(m, w) = Reading(m, v)
<1> DEFINE p == a - n
<1>1. PrefixReads(m, v, p, opts) /\ PassedOver(m, v, p, a) /\ Moved(v, w, p, a, length)
  BY DEF Scanned
<1>2. p \in Nat \ {0} /\ p <= a
  BY DEF Scanned
<1> HIDE DEF p
<1>3. Readings(m, w)[1] = Readings(m, v)[1]
  BY <1>1, <1>2, OptionMoves
<1> QED BY <1>3 DEF Reading

\* The vectors but for the one the parser is in.
OtherVectorsKept ==
  /\ vectors' \in Seq(Seq(Text)) /\ Len(vectors') = Len(vectors)
  /\ \A g \in 1 .. Len(vectors) : g # feed => vectors'[g] = vectors[g]

LEMMA OneVector ==
  ASSUME InVector, NEW w \in Seq(Text), vectors' = [vectors EXCEPT ![feed] = w]
  PROVE  OtherVectorsKept /\ vectors'[feed] = w
<1>1. vectors \in Seq(Seq(Text)) /\ feed \in 1 .. Len(vectors)
  BY DEF InVector
<1>2. vectors' \in Seq(Seq(Text)) /\ Len(vectors') = Len(vectors)
  BY <1>1, ExceptSeq
<1> QED BY <1>1, <1>2 DEF OtherVectorsKept

LEMMA GoOnScanned ==
  ASSUME InVector, NEW opts \in Seq(Option), NEW done \in Seq(Option),
         group # NoGroup, Scanned(mode, vector, args, nonops, group, opts, done),
         checked # "ARG_ILLEGAL", GoOn
  PROVE  /\ \E o, d \in Seq(Option) :
              /\ Scanned(mode, vectors'[feed], args', nonops, group', o, d)
              /\ o \o d = opts \o DoneNow(done)
         /\ Reading(mode, vectors'[feed]) = Reading(mode, vector)
         /\ OtherVectorsKept
         /\ args' \in Nat \ {0}
         /\ DoneNow(done) \in Seq(Option)
<1>0. vector \in Seq(Text) /\ mode \in Mode /\ args \in Nat \ {0} /\ nonops \in Nat
      /\ feed \in 1 .. Len(vectors) /\ vectors \in Seq(Seq(Text)) /\ vector = vectors[feed]
  BY VectorType DEF InVector, vector
<1>1. /\ TakenApart(mode, vector, args, group, done)
      /\ args \in 1 .. Len(vector) + 1 /\ nonops \in 0 .. args - 1
  BY DEF Scanned
<1>2. CASE ~IsLong /\ checked \notin {"ARG_OK", "group_end"}
  <2> DEFINE g == [param |-> char, short |-> TRUE, long |-> FALSE]
  <2>1. group' = g /\ vectors' = vectors /\ args' = args
    BY <1>2 DEF GoOn
  <2>2. DoneNow(done) \in Seq(Option) /\ TakenApart(mode, vector, args, g, DoneNow(done))
    BY <1>1, <1>2, SaysMore
  <2>3. g # NoGroup
    BY DEF NoGroup
  <2> HIDE DEF g
  <2>4. Scanned(mode, vector, args, nonops, g, opts, DoneNow(done))
    BY <1>1, <2>2, <2>3 DEF Scanned
  <2>5. OtherVectorsKept
    BY <1>0, <2>1 DEF OtherVectorsKept
  <2> QED BY <1>0, <2>1, <2>2, <2>4, <2>5
<1>3. CASE ~(~IsLong /\ checked \notin {"ARG_OK", "group_end"})
  <2> DEFINE more == DoneNow(done)
             w == IF taken = 2 THEN shift(shift(vector, args, nonops), args + 1, nonops)
                  ELSE shift(vector, args, nonops)
             p == args - nonops
  <2>1. more \in Seq(Option) /\ taken \in {1, 2} /\ Says(mode, vector, args, more, taken)
    BY <1>1, <1>3, SaysAll
  <2>2. /\ group' = NoGroup /\ args' = args + taken
        /\ vectors' = [vectors EXCEPT ![feed] = w]
    BY <1>0, <1>3 DEF GoOn
  <2>3. args \in 1 .. Len(vector) /\ args + taken - 1 <= Len(vector)
    BY <2>1 DEF Says, IsChoice
  <2>4. Moved(vector, w, p, args, taken)
    <3>1. CASE taken = 1
      <4>1. w = shift(vector, args, nonops)
        BY <3>1
      <4> QED BY <1>0, <1>1, <2>3, <3>1, <4>1, ShiftMoves
    <3>2. CASE taken = 2
      <4>1. w = shift(shift(vector, args, nonops), args + 1, nonops)
        BY <3>2
      <4>2. args + 1 <= Len(vector)
        BY <1>0, <2>3, <3>2
      <4> QED BY <1>0, <1>1, <2>3, <3>2, <4>1, <4>2, ShiftMovesTwo
    <3> QED BY <2>1, <3>1, <3>2
  <2> HIDE DEF w, more
  <2>5. w \in Seq(Text)
    BY <2>4 DEF Moved
  <2>6. OtherVectorsKept /\ vectors'[feed] = w
    BY <2>2, <2>5, OneVector
  <2>7. Scanned(mode, w, args + taken, nonops, NoGroup, opts \o more, <<>>)
        /\ Reading(mode, w) = Reading(mode, vector)
    <3> DEFINE length == taken
               v == vector
               a == args
               n == nonops
               g == group
    <3>1. /\ mode \in Mode /\ v \in Seq(Text) /\ a \in Nat \ {0} /\ n \in Nat /\ g # NoGroup
          /\ Scanned(mode, v, a, n, g, opts, done) /\ length \in {1, 2}
          /\ Says(mode, v, a, more, length) /\ Moved(v, w, a - n, a, length)
      BY <1>0, <2>1, <2>4
    <3> HIDE DEF length, v, a, n, g
    <3>3. Scanned(mode, w, a + length, n, NoGroup, opts \o more, <<>>)
      BY <2>1, <3>1, ArgumentScanned
    <3>2. Reading(mode, w) = Reading(mode, v)
      BY <2>1, <3>1, ArgumentReads
    <3> QED BY <3>2, <3>3 DEF length, v, a, n
  <2>8. opts \o more \in Seq(Option) /\ <<>> \in Seq(Option) /\ (opts \o more) \o <<>> = opts \o more
    <3>1. opts \o more \in Seq(Option)
      BY <2>1, ConcatProperties
    <3> DEFINE s == opts \o more
    <3> HIDE DEF s
    <3>2. s \o <<>> = s
      BY <3>1, ConcatEmptySeq DEF s
    <3> QED BY <3>1, <3>2 DEF s
  <2>9. args' \in Nat \ {0}
    BY <1>0, <2>1, <2>2
  <2> QED BY <2>1, <2>2, <2>6, <2>7, <2>8, <2>9 DEF more
<1> QED BY <1>2, <1>3

-----------------------------------------------------------------------------
(* What several vectors say.                                               *)

LEMMA ReadingHasType ==
  ASSUME NEW m \in Mode, NEW v \in Seq(Text)
  PROVE  Reading(m, v) \in ReadingType
<1>1. 1 \in 1 .. Len(v) + 2
  OBVIOUS
<1> QED BY <1>1, ReadingsEquation DEF Reading

LEMMA ReadingParts ==
  ASSUME NEW m \in Mode, NEW v \in Seq(Text)
  PROVE  /\ Reading(m, v).options \in Seq(Option)
         /\ Reading(m, v).others \in Seq(Text)
         /\ Reading(m, v).ok \in BOOLEAN
BY ReadingHasType DEF ReadingType

LEMMA OptionsUpToEquation ==
  ASSUME NEW m \in Mode, NEW lines \in Seq(Seq(Text))
  PROVE  /\ OptionsUpTo(m, lines) \in [0 .. Len(lines) -> Seq(Option)]
         /\ OptionsUpTo(m, lines)[0] = <<>>
         /\ \A f \in 1 .. Len(lines) :
              OptionsUpTo(m, lines)[f] = OptionsUpTo(m, lines)[f - 1] \o Reading(m, lines[f]).options
<1> DEFINE N == Len(lines)
           X == Seq(Option)
           o(f) == Reading(m, lines[f]).options
           G == [f \in 1 .. N |-> [s \in X |-> s \o o(f)]]
           Step(h, f) == IF f = 0 THEN <<>> ELSE h[f - 1] \o o(f)
           Is(h) == h = [f \in 0 .. N |-> Step(h, f)]
<1>1. N \in Nat /\ <<>> \in X
  BY EmptySeq
<1>2. \A f \in 1 .. N : o(f) \in X
  BY ReadingParts, ElementOfSeq
<1> HIDE DEF o
<1>3. \A f \in 1 .. N, s \in X : s \o o(f) \in X
  <2> SUFFICES ASSUME NEW f \in 1 .. N, NEW s \in X PROVE s \o o(f) \in X
    OBVIOUS
  <2>1. o(f) \in X
    BY <1>2
  <2> QED BY <2>1, ConcatProperties
<1> HIDE DEF X
<1>4. G \in [1 .. N -> [X -> X]] /\ \A f \in 1 .. N, s \in X : G[f][s] = s \o o(f)
  BY <1>3
<1> HIDE DEF G
<1>5. PICK h \in [0 .. N -> X] : h[0] = <<>> /\ \A f \in 1 .. N : h[f] = G[f][h[f - 1]]
  <2>1. StepsUpwards(N, X, <<>>, G)
    BY <1>1, <1>4 DEF StepsUpwards
  <2> HIDE DEF N
  <2> QED BY <2>1, RecursionUpwards
<1>6. Is(h)
  <2>1. ASSUME NEW f \in 0 .. N PROVE h[f] = Step(h, f)
    <3>1. CASE f = 0
      BY <1>5, <3>1
    <3>2. CASE f # 0
      <4>1. f \in 1 .. N /\ f - 1 \in 0 .. N
        BY <3>2
      <4>2. h[f] = G[f][h[f - 1]] /\ h[f - 1] \in X
        BY <1>5, <4>1
      <4> QED BY <1>4, <3>2, <4>1, <4>2
    <3> QED BY <3>1, <3>2
  <2> QED BY <2>1
<1>7. OptionsUpTo(m, lines) = CHOOSE g : Is(g)
  BY DEF OptionsUpTo, o
<1> DEFINE U == OptionsUpTo(m, lines)
<1>8. Is(U)
  <2> HIDE DEF Is
  <2> QED BY <1>6, <1>7
<1> HIDE DEF U
<1>9. U[0] = <<>> /\ \A f \in 1 .. N : U[f] = U[f - 1] \o o(f)
  <2>1. \A f \in 0 .. N : U[f] = Step(U, f)
    BY <1>8
  <2>2. ASSUME NEW f \in 1 .. N PROVE U[f] = U[f - 1] \o o(f)
    <3>1. f \in 0 .. N /\ f # 0
      BY <1>1
    <3>2. U[f] = Step(U, f)
      BY <2>1, <3>1
    <3> QED BY <3>1, <3>2
  <2>3. U[0] = Step(U, 0)
    BY <1>1, <2>1
  <2> QED BY <2>2, <2>3
<1>10. U \in [0 .. N -> X]
  <2> DEFINE T == {f \in 0 .. N : U[f] \in X}
  <2>1. 0 \in T
    BY <1>1, <1>9
  <2>2. ASSUME NEW f \in 0 .. N - 1, f \in T PROVE f + 1 \in T
    <3>1. f + 1 \in 1 .. N /\ (f + 1) - 1 = f /\ U[f] \in X
      BY <2>2
    <3>2. U[f + 1] = U[f] \o o(f + 1)
      BY <1>9, <3>1
    <3>3. U[f] \o o(f + 1) \in X
      BY <1>3, <3>1
    <3>4. U[f + 1] \in X /\ f + 1 \in 0 .. N
      BY <3>1, <3>2, <3>3
    <3> QED BY <3>4
  <2>3. \A f \in 0 .. N : f \in T
    <3>1. 0 \in Int /\ N \in Int
      OBVIOUS
    <3> HIDE DEF T, N
    <3> QED BY <2>1, <2>2, <3>1, Upwards
  <2> QED BY <1>8, <2>3
<1> QED BY <1>9, <1>10 DEF U, X, o

\* The options become more and more.
LEMMA OptionsUpToGrow ==
  ASSUME NEW m \in Mode, NEW lines \in Seq(Seq(Text)),
         NEW f \in 0 .. Len(lines), NEW g \in f .. Len(lines)
  PROVE  Len(OptionsUpTo(m, lines)[f]) <= Len(OptionsUpTo(m, lines)[g])
<1> DEFINE U == OptionsUpTo(m, lines)
           N == Len(lines)
           T == {k \in f .. N : Len(U[f]) <= Len(U[k])}
<1>1. /\ U \in [0 .. N -> Seq(Option)]
      /\ \A k \in 1 .. N : U[k] = U[k - 1] \o Reading(m, lines[k]).options
  BY OptionsUpToEquation
<1>2. N \in Nat /\ f \in Nat /\ f \in f .. N /\ g \in f .. N
  OBVIOUS
<1> HIDE DEF U
<1>3. f \in T
  <2>1. U[f] \in Seq(Option)
    BY <1>1
  <2> QED BY <1>2, <2>1
<1>4. ASSUME NEW k \in f .. N - 1, k \in T PROVE k + 1 \in T
  <2>1. k + 1 \in 1 .. N /\ (k + 1) - 1 = k /\ k + 1 \in f .. N /\ k \in 0 .. N
    BY <1>2
  <2> DEFINE s == U[k]
             t == Reading(m, lines[k + 1]).options
  <2>2. U[k + 1] = s \o t
    BY <1>1, <2>1
  <2>3. s \in Seq(Option) /\ t \in Seq(Option)
    <3>1. lines[k + 1] \in Seq(Text)
      BY <2>1, ElementOfSeq
    <3> QED BY <1>1, <2>1, <3>1, ReadingParts
  <2>4. Len(U[f]) \in Nat
    BY <1>1
  <2> HIDE DEF s, t
  <2>5. Len(s \o t) = Len(s) + Len(t) /\ Len(s) \in Nat /\ Len(t) \in Nat
    BY <2>3, ConcatProperties
  <2>6. Len(U[f]) <= Len(s)
    BY <1>4 DEF s
  <2>7. Len(U[f]) <= Len(U[k + 1])
    BY <2>2, <2>4, <2>5, <2>6
  <2> QED BY <2>1, <2>7
<1>5. g \in T
  <2>1. f \in Int /\ N \in Int
    BY <1>2
  <2> HIDE DEF T, N
  <2>2. \A k \in f .. N : k \in T
    BY <1>3, <1>4, <2>1, Upwards
  <2> QED BY <1>2, <2>2
<1> QED BY <1>5 DEF U

\* The other arguments of the first k vectors: those of the last one that has some.
OthersUpTo(m, lines, k) ==
  LET given == {f \in 1 .. k : Reading(m, lines[f]).ok /\ Reading(m, lines[f]).others # <<>>}
  IN IF given = {} THEN <<>>
     ELSE Reading(m, lines[CHOOSE f \in given : \A g \in given : g <= f]).others

LEMMA NoOthers ==
  ASSUME NEW m, NEW lines
  PROVE  OthersUpTo(m, lines, 0) = <<>>
<1>1. {f \in 1 .. 0 : Reading(m, lines[f]).ok /\ Reading(m, lines[f]).others # <<>>} = {}
  OBVIOUS
<1> QED BY <1>1 DEF OthersUpTo

LEMMA OthersKept ==
  ASSUME NEW m, NEW lines, NEW k \in Nat \ {0},
         ~(Reading(m, lines[k]).ok /\ Reading(m, lines[k]).others # <<>>)
  PROVE  OthersUpTo(m, lines, k) = OthersUpTo(m, lines, k - 1)
<1> DEFINE given(n) ==
             {f \in 1 .. n : Reading(m, lines[f]).ok /\ Reading(m, lines[f]).others # <<>>}
<1>1. given(k) = given(k - 1)
  OBVIOUS
<1>2. \A n : OthersUpTo(m, lines, n) =
               IF given(n) = {} THEN <<>>
               ELSE Reading(m, lines[CHOOSE f \in given(n) : \A g \in given(n) : g <= f]).others
  BY DEF OthersUpTo
<1> HIDE DEF given
<1> QED BY <1>1, <1>2

LEMMA OthersReplaced ==
  ASSUME NEW m, NEW lines, NEW k \in Nat \ {0},
         Reading(m, lines[k]).ok /\ Reading(m, lines[k]).others # <<>>
  PROVE  OthersUpTo(m, lines, k) = Reading(m, lines[k]).others
<1> DEFINE given ==
             {f \in 1 .. k : Reading(m, lines[f]).ok /\ Reading(m, lines[f]).others # <<>>}
           last == CHOOSE f \in given : \A g \in given : g <= f
<1>1. k \in given /\ \A g \in given : g <= k /\ g \in Nat
  OBVIOUS
<1>2. OthersUpTo(m, lines, k) = IF given = {} THEN <<>> ELSE Reading(m, lines[last]).others
  BY DEF OthersUpTo
<1>3. last = k
  <2> HIDE DEF given
  <2>1. last \in given /\ \A g \in given : g <= last
    BY <1>1
  <2> HIDE DEF last
  <2>2. last <= k /\ k <= last /\ last \in Nat
    BY <1>1, <2>1
  <2> QED BY <2>2
<1> HIDE DEF given, last
<1> QED BY <1>1, <1>2, <1>3

\* What all vectors say if the first ones are legal.
LEMMA AllLegal ==
  ASSUME NEW m \in Mode, NEW lines \in Seq(Seq(Text)),
         \A g \in 1 .. Len(lines) : Reading(m, lines[g]).ok
  PROVE  AllReadings(m, lines) = [options |-> OptionsUpTo(m, lines)[Len(lines)],
                                  others |-> OthersUpTo(m, lines, Len(lines)), ok |-> TRUE]
<1> DEFINE bad == {f \in DOMAIN lines : ~Reading(m, lines[f]).ok}
           last == IF bad = {} THEN Len(lines) ELSE CHOOSE f \in bad : \A g \in bad : f <= g
<1>1. AllReadings(m, lines) = [options |-> OptionsUpTo(m, lines)[last],
                               others |-> OthersUpTo(m, lines, last), ok |-> bad = {}]
  BY DEF AllReadings, OthersUpTo
<1>2. bad = {}
  OBVIOUS
<1>3. last = Len(lines)
  BY <1>2
<1> HIDE DEF bad, last
<1> QED BY <1>1, <1>2, <1>3

LEMMA FirstIllegal ==
  ASSUME NEW m \in Mode, NEW lines \in Seq(Seq(Text)), NEW f \in 1 .. Len(lines),
         ~Reading(m, lines[f]).ok, \A g \in 1 .. f - 1 : Reading(m, lines[g]).ok
  PROVE  AllReadings(m, lines) = [options |-> OptionsUpTo(m, lines)[f],
                                  others |-> OthersUpTo(m, lines, f - 1), ok |-> FALSE]
<1> DEFINE bad == {g \in DOMAIN lines : ~Reading(m, lines[g]).ok}
           least == CHOOSE g \in bad : \A h \in bad : g <= h
           last == IF bad = {} THEN Len(lines) ELSE least
<1>1. AllReadings(m, lines) = [options |-> OptionsUpTo(m, lines)[last],
                               others |-> OthersUpTo(m, lines, last), ok |-> bad = {}]
  BY DEF AllReadings, OthersUpTo
<1>2. f \in bad /\ \A h \in bad : f <= h /\ h \in Nat
  OBVIOUS
<1>3. least = f
  <2> HIDE DEF bad
  <2>1. least \in bad /\ \A h \in bad : least <= h
    BY <1>2
  <2> HIDE DEF least
  <2>2. least <= f /\ f <= least /\ least \in Nat
    BY <1>2, <2>1
  <2> QED BY <2>2
<1>4. OthersUpTo(m, lines, f) = OthersUpTo(m, lines, f - 1)
  BY OthersKept
<1> HIDE DEF bad, least
<1>5. last = f /\ (bad = {}) = FALSE
  BY <1>2, <1>3
<1> HIDE DEF last
<1> QED BY <1>1, <1>4, <1>5

\* However the later ones are, the options of the first legal ones are among them.
LEMMA AllSayAtLeast ==
  ASSUME NEW m \in Mode, NEW lines \in Seq(Seq(Text)), NEW f \in 1 .. Len(lines),
         \A g \in 1 .. f - 1 : Reading(m, lines[g]).ok
  PROVE  Len(OptionsUpTo(m, lines)[f]) <= Len(AllReadings(m, lines).options)
<1> DEFINE bad == {g \in DOMAIN lines : ~Reading(m, lines[g]).ok}
           least == CHOOSE g \in bad : \A h \in bad : g <= h
           last == IF bad = {} THEN Len(lines) ELSE least
<1>1. AllReadings(m, lines).options = OptionsUpTo(m, lines)[last]
  BY DEF AllReadings
<1>2. \A h \in bad : h \in f .. Len(lines)
  OBVIOUS
<1>3. bad # {} => least \in bad
  <2>1. bad \in SUBSET Nat
    OBVIOUS
  <2> HIDE DEF bad
  <2> QED BY <2>1, LeastChosen
<1>4. last \in f .. Len(lines)
  <2> HIDE DEF bad, least
  <2> QED BY <1>2, <1>3
<1> HIDE DEF last
<1>5. f \in 0 .. Len(lines)
  OBVIOUS
<1> QED BY <1>1, <1>4, <1>5, OptionsUpToGrow

-----------------------------------------------------------------------------
(* The invariant of the two passes.                                        *)

\* The options of the vectors before this one, and of all.
Before == OptionsUpTo(mode, written)[feed - 1]
AllOptions == OptionsUpTo(mode, written)[Len(written)]

ParserTypeOK ==
  /\ InVector
  /\ written \in Seq(Seq(Text)) /\ Len(vectors) = Len(written)
  /\ pass \in {"count", "store", "done"}
  /\ buffer_max \in 1 .. IntMax /\ op_count \in 0 .. IntMax
  /\ nonOptions \in [feed : Nat, first : Nat, count : Nat]
  /\ err \in BOOLEAN

\* Reordered, the vectors say what they said.
SameReadings ==
  \A g \in 1 .. Len(written) : Reading(mode, vectors[g]) = Reading(mode, written[g])

\* What was counted or stored is what has been read.
Progress(opts, done) ==
  /\ Scanned(mode, vector, args, nonops, group, opts, done)
  /\ pass = "count" => buffer_max = IntMax \/ buffer_max = 1 + Len(Before) + Len(opts \o done)
  /\ pass = "store" => Buffered = Before \o (opts \o done)

Underway == ~err /\ \E opts, done \in Seq(Option) : Progress(opts, done)

\* Nothing is stored while the options are counted.
NothingStored == op_count = 0 /\ nonOptions.count = 0

\* Stats has counted all options.
AllCounted ==
  /\ buffer_max = IntMax \/ buffer_max = 1 + Len(AllOptions)
  /\ op_count <= Len(AllOptions)

\* The vectors before this one were legal, and what they leave is known.
LegalBefore ==
  /\ \A g \in 1 .. feed - 1 : Reading(mode, written[g]).ok
  /\ Others = OthersUpTo(mode, written, feed - 1)
  /\ nonOptions.count = 0 \/ nonOptions.feed \in 1 .. feed - 1

ParserInv ==
  /\ ParserTypeOK
  /\ SameReadings
  /\ pass # "done" => Underway
  /\ pass = "count" => NothingStored
  /\ pass # "count" => AllCounted
  /\ pass = "store" => LegalBefore
  /\ pass = "done" => group = NoGroup
  /\ ParsedAsWritten

-----------------------------------------------------------------------------
(* The invariant says what the properties need.                            *)

LEMMA BeforeType ==
  ASSUME ParserTypeOK
  PROVE  /\ Before \in Seq(Option) /\ AllOptions \in Seq(Option)
         /\ OptionsUpTo(mode, written)[feed] \in Seq(Option)
         /\ OptionsUpTo(mode, written)[feed] = Before \o Reading(mode, written[feed]).options
         /\ Len(Before) <= Len(OptionsUpTo(mode, written)[feed])
         /\ Len(OptionsUpTo(mode, written)[feed]) <= Len(AllOptions)
<1> DEFINE U == OptionsUpTo(mode, written)
           N == Len(written)
<1>1. mode \in Mode /\ written \in Seq(Seq(Text)) /\ feed \in 1 .. N
  BY DEF ParserTypeOK, InVector
<1>2. /\ U \in [0 .. N -> Seq(Option)]
      /\ \A f \in 1 .. N : U[f] = U[f - 1] \o Reading(mode, written[f]).options
  BY <1>1, OptionsUpToEquation
<1>3. feed - 1 \in 0 .. N /\ feed \in 0 .. N /\ N \in 0 .. N /\ feed \in feed - 1 .. N /\ N \in feed .. N
  BY <1>1
<1>4. Len(U[feed - 1]) <= Len(U[feed]) /\ Len(U[feed]) <= Len(U[N])
  BY <1>1, <1>3, OptionsUpToGrow
<1> HIDE DEF U
<1>5. U[feed - 1] \in Seq(Option) /\ U[feed] \in Seq(Option) /\ U[N] \in Seq(Option)
  BY <1>2, <1>3
<1>6. U[feed] = U[feed - 1] \o Reading(mode, written[feed]).options
  BY <1>1, <1>2
<1> QED BY <1>4, <1>5, <1>6 DEF Before, AllOptions, U

\* The buffer is as long as it is counted.
LEMMA BufferedLength ==
  ASSUME NEW s \in Seq(Option), NEW n \in Nat, NEW F, s = [k \in 1 .. n |-> F[k]]
  PROVE  Len(s) = n
<1>1. DOMAIN s = 1 .. n /\ DOMAIN s = 1 .. Len(s) /\ Len(s) \in Nat
  OBVIOUS
<1>2. 1 .. n = 1 .. Len(s)
  BY <1>1
<1> QED BY <1>1, <1>2

LEMMA ScannedBound ==
  ASSUME NEW m \in Mode, NEW v \in Seq(Text), NEW a \in Nat, NEW n \in Nat, NEW g,
         NEW opts \in Seq(Option), NEW done \in Seq(Option), Scanned(m, v, a, n, g, opts, done)
  PROVE  Len(opts \o done) <= Len(Reading(m, v).options)
<1>1. /\ a \in 1 .. Len(v) + 1 /\ n \in 0 .. a - 1 /\ PrefixReads(m, v, a - n, opts)
      /\ PassedOver(m, v, a - n, a)
  BY DEF Scanned
<1>2. a - n \in Nat \ {0} /\ a - n <= a /\ a <= Len(v) + 1
  BY <1>1
<1>3. Len(opts) <= Len(Reading(m, v).options)
      /\ (IsChoice(v, a) =>
            Len(opts) + Len(Meaning(m, v, a).options) <= Len(Reading(m, v).options))
  BY <1>1, <1>2, ReadsAtLeast
<1>4. Reading(m, v).options \in Seq(Option)
  BY ReadingParts
<1> DEFINE r == Len(Reading(m, v).options)
<1>5. r \in Nat
  BY <1>4
<1> HIDE DEF r
<1>6. Len(opts \o done) = Len(opts) + Len(done) /\ Len(opts) \in Nat /\ Len(done) \in Nat
  BY ConcatProperties
<1>7. CASE g = NoGroup
  <2>1. done = <<>>
    BY <1>7 DEF Scanned
  <2>2. Len(done) = 0
    BY <2>1
  <2> QED BY <1>3, <1>5, <1>6, <2>2 DEF r
<1>8. CASE g # NoGroup
  <2> DEFINE M == Meaning(m, v, a)
             read == AllRead(m, v[a], NextArg(v, a))
             N == Meanings(read)[g.param]
  <2>1. TakenApart(m, v, a, g, done)
    BY <1>8 DEF Scanned
  <2>2. IsChoice(v, a) /\ M = More(done, N)
    BY <2>1 DEF TakenApart
  <2>3. M.options = done \o N.options
    BY <2>2 DEF More
  <2>4. N \in MeaningType
    <3>1. v[a] \in Text /\ IsOption(v[a]) /\ NextArg(v, a) \in Arg /\ Len(v[a]) \in Nat
      BY <2>2, NextArgType DEF IsChoice, Text
    <3>2. read \in Seq(Read) /\ Len(read) = IF ReadLong(m, v[a]) THEN 1 ELSE Len(v[a]) - 1
      BY <3>1, AllReadType
    <3>3. g.param \in 1 .. Len(read) + 1
      <4>1. g.param \in 1 .. Len(v[a])
        BY <2>1 DEF TakenApart
      <4>2. CASE ReadLong(m, v[a])
        <5>1. g.param = 1
          <6>1. g = [param |-> 1, short |-> v[a][2] # "-", long |-> m.single_minus_longopt]
            BY <2>1, <4>2 DEF TakenApart
          <6> QED BY <6>1
        <5> HIDE DEF read
        <5> QED BY <3>2, <5>1, <4>2
      <4>3. CASE ~ReadLong(m, v[a])
        <5> HIDE DEF read
        <5> QED BY <3>1, <3>2, <4>1, <4>3
      <4> QED BY <4>2, <4>3
    <3> HIDE DEF read
    <3> QED BY <3>2, <3>3, MeaningsEquation
  <2> DEFINE t == N.options
  <2>5. t \in Seq(Option)
    BY <2>4 DEF MeaningType
  <2> HIDE DEF t
  <2>6. Len(done \o t) = Len(done) + Len(t) /\ Len(t) \in Nat
    BY <2>5, ConcatProperties
  <2>7. Len(opts) + Len(done \o t) <= r
    BY <1>3, <2>2, <2>3 DEF t, r
  <2> QED BY <1>5, <1>6, <2>6, <2>7 DEF r
<1> QED BY <1>7, <1>8

\* A step within a vector keeps the invariant if it keeps track.
LEMMA StaysInVector ==
  ASSUME ParserInv, pass # "done",
         UNCHANGED <<mode, written, pass, feed, nonOptions, err>>,
         OtherVectorsKept, Reading(mode, vectors'[feed]) = Reading(mode, vector),
         args' \in Nat \ {0}, nonops' \in Nat,
         \E opts, done \in Seq(Option) : Progress(opts, done)',
         pass = "count" => op_count' = op_count /\ buffer_max' \in 1 .. IntMax,
         pass = "store" => buffer_max' = buffer_max /\ op_count' \in 0 .. IntMax
  PROVE  ParserInv'
<1>1. ParserTypeOK
  BY DEF ParserInv
<1>2. /\ mode \in Mode /\ feed \in 1 .. Len(vectors) /\ vectors \in Seq(Seq(Text))
      /\ written \in Seq(Seq(Text)) /\ Len(vectors) = Len(written)
      /\ pass \in {"count", "store"} /\ op_count \in 0 .. IntMax /\ buffer_max \in 1 .. IntMax
      /\ nonOptions \in [feed : Nat, first : Nat, count : Nat] /\ err \in BOOLEAN
  BY <1>1 DEF ParserTypeOK, InVector
<1>3. /\ vectors' \in Seq(Seq(Text)) /\ Len(vectors') = Len(vectors)
      /\ \A g \in 1 .. Len(vectors) : g # feed => vectors'[g] = vectors[g]
  BY DEF OtherVectorsKept
<1>4. ParserTypeOK'
  <2>1. InVector'
    BY <1>2, <1>3 DEF InVector
  <2>2. buffer_max' \in 1 .. IntMax /\ op_count' \in 0 .. IntMax
    BY <1>2
  <2> QED BY <1>2, <1>3, <2>1, <2>2 DEF ParserTypeOK
<1>5. SameReadings'
  <2> SUFFICES ASSUME NEW g \in 1 .. Len(written)
               PROVE  Reading(mode, vectors'[g]) = Reading(mode, written[g])
    BY DEF SameReadings
  <2>1. Reading(mode, vectors[g]) = Reading(mode, written[g])
    BY DEF ParserInv, SameReadings
  <2>2. CASE g = feed
    BY <2>1, <2>2 DEF vector
  <2>3. CASE g # feed
    BY <1>2, <1>3, <2>1, <2>3
  <2> QED BY <2>2, <2>3
<1>6. Underway'
  BY DEF ParserInv, Underway
<1>7. (pass = "count" => NothingStored)'
  BY DEF ParserInv, NothingStored
<1>8. (pass # "count" => AllCounted)'
  <2> SUFFICES ASSUME pass = "store" PROVE AllCounted'
    BY <1>2
  <2>1. AllOptions' = AllOptions /\ buffer_max' = buffer_max
    BY DEF AllOptions
  <2>2. buffer_max = IntMax \/ buffer_max = 1 + Len(AllOptions)
    BY DEF ParserInv, AllCounted
  <2>3. op_count' <= Len(AllOptions)
    <3>1. PICK opts \in Seq(Option), done \in Seq(Option) : Progress(opts, done)'
      OBVIOUS
    <3> DEFINE v == vectors'[feed]
               s == opts \o done
               F == [k \in 1 .. op_count' |-> cells'[Cell("buffer", k - 1)].option]
               U == OptionsUpTo(mode, written)[feed]
    <3>2. Scanned(mode, v, args', nonops', group', opts, done) /\ F = Before \o s
      BY <3>1 DEF Progress, vector, Buffered, Before
    <3>3. v \in Seq(Text) /\ args' \in Nat /\ nonops' \in Nat
      <4>1. feed \in 1 .. Len(vectors')
        BY <1>2, <1>3
      <4>2. v \in Seq(Text)
        BY <1>3, <4>1, ElementOfSeq
      <4> HIDE DEF v
      <4> QED BY <4>2
    <3>4. Len(s) <= Len(Reading(mode, v).options)
      <4> HIDE DEF v
      <4> QED BY <1>2, <3>2, <3>3, ScannedBound
    <3>5. Reading(mode, v) = Reading(mode, written[feed])
      BY <1>2 DEF ParserInv, SameReadings, vector
    <3>6. /\ Before \in Seq(Option) /\ U = Before \o Reading(mode, written[feed]).options
          /\ Len(U) <= Len(AllOptions) /\ AllOptions \in Seq(Option)
      BY <1>1, BeforeType
    <3> DEFINE o == Reading(mode, v).options
    <3>7. o \in Seq(Option) /\ s \in Seq(Option) /\ U = Before \o o
      BY <1>2, <3>3, <3>5, <3>6, ReadingParts, ConcatProperties
    <3> HIDE DEF o, s, v, U
    <3>8. Len(Before \o s) = Len(Before) + Len(s) /\ Len(Before \o o) = Len(Before) + Len(o)
          /\ Before \o s \in Seq(Option)
      BY <3>6, <3>7, ConcatProperties
    <3>9. Len(Before \o s) = op_count'
      <4> DEFINE G == [k \in 1 .. op_count' |-> cells'[Cell("buffer", k - 1)].option]
                 n == op_count'
      <4>1. n \in Nat /\ Before \o s = [k \in 1 .. n |-> G[k]]
        BY <3>2
      <4> HIDE DEF G, n
      <4>2. Len(Before \o s) = n
        BY <3>8, <4>1, BufferedLength
      <4> QED BY <4>2 DEF n
    <3>10. Len(s) <= Len(o) /\ Len(s) \in Nat /\ Len(o) \in Nat /\ Len(Before) \in Nat
           /\ Len(AllOptions) \in Nat
      BY <3>4, <3>6, <3>7 DEF o
    <3> QED BY <3>6, <3>7, <3>8, <3>9, <3>10
  <2> QED BY <2>1, <2>2, <2>3 DEF AllCounted
<1>9. (pass = "store" => LegalBefore)'
  <2> SUFFICES ASSUME pass = "store" PROVE LegalBefore'
    OBVIOUS
  <2>1. LegalBefore
    BY DEF ParserInv
  <2>2. Others' = Others
    <3>1. CASE nonOptions.count = 0
      BY <3>1 DEF Others
    <3>2. CASE nonOptions.count # 0
      <4>1. nonOptions.feed \in 1 .. Len(vectors) /\ nonOptions.feed # feed
        BY <1>2, <2>1, <3>2 DEF LegalBefore
      <4>2. vectors'[nonOptions.feed] = vectors[nonOptions.feed]
        BY <1>3, <4>1
      <4> QED BY <4>2 DEF Others
    <3> QED BY <3>1, <3>2
  <2> QED BY <2>1, <2>2 DEF LegalBefore
<1>10. (pass = "done" => group = NoGroup)' /\ ParsedAsWritten'
  BY <1>2 DEF ParsedAsWritten
<1> QED BY <1>4, <1>5, <1>6, <1>7, <1>8, <1>9, <1>10 DEF ParserInv

-----------------------------------------------------------------------------
(* The steps keep the invariant.                                           *)

\* What ParserInv says of a parser that is not done.
LEMMA ParserUnderway ==
  ASSUME ParserInv, pass # "done"
  PROVE  /\ ParserTypeOK /\ InVector /\ ~err
         /\ mode \in Mode /\ vectors \in Seq(Seq(Text)) /\ vector \in Seq(Text)
         /\ vector = vectors[feed] /\ written \in Seq(Seq(Text))
         /\ Len(vectors) = Len(written) /\ feed \in 1 .. Len(written)
         /\ args \in Nat \ {0} /\ nonops \in Nat /\ pass \in {"count", "store"}
         /\ \E opts, done \in Seq(Option) : Progress(opts, done)
<1>1. ParserTypeOK /\ Underway /\ InVector
  BY DEF ParserInv, ParserTypeOK
<1>2. vector \in Seq(Text)
  BY <1>1, VectorType
<1> QED BY <1>1, <1>2 DEF ParserTypeOK, InVector, Underway, vector

\* What a vector is found to say is what was written in it.
LEMMA FoundAll ==
  ASSUME ParserInv, pass # "done"
  PROVE  /\ Before \in Seq(Option)
         /\ OptionsUpTo(mode, written)[feed] = Before \o Reading(mode, vector).options
         /\ Reading(mode, written[feed]) = Reading(mode, vector)
<1>1. ParserTypeOK /\ feed \in 1 .. Len(written)
  BY ParserUnderway
<1>2. Reading(mode, written[feed]) = Reading(mode, vector)
  BY <1>1 DEF ParserInv, SameReadings, vector
<1> QED BY <1>1, <1>2, BeforeType

LEMMA ParserInitInv ==
  ASSUME NEW m \in Mode, NEW lines \in Seq(Seq(Text)), lines # <<>>, ParserInit(m, lines)
  PROVE  ParserInv
<1>1. /\ mode = m /\ written = lines /\ vectors = lines
      /\ pass = "count" /\ feed = 1 /\ args = 1 /\ nonops = 0 /\ group = NoGroup
      /\ buffer_max = 1
      /\ cells = <<>> /\ op_count = 0 /\ nonOptions = NoVector /\ err = FALSE
  BY DEF ParserInit
<1>2. IntMax \in Nat \ {0}
  BY OptionAssumption
<1>3. 1 \in 1 .. Len(lines)
  OBVIOUS
<1>4. InVector
  BY <1>1, <1>3 DEF InVector
<1>5. ParserTypeOK
  <2>1. nonOptions \in [feed : Nat, first : Nat, count : Nat]
    BY <1>1 DEF NoVector
  <2>2. buffer_max \in 1 .. IntMax /\ op_count \in 0 .. IntMax
    BY <1>1, <1>2
  <2> QED BY <1>1, <1>4, <2>1, <2>2 DEF ParserTypeOK
<1>6. SameReadings
  BY <1>1 DEF SameReadings
<1>7. Underway
  <2>1. vector \in Seq(Text)
    BY <1>4, VectorType
  <2>2. Scanned(mode, vector, args, nonops, group, <<>>, <<>>)
    BY <1>1, <2>1, StartsScanned
  <2>3. Before = <<>>
    <3>1. OptionsUpTo(m, lines)[0] = <<>>
      BY OptionsUpToEquation
    <3>2. feed - 1 = 0
      BY <1>1
    <3> QED BY <1>1, <3>1, <3>2 DEF Before
  <2>4. <<>> \o <<>> = <<>> /\ Len(<<>>) = 0
    OBVIOUS
  <2>5. buffer_max = 1 + Len(Before) + Len(<<>> \o <<>>)
    BY <1>1, <2>3, <2>4
  <2>6. Progress(<<>>, <<>>)
    BY <1>1, <2>2, <2>5 DEF Progress
  <2>7. <<>> \in Seq(Option)
    BY EmptySeq
  <2> QED BY <1>1, <2>6, <2>7 DEF Underway
<1>8. NothingStored
  BY <1>1 DEF NothingStored, NoVector
<1> QED BY <1>1, <1>5, <1>6, <1>7, <1>8 DEF ParserInv, ParsedAsWritten

LEMMA PassOverInv ==
  ASSUME ParserInv, PassOver
  PROVE  ParserInv'
<1>1. /\ pass # "done" /\ group = NoGroup /\ ~AtEnd /\ ~IsOption(text) /\ mode.gnu
      /\ args' = args + 1 /\ nonops' = nonops + 1
      /\ UNCHANGED <<mode, written, vectors, pass, feed, group, buffer_max, cells, op_count,
                     nonOptions, err>>
  BY DEF PassOver, output
<1>2. PICK opts \in Seq(Option), done \in Seq(Option) : Progress(opts, done)
  BY <1>1, ParserUnderway
<1>3. /\ vector \in Seq(Text) /\ vectors \in Seq(Seq(Text)) /\ mode \in Mode
      /\ args \in Nat \ {0} /\ nonops \in Nat /\ vector = vectors[feed]
      /\ ParserTypeOK
  BY <1>1, ParserUnderway
<1>4. Progress(opts, done)'
  <2>1. Scanned(mode, vector, args, nonops, NoGroup, opts, done) /\ args \in 1 .. Len(vector)
    BY <1>1, <1>2, <1>3 DEF Progress, AtEnd, Scanned
  <2>2. Scanned(mode, vector, args + 1, nonops + 1, NoGroup, opts, done)
    BY <1>1, <1>3, <2>1, PassOverScanned DEF text
  <2>3. vector' = vector /\ Before' = Before /\ Buffered' = Buffered
    BY <1>1 DEF vector, Before, Buffered
  <2> QED BY <1>1, <1>2, <2>2, <2>3 DEF Progress
<1>5. OtherVectorsKept /\ Reading(mode, vectors'[feed]) = Reading(mode, vector)
  BY <1>1, <1>3 DEF OtherVectorsKept
<1>6. buffer_max' \in 1 .. IntMax /\ op_count' \in 0 .. IntMax
  BY <1>1, <1>3 DEF ParserTypeOK
<1>7. \E o, d \in Seq(Option) : Progress(o, d)'
  BY <1>4
<1>8. args' \in Nat \ {0} /\ nonops' \in Nat
  BY <1>1, <1>3
<1> QED BY <1>1, <1>5, <1>6, <1>7, <1>8, StaysInVector

LEMMA TakeApartInv ==
  ASSUME ParserInv, TakeApart
  PROVE  ParserInv'
<1>1. /\ pass # "done" /\ group = NoGroup /\ ~AtEnd /\ IsOption(text) /\ ~IsDashDash(text)
      /\ group' = [param |-> 1, short |-> text[2] # "-", long |-> mode.single_minus_longopt]
      /\ UNCHANGED <<mode, written, vectors, pass, feed, args, nonops, buffer_max, cells,
                     op_count, nonOptions, err>>
  BY DEF TakeApart, output
<1>2. PICK opts \in Seq(Option), done \in Seq(Option) : Progress(opts, done)
  BY <1>1, ParserUnderway
<1>3. /\ vector \in Seq(Text) /\ vectors \in Seq(Seq(Text)) /\ mode \in Mode
      /\ args \in Nat \ {0} /\ nonops \in Nat /\ vector = vectors[feed]
      /\ ParserTypeOK
  BY <1>1, ParserUnderway
<1>4. Progress(opts, done)'
  <2>1. Scanned(mode, vector, args, nonops, NoGroup, opts, done) /\ args \in 1 .. Len(vector)
    BY <1>1, <1>2, <1>3 DEF Progress, AtEnd, Scanned
  <2>2. Scanned(mode, vector, args, nonops,
                [param |-> 1, short |-> vector[args][2] # "-", long |-> mode.single_minus_longopt],
                opts, <<>>)
    BY <1>1, <1>3, <2>1, TakeApartScanned DEF text
  <2>3. done = <<>>
    BY <2>1 DEF Scanned
  <2>4. vector' = vector /\ Before' = Before /\ Buffered' = Buffered
    BY <1>1 DEF vector, Before, Buffered
  <2>5. Scanned(mode, vector, args, nonops, group', opts, done)
    BY <1>1, <2>2, <2>3 DEF text
  <2> QED BY <1>1, <1>2, <2>4, <2>5 DEF Progress
<1>5. OtherVectorsKept /\ Reading(mode, vectors'[feed]) = Reading(mode, vector)
  BY <1>1, <1>3 DEF OtherVectorsKept
<1>6. buffer_max' \in 1 .. IntMax /\ op_count' \in 0 .. IntMax
  BY <1>1, <1>3 DEF ParserTypeOK
<1>7. \E o, d \in Seq(Option) : Progress(o, d)'
  BY <1>4
<1>8. args' \in Nat \ {0} /\ nonops' \in Nat
  BY <1>1, <1>3
<1> QED BY <1>1, <1>5, <1>6, <1>7, <1>8, StaysInVector

\* An option of an argument that is neither illegal nor one too many.
LEMMA GoOnInv ==
  ASSUME ParserInv, pass # "done", group # NoGroup, checked # "ARG_ILLEGAL", GoOn,
         UNCHANGED <<mode, written, pass, feed, nonops, nonOptions, err>>,
         pass = "count" =>
           /\ op_count' = op_count
           /\ IF Performs THEN buffer_max # IntMax /\ buffer_max' = buffer_max + 1
                          ELSE buffer_max' = buffer_max,
         pass = "store" =>
           /\ buffer_max' = buffer_max /\ op_count' \in 0 .. IntMax
           /\ Buffered' = IF Performs THEN Buffered \o <<ThisOption>> ELSE Buffered
  PROVE  ParserInv'
<1>2. PICK opts \in Seq(Option), done \in Seq(Option) : Progress(opts, done)
  BY ParserUnderway
<1>3. /\ vector \in Seq(Text) /\ vectors \in Seq(Seq(Text)) /\ mode \in Mode
      /\ args \in Nat \ {0} /\ nonops \in Nat /\ vector = vectors[feed]
      /\ ParserTypeOK /\ InVector /\ pass \in {"count", "store"}
  BY ParserUnderway
<1>4. Scanned(mode, vector, args, nonops, group, opts, done)
  BY <1>2 DEF Progress
<1> DEFINE now == DoneNow(done)
<1>5. PICK o \in Seq(Option), d \in Seq(Option) :
        /\ Scanned(mode, vectors'[feed], args', nonops, group', o, d)
        /\ o \o d = opts \o now
  BY <1>3, <1>4, GoOnScanned
<1>6. /\ Reading(mode, vectors'[feed]) = Reading(mode, vector) /\ OtherVectorsKept
      /\ args' \in Nat \ {0} /\ now \in Seq(Option)
  BY <1>3, <1>4, GoOnScanned
<1>7. /\ Performs => now = done \o <<ThisOption>>
      /\ ~Performs => now = done
  BY DEF DoneNow
<1> HIDE DEF now
<1>8. Before \in Seq(Option) /\ buffer_max \in 1 .. IntMax /\ IntMax \in Nat /\ op_count \in 0 .. IntMax
  BY <1>3, BeforeType, OptionAssumption DEF ParserTypeOK
<1>9. Before' = Before /\ vector' = vectors'[feed]
  BY DEF Before, vector
<1>10. ASSUME Performs PROVE ThisOption \in Option
  <2>1. TakenApart(mode, vector, args, group, done)
    BY <1>4 DEF Scanned
  <2>2. CASE checked = "ARG_OK"
    BY <1>3, <2>1, <2>2, MeansOk
  <2>3. CASE checked \in {"ARG_NONE", "ARG_IGNORE"}
    BY <1>3, <2>1, <2>3, MeansFlag
  <2> QED BY <1>10, <2>2, <2>3 DEF Performs
<1>11. /\ Performs => opts \o now = (opts \o done) \o <<ThisOption>>
       /\ Performs => Len(opts \o now) = Len(opts \o done) + 1
       /\ ~Performs => opts \o now = opts \o done
       /\ Len(opts \o done) \in Nat /\ opts \o done \in Seq(Option)
  <2>1. opts \o done \in Seq(Option)
    BY ConcatProperties
  <2>2. CASE Performs
    <3> DEFINE one == <<ThisOption>>
    <3>1. one \in Seq(Option) /\ Len(one) = 1
      BY <1>10, <2>2
    <3> HIDE DEF one
    <3>2. (opts \o done) \o one = opts \o (done \o one)
      BY <3>1, ConcatAssociative, SMTT(60)
    <3> DEFINE s == opts \o done
    <3>3. now = done \o one
      BY <1>7, <2>2 DEF one
    <3>4. s \in Seq(Option)
      BY <2>1
    <3>5. opts \o now = s \o one
      BY <3>2, <3>3
    <3> HIDE DEF s
    <3>6. Len(s \o one) = Len(s) + Len(one)
      BY <3>1, <3>4, ConcatProperties
    <3>7. Len(opts \o now) = Len(s) + 1
      BY <3>1, <3>5, <3>6
    <3> QED BY <2>1, <2>2, <3>5, <3>7 DEF one, s
  <2>3. CASE ~Performs
    BY <1>7, <2>1, <2>3
  <2> QED BY <2>2, <2>3
<1>12. Progress(o, d)'
  <2>1. Scanned(mode, vector, args, nonops, group, o, d)'
    BY <1>5, <1>9
  <2>2. ASSUME pass = "count"
        PROVE  buffer_max' = IntMax \/ buffer_max' = 1 + Len(Before) + Len(o \o d)
    <3> DEFINE n == Len(opts \o done)
               n2 == Len(o \o d)
    <3>1. buffer_max = IntMax \/ buffer_max = 1 + Len(Before) + n
      BY <1>2, <2>2 DEF Progress
    <3>2. n \in Nat /\ Len(Before) \in Nat
      BY <1>8, <1>11
    <3>3. n2 = IF Performs THEN n + 1 ELSE n
      BY <1>5, <1>11
    <3> HIDE DEF n, n2
    <3>4. CASE Performs
      <4>1. n2 = n + 1
        BY <3>3, <3>4
      <4>2. buffer_max' = 1 + Len(Before) + n2
        <5>1. buffer_max # IntMax /\ buffer_max' = buffer_max + 1
          BY <2>2, <3>4
        <5> DEFINE b == Len(Before)
        <5>2. b \in Nat /\ buffer_max = 1 + b + n
          BY <3>1, <3>2, <5>1
        <5> HIDE DEF b
        <5>3. buffer_max' = 1 + b + n2
          BY <3>2, <4>1, <5>1, <5>2
        <5> QED BY <5>3 DEF b
      <4> QED BY <4>2 DEF n2
    <3>5. CASE ~Performs
      <4>1. n2 = n
        BY <3>3, <3>5
      <4> QED BY <2>2, <3>1, <3>5, <4>1 DEF n2
    <3> QED BY <3>4, <3>5
  <2>3. ASSUME pass = "store" PROVE Buffered' = Before \o (o \o d)
    <3> DEFINE s == opts \o done
    <3>1. Buffered = Before \o s
      BY <1>2, <2>3 DEF Progress
    <3>2. CASE Performs
      <4> DEFINE one == <<ThisOption>>
      <4>1. one \in Seq(Option) /\ s \in Seq(Option)
        BY <1>10, <1>11, <3>2
      <4>2. Buffered' = (Before \o s) \o one /\ o \o d = s \o one
        BY <1>5, <1>11, <2>3, <3>1, <3>2
      <4> HIDE DEF s, one
      <4>3. (Before \o s) \o one = Before \o (s \o one)
        BY <1>8, <4>1, ConcatAssociative, SMTT(60)
      <4> QED BY <4>2, <4>3
    <3>3. CASE ~Performs
      BY <1>5, <1>11, <2>3, <3>1, <3>3
    <3> QED BY <3>2, <3>3
  <2> QED BY <1>9, <2>1, <2>2, <2>3 DEF Progress
<1>13. pass = "count" => op_count' = op_count /\ buffer_max' \in 1 .. IntMax
  BY <1>8
<1>14. \E x, y \in Seq(Option) : Progress(x, y)'
  BY <1>12
<1> QED BY <1>3, <1>6, <1>13, <1>14, StaysInVector

\* What Return does.
LEMMA ReturnCases ==
  ASSUME NEW ok \in BOOLEAN, Return(ok), pass \in {"count", "store"}, feed \in 1 .. Len(vectors),
         vectors \in Seq(Seq(Text))
  PROVE  /\ group' = NoGroup /\ args' = 1 /\ nonops' = 0
         /\ \/ pass = "store" /\ ~ok /\ pass' = "done" /\ feed' = feed
            \/ feed < Len(vectors) /\ (ok \/ pass = "count") /\ feed' = feed + 1 /\ pass' = pass
            \/ feed = Len(vectors) /\ pass = "count" /\ pass' = "store" /\ feed' = 1
            \/ feed = Len(vectors) /\ pass = "store" /\ ok /\ pass' = "done" /\ feed' = feed
<1>1. feed < Len(vectors) \/ feed = Len(vectors)
  OBVIOUS
<1>2. feed < Len(vectors) => feed # Len(vectors)
  OBVIOUS
<1> DEFINE n == Len(vectors)
<1> HIDE DEF n
<1>3. CASE pass = "store" /\ ~ok
  BY <1>3 DEF Return
<1>4. CASE feed < n /\ (ok \/ pass = "count")
  BY <1>4, <1>2 DEF Return, n
<1>5. CASE feed = n /\ pass = "count"
  BY <1>5, <1>2 DEF Return, n
<1>6. CASE feed = n /\ pass = "store" /\ ok
  BY <1>6, <1>2 DEF Return, n
<1> QED BY <1>1, <1>3, <1>4, <1>5, <1>6 DEF n

\* The vectors stay as they are typed, and what they say stays what was written.
LEMMA VectorsKept ==
  ASSUME ParserInv, pass # "done", mode' = mode, written' = written,
         OtherVectorsKept, Reading(mode, vectors'[feed]) = Reading(mode, vector)
  PROVE  /\ vectors' \in Seq(Seq(Text)) /\ Len(vectors') = Len(written')
         /\ mode' \in Mode /\ written' \in Seq(Seq(Text))
         /\ SameReadings'
<1>1. /\ vectors' \in Seq(Seq(Text)) /\ Len(vectors') = Len(vectors)
      /\ \A g \in 1 .. Len(vectors) : g # feed => vectors'[g] = vectors[g]
  BY DEF OtherVectorsKept
<1>2. /\ mode \in Mode /\ written \in Seq(Seq(Text)) /\ Len(vectors) = Len(written)
      /\ vector = vectors[feed]
  BY ParserUnderway
<1>3. SameReadings'
  <2> SUFFICES ASSUME NEW g \in 1 .. Len(written)
               PROVE  Reading(mode, vectors'[g]) = Reading(mode, written[g])
    BY DEF SameReadings
  <2>1. Reading(mode, vectors[g]) = Reading(mode, written[g])
    BY DEF ParserInv, SameReadings
  <2>2. CASE g = feed
    BY <1>2, <2>1, <2>2
  <2>3. CASE g # feed
    BY <1>1, <1>2, <2>1, <2>3
  <2> QED BY <2>2, <2>3
<1> QED BY <1>1, <1>2, <1>3

\* At the start of a vector, what was found before is all there is.
LEMMA UnderwayNext ==
  ASSUME ParserTypeOK', args' = 1, nonops' = 0, group' = NoGroup, ~err',
         (pass = "count" => buffer_max = IntMax \/ buffer_max = 1 + Len(Before))',
         (pass = "store" => Buffered = Before)'
  PROVE  Underway'
<1>1. mode' \in Mode /\ vectors'[feed'] \in Seq(Text)
  <2>1. mode' \in Mode /\ vectors' \in Seq(Seq(Text)) /\ feed' \in 1 .. Len(vectors')
    BY DEF ParserTypeOK, InVector
  <2> QED BY <2>1, ElementOfSeq
<1>2. Before' \in Seq(Option)
  <2> DEFINE U == OptionsUpTo(mode', written')
             n == Len(written')
  <2>1. /\ mode' \in Mode /\ written' \in Seq(Seq(Text)) /\ feed' \in 1 .. n
    BY DEF ParserTypeOK, InVector
  <2>2. U \in [0 .. n -> Seq(Option)]
    BY <2>1, OptionsUpToEquation
  <2>3. feed' - 1 \in 0 .. n
    <3>1. n \in Nat /\ feed' \in 1 .. n
      BY <2>1
    <3> DEFINE f == feed'
    <3>2. f \in 1 .. n /\ n \in Nat
      BY <3>1
    <3> HIDE DEF n, f
    <3>3. f - 1 \in 0 .. n
      BY <3>2
    <3> QED BY <3>3 DEF f
  <2> HIDE DEF U
  <2>4. U[feed' - 1] \in Seq(Option)
    BY <2>2, <2>3
  <2> QED BY <2>4 DEF Before, U
<1> DEFINE b == Before'
<1>3. b \in Seq(Option)
  BY <1>2
<1> HIDE DEF b
<1>4. <<>> \in Seq(Option) /\ <<>> \o <<>> = <<>> /\ b \o <<>> = b /\ Len(<<>>) = 0
  BY <1>3, EmptySeq, ConcatEmptySeq
<1>5. Scanned(mode', vectors'[feed'], 1, 0, NoGroup, <<>>, <<>>)
  BY <1>1, StartsScanned
<1>6. Len(b) \in Nat /\ 1 + Len(b) + Len(<<>>) = 1 + Len(b)
  BY <1>3, <1>4
<1>7. (pass = "count" => buffer_max = IntMax \/ buffer_max = 1 + Len(Before) + Len(<<>> \o <<>>))'
  BY <1>4, <1>6 DEF b
<1>8. (pass = "store" => Buffered = Before \o (<<>> \o <<>>))'
  BY <1>4 DEF b
<1>9. Progress(<<>>, <<>>)'
  BY <1>5, <1>7, <1>8 DEF Progress, vector
<1> QED BY <1>4, <1>9 DEF Underway

\* Stats is done with a vector.
LEMMA CountReturns ==
  ASSUME ParserInv, pass = "count", NEW ok \in BOOLEAN, Return(ok),
         UNCHANGED <<mode, written, buffer_max, op_count, nonOptions>>, err' = FALSE,
         OtherVectorsKept, Reading(mode, vectors'[feed]) = Reading(mode, vector),
         buffer_max = IntMax \/ buffer_max = 1 + Len(OptionsUpTo(mode, written)[feed])
  PROVE  ParserInv'
<1>1. /\ ParserTypeOK /\ vectors \in Seq(Seq(Text)) /\ feed \in 1 .. Len(written)
      /\ Len(vectors) = Len(written) /\ written \in Seq(Seq(Text)) /\ mode \in Mode
  BY ParserUnderway
<1>2. /\ vectors' \in Seq(Seq(Text)) /\ Len(vectors') = Len(written')
      /\ mode' \in Mode /\ written' \in Seq(Seq(Text))
      /\ SameReadings'
  BY VectorsKept
<1>3. NothingStored
  BY DEF ParserInv
<1>4. group' = NoGroup /\ args' = 1 /\ nonops' = 0
  BY <1>1, ReturnCases
<1>5. \/ feed < Len(vectors) /\ feed' = feed + 1 /\ pass' = "count"
      \/ feed = Len(vectors) /\ pass' = "store" /\ feed' = 1
  BY <1>1, ReturnCases
<1>6. ParserTypeOK'
  <2>1. feed' \in 1 .. Len(vectors')
    BY <1>1, <1>2, <1>5
  <2>2. InVector'
    BY <1>2, <1>4, <2>1 DEF InVector
  <2>3. buffer_max \in 1 .. IntMax /\ op_count \in 0 .. IntMax
        /\ nonOptions \in [feed : Nat, first : Nat, count : Nat]
    BY <1>1 DEF ParserTypeOK
  <2> QED BY <1>2, <1>5, <2>2, <2>3 DEF ParserTypeOK
<1>7. NothingStored'
  BY <1>3 DEF NothingStored
<1>8. CASE pass' = "count"
  <2>1. feed' - 1 = feed
    BY <1>1, <1>5, <1>8
  <2>2. Before' = OptionsUpTo(mode, written)[feed]
    BY <2>1 DEF Before
  <2>3. Underway'
    BY <1>4, <1>6, <1>8, <2>2, UnderwayNext
  <2> QED BY <1>2, <1>4, <1>6, <1>7, <1>8, <2>3 DEF ParserInv, ParsedAsWritten
<1>9. CASE pass' = "store"
  <2>1. feed' - 1 = 0 /\ feed = Len(written)
    BY <1>1, <1>5, <1>9
  <2>2. OptionsUpTo(mode, written)[0] = <<>>
    BY <1>1, OptionsUpToEquation
  <2>3. Before' = <<>>
    BY <2>1, <2>2 DEF Before
  <2>4. Buffered' = <<>>
    BY <1>3 DEF Buffered, NothingStored
  <2>5. Underway'
    BY <1>4, <1>6, <1>9, <2>3, <2>4, UnderwayNext
  <2>6. AllCounted'
    <3>1. AllOptions' = OptionsUpTo(mode, written)[feed] /\ AllOptions' = AllOptions
      BY <2>1 DEF AllOptions
    <3>2. AllOptions \in Seq(Option)
      BY <1>1, BeforeType
    <3>3. op_count' <= Len(AllOptions)
      BY <1>3, <3>2 DEF NothingStored
    <3> QED BY <3>1, <3>3 DEF AllCounted
  <2>7. LegalBefore'
    <3>1. Others' = <<>>
      BY <1>7 DEF Others, NothingStored
    <3>2. OthersUpTo(mode, written, 0) = <<>>
      BY NoOthers
    <3>3. 1 .. feed' - 1 = {}
      BY <2>1
    <3>4. nonOptions'.count = 0
      BY <1>7 DEF NothingStored
    <3> QED BY <2>1, <3>1, <3>2, <3>3, <3>4 DEF LegalBefore
  <2> QED BY <1>2, <1>4, <1>6, <1>9, <2>5, <2>6, <2>7 DEF ParserInv, ParsedAsWritten
<1> QED BY <1>5, <1>8, <1>9

\* Parser is done with a vector that was legal.
LEMMA StoreReturns ==
  ASSUME ParserInv, pass = "store", Return(TRUE),
         UNCHANGED <<mode, written, buffer_max, cells, op_count, err>>,
         OtherVectorsKept, Reading(mode, vectors'[feed]) = Reading(mode, vector),
         Buffered = OptionsUpTo(mode, written)[feed], Reading(mode, vector).ok,
         nonOptions' \in [feed : Nat, first : Nat, count : Nat],
         \/ nonOptions' = nonOptions /\ Reading(mode, vector).others = <<>>
         \/ /\ nonOptions'.feed = feed
            /\ Others' = Reading(mode, vector).others /\ Others' # <<>>
  PROVE  ParserInv'
<1>1. /\ ParserTypeOK /\ vectors \in Seq(Seq(Text)) /\ feed \in 1 .. Len(written)
      /\ Len(vectors) = Len(written) /\ written \in Seq(Seq(Text)) /\ mode \in Mode /\ ~err
  BY ParserUnderway
<1>2. /\ vectors' \in Seq(Seq(Text)) /\ Len(vectors') = Len(written')
      /\ mode' \in Mode /\ written' \in Seq(Seq(Text))
      /\ SameReadings'
  BY VectorsKept
<1>3. LegalBefore /\ AllCounted
  BY DEF ParserInv
<1>4. group' = NoGroup /\ args' = 1 /\ nonops' = 0
  BY <1>1, ReturnCases
<1>5. \/ feed < Len(vectors) /\ feed' = feed + 1 /\ pass' = "store"
      \/ feed = Len(vectors) /\ pass' = "done" /\ feed' = feed
  BY <1>1, ReturnCases
<1>6. ParserTypeOK'
  <2>1. feed' \in 1 .. Len(vectors')
    BY <1>1, <1>2, <1>5, SMTT(60)
  <2>2. InVector'
    BY <1>2, <1>4, <2>1 DEF InVector
  <2>3. buffer_max \in 1 .. IntMax /\ op_count \in 0 .. IntMax /\ err \in BOOLEAN
    BY <1>1 DEF ParserTypeOK
  <2> QED BY <1>2, <1>5, <2>2, <2>3 DEF ParserTypeOK
<1>7. Reading(mode, written[feed]) = Reading(mode, vector)
  BY FoundAll
<1>8. \A g \in 1 .. feed : Reading(mode, written[g]).ok
  <2> SUFFICES ASSUME NEW g \in 1 .. feed PROVE Reading(mode, written[g]).ok
    OBVIOUS
  <2>1. CASE g = feed
    BY <1>7, <2>1
  <2>2. CASE g # feed
    <3>1. g \in 1 .. feed - 1
      BY <1>1, <2>2
    <3> QED BY <1>3, <3>1 DEF LegalBefore
  <2> QED BY <2>1, <2>2
<1>9. /\ Others' = OthersUpTo(mode, written, feed)
      /\ nonOptions'.count = 0 \/ nonOptions'.feed \in 1 .. feed
  <2>1. Others = OthersUpTo(mode, written, feed - 1)
        /\ (nonOptions.count = 0 \/ nonOptions.feed \in 1 .. feed - 1)
    BY <1>3 DEF LegalBefore
  <2>2. feed \in Nat \ {0}
    BY <1>1
  <2>3. CASE nonOptions' = nonOptions /\ Reading(mode, vector).others = <<>>
    <3>1. OthersUpTo(mode, written, feed) = OthersUpTo(mode, written, feed - 1)
      <4>1. ~(Reading(mode, written[feed]).ok /\ Reading(mode, written[feed]).others # <<>>)
        BY <1>7, <2>3
      <4> QED BY <2>2, <4>1, OthersKept
    <3>2. Others' = Others
      <4>1. CASE nonOptions.count = 0
        BY <2>3, <4>1 DEF Others
      <4>2. CASE nonOptions.count # 0
        <5>1. nonOptions.feed \in 1 .. Len(vectors) /\ nonOptions.feed # feed
          BY <1>1, <2>1, <4>2, SMTT(60)
        <5>2. vectors'[nonOptions.feed] = vectors[nonOptions.feed]
          BY <5>1 DEF OtherVectorsKept
        <5> QED BY <2>3, <5>2 DEF Others
      <4> QED BY <4>1, <4>2
    <3>3. nonOptions.feed \in 1 .. feed - 1 => nonOptions.feed \in 1 .. feed
      BY <1>1
    <3> QED BY <2>1, <2>3, <3>1, <3>2, <3>3
  <2>4. CASE /\ nonOptions'.feed = feed
             /\ Others' = Reading(mode, vector).others /\ Others' # <<>>
    <3>1. Reading(mode, written[feed]).ok /\ Reading(mode, written[feed]).others # <<>>
      BY <1>7, <2>4
    <3>2. OthersUpTo(mode, written, feed) = Reading(mode, written[feed]).others
      BY <2>2, <3>1, OthersReplaced
    <3> QED BY <1>1, <1>7, <2>4, <3>2
  <2> QED BY <2>3, <2>4
<1>10. AllCounted' /\ Buffered' = Buffered
  BY <1>3 DEF AllCounted, AllOptions, Buffered
<1>11. CASE pass' = "store"
  <2>1. feed' - 1 = feed
    BY <1>1, <1>5, <1>11
  <2>2. Before' = OptionsUpTo(mode, written)[feed]
    BY <2>1 DEF Before
  <2>3. Underway'
    BY <1>1, <1>4, <1>6, <1>10, <1>11, <2>2, UnderwayNext
  <2>4. LegalBefore'
    BY <1>8, <1>9, <2>1 DEF LegalBefore
  <2> QED BY <1>2, <1>4, <1>6, <1>10, <1>11, <2>3, <2>4 DEF ParserInv, ParsedAsWritten
<1>12. CASE pass' = "done"
  <2>1. feed = Len(written)
    BY <1>1, <1>5, <1>12
  <2>2. AllReadings(mode, written)
          = [options |-> OptionsUpTo(mode, written)[Len(written)],
             others |-> OthersUpTo(mode, written, Len(written)), ok |-> TRUE]
    BY <1>1, <1>8, <2>1, AllLegal
  <2>3. AsWritten' = AllReadings(mode, written)
    BY DEF AsWritten
  <2>4. ParsedAsWritten'
    <3> DEFINE read == AllReadings(mode, written)
    <3>1. read.ok = TRUE /\ read.options = Buffered /\ read.others = Others'
      BY <1>9, <2>1, <2>2
    <3>2. err' = FALSE
      BY <1>1 DEF ParserTypeOK
    <3> HIDE DEF read
    <3>3. Buffered' = read.options /\ err' = ~read.ok /\ Others' = read.others
      BY <1>10, <3>1, <3>2
    <3>4. AsWritten' = read
      BY <2>3 DEF read
    <3> QED BY <3>3, <3>4 DEF ParsedAsWritten
  <2> QED BY <1>2, <1>4, <1>6, <1>10, <1>12, <2>4 DEF ParserInv
<1> QED BY <1>5, <1>11, <1>12

\* Parser gives up: what it has stored is what was said up to there, or more is said
\* than it can store.
LEMMA StoreGivesUp ==
  ASSUME ParserInv, pass = "store", Return(FALSE), err' = TRUE,
         UNCHANGED <<mode, written, vectors, buffer_max, cells, op_count, nonOptions>>,
         \/ /\ ~Reading(mode, vector).ok
            /\ Buffered = OptionsUpTo(mode, written)[feed]
         \/ ~(Len(OptionsUpTo(mode, written)[feed]) <= IntMax)
  PROVE  ParserInv'
<1>1. /\ ParserTypeOK /\ vectors \in Seq(Seq(Text)) /\ feed \in 1 .. Len(written)
      /\ Len(vectors) = Len(written) /\ written \in Seq(Seq(Text)) /\ mode \in Mode /\ ~err
  BY ParserUnderway
<1>2. LegalBefore /\ AllCounted /\ SameReadings
  BY DEF ParserInv
<1>3. group' = NoGroup /\ args' = 1 /\ nonops' = 0 /\ pass' = "done" /\ feed' = feed
  BY <1>1, ReturnCases
<1>4. ParserTypeOK'
  <2>1. InVector'
    BY <1>1, <1>3 DEF InVector
  <2>2. buffer_max \in 1 .. IntMax /\ op_count \in 0 .. IntMax
        /\ nonOptions \in [feed : Nat, first : Nat, count : Nat]
    BY <1>1 DEF ParserTypeOK
  <2> QED BY <1>1, <1>3, <2>1, <2>2 DEF ParserTypeOK
<1>5. AllCounted' /\ Buffered' = Buffered /\ SameReadings' /\ Others' = Others
  BY <1>2 DEF AllCounted, AllOptions, Buffered, SameReadings, Others
<1>6. AsWritten' = AllReadings(mode, written)
  BY DEF AsWritten
<1>7. ParsedAsWritten'
  <2>1. CASE ~Reading(mode, vector).ok /\ Buffered = OptionsUpTo(mode, written)[feed]
    <3>1. ~Reading(mode, written[feed]).ok
      BY <2>1, FoundAll
    <3>2. \A g \in 1 .. feed - 1 : Reading(mode, written[g]).ok
      BY <1>2 DEF LegalBefore
    <3>3. AllReadings(mode, written)
            = [options |-> OptionsUpTo(mode, written)[feed],
               others |-> OthersUpTo(mode, written, feed - 1), ok |-> FALSE]
      BY <1>1, <3>1, <3>2, FirstIllegal
    <3>4. Others = OthersUpTo(mode, written, feed - 1)
      BY <1>2 DEF LegalBefore
    <3> DEFINE read == AllReadings(mode, written)
    <3>5. read.ok = FALSE /\ read.options = Buffered /\ read.others = Others
      BY <2>1, <3>3, <3>4
    <3> HIDE DEF read
    <3>6. Buffered' = read.options /\ err' = ~read.ok /\ Others' = read.others
      BY <1>5, <3>5
    <3>7. AsWritten' = read
      BY <1>6 DEF read
    <3> QED BY <3>6, <3>7 DEF ParsedAsWritten
  <2>2. CASE ~(Len(OptionsUpTo(mode, written)[feed]) <= IntMax)
    <3>1. \A g \in 1 .. feed - 1 : Reading(mode, written[g]).ok
      BY <1>2 DEF LegalBefore
    <3>2. Len(OptionsUpTo(mode, written)[feed]) <= Len(AllReadings(mode, written).options)
      BY <1>1, <3>1, AllSayAtLeast
    <3>3. OptionsUpTo(mode, written)[feed] \in Seq(Option)
      BY <1>1, BeforeType
    <3> DEFINE a == Len(OptionsUpTo(mode, written)[feed])
               r == AllReadings(mode, written).options
    <3>4. r \in Seq(Option)
      <4> DEFINE U == OptionsUpTo(mode, written)
                 bad == {f \in DOMAIN written : ~Reading(mode, written[f]).ok}
                 last == IF bad = {} THEN Len(written)
                         ELSE CHOOSE f \in bad : \A g \in bad : f <= g
      <4>1. r = U[last]
        BY DEF AllReadings
      <4>2. bad \in SUBSET (1 .. Len(written)) /\ bad \in SUBSET Nat
        BY <1>1
      <4>3. U \in [0 .. Len(written) -> Seq(Option)]
        BY <1>1, OptionsUpToEquation
      <4> HIDE DEF r, U, bad
      <4>4. last \in 0 .. Len(written)
        <5>1. Len(written) \in 0 .. Len(written)
          BY <1>1
        <5>2. bad # {} => (CHOOSE f \in bad : \A g \in bad : f <= g) \in bad
          BY <4>2, LeastChosen
        <5>3. \A f \in bad : f \in 0 .. Len(written)
          BY <4>2
        <5> QED BY <5>1, <5>2, <5>3
      <4> HIDE DEF last
      <4> QED BY <4>1, <4>3, <4>4
    <3>5. a \in Nat /\ Len(r) \in Nat /\ IntMax \in Nat
      BY <3>3, <3>4, OptionAssumption
    <3>6. ~(Len(r) <= IntMax)
      <4> HIDE DEF r
      <4>1. a <= Len(r)
        BY <3>2 DEF r
      <4> HIDE DEF a
      <4> QED BY <2>2, <3>5, <4>1 DEF a
    <3> QED BY <1>6, <3>6 DEF ParsedAsWritten, r
  <2> QED BY <2>1, <2>2
<1> QED BY <1>3, <1>4, <1>5, <1>7 DEF ParserInv

\* At the end of the options of a vector, all that it says is known.
LEMMA FinishReads ==
  ASSUME ParserInv, Finish, NEW opts \in Seq(Option), NEW done, Progress(opts, done)
  PROVE  \E first \in 1 .. Len(vector) + 1 :
           /\ Reading(mode, vector)
                = [options |-> opts, others |-> Rest(vectors'[feed], first), ok |-> TRUE]
           /\ Reading(mode, vectors'[feed]) = Reading(mode, vector)
           /\ OtherVectorsKept /\ vectors'[feed] \in Seq(Text)
           /\ Len(vectors'[feed]) = Len(vector)
           /\ nonOptions' = IF pass = "store" /\ Len(vector) - first + 1 > 0
                            THEN [feed |-> feed, first |-> first, count |-> Len(vector) - first + 1]
                            ELSE nonOptions
<1> DEFINE p == args - nonops
<1>1. pass # "done" /\ group = NoGroup
  BY DEF Finish
<1>2. /\ vector \in Seq(Text) /\ vectors \in Seq(Seq(Text)) /\ mode \in Mode
      /\ args \in Nat \ {0} /\ nonops \in Nat /\ vector = vectors[feed] /\ InVector
  BY <1>1, ParserUnderway
<1>3. /\ args \in 1 .. Len(vector) + 1 /\ nonops \in 0 .. args - 1
      /\ PrefixReads(mode, vector, p, opts) /\ PassedOver(mode, vector, p, args)
  BY DEF Progress, Scanned
<1>4. p \in Nat \ {0} /\ p <= args /\ args \in Nat /\ p \in 1 .. Len(vector) + 1 /\ Len(vector) \in Nat
  BY <1>2, <1>3
<1> DEFINE skipped == IF ~AtEnd /\ IsDashDash(text) THEN 1 ELSE 0
           first == args + skipped - nonops
           count == Len(vector) - first + 1
<1>5. /\ vectors' = IF skipped = 0 THEN vectors
                    ELSE [vectors EXCEPT ![feed] = shift(@, args, nonops)]
      /\ nonOptions' = IF pass = "store" /\ count > 0
                       THEN [feed |-> feed, first |-> first, count |-> count]
                       ELSE nonOptions
  BY DEF Finish
<1>6. CASE ~AtEnd /\ IsDashDash(text)
  <2> DEFINE w == shift(vector, args, nonops)
             s == vector
             a == args
  <2>1. skipped = 1 /\ first = p + 1 /\ args \in 1 .. Len(vector)
    BY <1>2, <1>3, <1>6 DEF AtEnd
  <2>2. IsEnd(vector, args)
    BY <1>6, <2>1, DashDashIsOption DEF IsEnd, text
  <2>3. Moved(vector, w, p, args, 1)
    BY <1>2, <1>3, <2>1, ShiftMoves
  <2>4. w \in Seq(Text) /\ Len(w) = Len(vector)
    BY <2>3 DEF Moved
  <2>5. vectors' = [vectors EXCEPT ![feed] = w]
    BY <1>2, <1>5, <2>1
  <2> HIDE DEF w, p
  <2>6. OtherVectorsKept /\ vectors'[feed] = w
    BY <1>2, <2>4, <2>5, OneVector
  <2>a. /\ mode \in Mode /\ s \in Seq(Text) /\ p \in Nat \ {0} /\ a \in Nat /\ p <= a
        /\ PrefixReads(mode, s, p, opts) /\ PassedOver(mode, s, p, a)
        /\ IsEnd(s, a) /\ Moved(s, w, p, a, 1)
    BY <1>2, <1>3, <1>4, <2>2, <2>3
  <2> HIDE DEF s, a
  <2>b. Reading(mode, w) = [options |-> opts, others |-> Rest(w, p + 1), ok |-> TRUE]
    BY <2>a, DashDashMoves
  <2>c. Reading(mode, s) = [options |-> opts, others |-> Rest(w, p + 1), ok |-> TRUE]
    BY <2>a, ReadsToDashDash
  <2>7. Reading(mode, w) = Reading(mode, vector)
    BY <2>b, <2>c DEF s
  <2>8. Reading(mode, vector) = [options |-> opts, others |-> Rest(w, p + 1), ok |-> TRUE]
    BY <2>c DEF s
  <2>9. p + 1 \in 1 .. Len(vector) + 1
    BY <1>4, <2>1
  <2> DEFINE q == p + 1
  <2>10. /\ q \in 1 .. Len(vector) + 1
         /\ Reading(mode, vector) = [options |-> opts, others |-> Rest(vectors'[feed], q), ok |-> TRUE]
         /\ Reading(mode, vectors'[feed]) = Reading(mode, vector)
         /\ OtherVectorsKept /\ vectors'[feed] \in Seq(Text)
         /\ Len(vectors'[feed]) = Len(vector)
    BY <2>4, <2>6, <2>7, <2>8, <2>9
  <2>11. nonOptions' = IF pass = "store" /\ Len(vector) - q + 1 > 0
                       THEN [feed |-> feed, first |-> q, count |-> Len(vector) - q + 1]
                       ELSE nonOptions
    BY <1>5, <2>1
  <2> HIDE DEF q
  <2> QED BY <2>10, <2>11
<1>7. CASE ~(~AtEnd /\ IsDashDash(text))
  <2>1. skipped = 0 /\ first = p
    BY <1>2, <1>7
  <2>2. args = Len(vector) + 1 \/ (IsOther(vector, args) /\ ~mode.gnu)
    <3>1. CASE AtEnd
      <4> DEFINE a == args
                 n == Len(vector)
      <4>1. a > n /\ a \in 1 .. n + 1 /\ n \in Nat
        BY <1>2, <1>3, <3>1 DEF AtEnd
      <4> HIDE DEF a, n
      <4>2. a = n + 1
        BY <4>1
      <4> QED BY <4>2 DEF a, n
    <3>2. CASE ~AtEnd
      <4>1. args \in 1 .. Len(vector)
        BY <1>2, <1>3, <3>2 DEF AtEnd
      <4>2. ~IsOption(text) /\ ~mode.gnu
        BY <1>7, <3>2 DEF Finish
      <4> QED BY <4>1, <4>2 DEF IsOther, text
    <3> QED BY <3>1, <3>2
  <2>3. vectors' = vectors
    BY <1>5, <2>1
  <2>4. nonOptions' = IF pass = "store" /\ Len(vector) - p + 1 > 0
                      THEN [feed |-> feed, first |-> p, count |-> Len(vector) - p + 1]
                      ELSE nonOptions
    BY <1>5, <2>1
  <2> HIDE DEF p
  <2>5. Reading(mode, vector) = [options |-> opts, others |-> Rest(vector, p), ok |-> TRUE]
    <3> DEFINE s == vector
               a == args
    <3>1. /\ mode \in Mode /\ s \in Seq(Text) /\ p \in Nat \ {0} /\ a \in Nat /\ p <= a
          /\ PrefixReads(mode, s, p, opts) /\ PassedOver(mode, s, p, a)
          /\ a = Len(s) + 1 \/ (IsOther(s, a) /\ ~mode.gnu)
      BY <1>2, <1>3, <1>4, <2>2
    <3> HIDE DEF s, a
    <3>2. Reading(mode, s) = [options |-> opts, others |-> Rest(s, p), ok |-> TRUE]
      BY <3>1, ReadsToTheEnd
    <3> QED BY <3>2 DEF s
  <2>6. OtherVectorsKept
    BY <1>2, <2>3 DEF OtherVectorsKept
  <2>7. vectors'[feed] = vector
    BY <1>2, <2>3
  <2> QED BY <1>2, <1>4, <2>4, <2>5, <2>6, <2>7
<1> QED BY <1>6, <1>7

LEMMA FinishInv ==
  ASSUME ParserInv, Finish
  PROVE  ParserInv'
<1>1. /\ pass # "done" /\ group = NoGroup /\ Return(TRUE)
      /\ UNCHANGED <<mode, written, buffer_max, cells, op_count, err>>
  BY DEF Finish
<1>2. PICK opts \in Seq(Option), done \in Seq(Option) : Progress(opts, done)
  BY <1>1, ParserUnderway
<1>3. PICK first \in 1 .. Len(vector) + 1 :
           /\ Reading(mode, vector)
                = [options |-> opts, others |-> Rest(vectors'[feed], first), ok |-> TRUE]
           /\ Reading(mode, vectors'[feed]) = Reading(mode, vector)
           /\ OtherVectorsKept /\ vectors'[feed] \in Seq(Text)
           /\ Len(vectors'[feed]) = Len(vector)
           /\ nonOptions' = IF pass = "store" /\ Len(vector) - first + 1 > 0
                            THEN [feed |-> feed, first |-> first, count |-> Len(vector) - first + 1]
                            ELSE nonOptions
  BY <1>2, FinishReads
<1>4. /\ vector \in Seq(Text) /\ ParserTypeOK /\ pass \in {"count", "store"}
      /\ feed \in 1 .. Len(written) /\ ~err
  BY <1>1, ParserUnderway
<1>5. opts \o done = opts
  <2>1. done = <<>>
    BY <1>1, <1>2 DEF Progress, Scanned
  <2> QED BY <2>1
<1>6. OptionsUpTo(mode, written)[feed] = Before \o opts /\ Before \in Seq(Option)
  <2>1. Reading(mode, vector).options = opts
    BY <1>3
  <2> QED BY <1>1, <2>1, FoundAll
<1>7. CASE pass = "count"
  <2>1. nonOptions' = nonOptions
    BY <1>3, <1>7
  <2>2. op_count' = op_count /\ err' = FALSE
    BY <1>1, <1>4 DEF ParserTypeOK
  <2>3. Len(Before \o opts) = Len(Before) + Len(opts) /\ Len(Before) \in Nat /\ Len(opts) \in Nat
    BY <1>6, ConcatProperties
  <2>4. buffer_max = IntMax \/ buffer_max = 1 + Len(Before) + Len(opts)
    BY <1>2, <1>5, <1>7 DEF Progress
  <2> DEFINE b == Len(Before)
  <2>5. 1 + b + Len(opts) = 1 + Len(Before \o opts)
    <3> DEFINE n == Len(Before \o opts)
               k == Len(opts)
    <3>1. n = b + k /\ b \in Nat /\ k \in Nat
      BY <2>3
    <3> HIDE DEF n, b, k
    <3>2. 1 + b + k = 1 + n
      BY <3>1
    <3> QED BY <3>2 DEF n, k
  <2>6. buffer_max = IntMax \/ buffer_max = 1 + Len(OptionsUpTo(mode, written)[feed])
    BY <1>6, <2>4, <2>5
  <2> QED BY <1>1, <1>3, <1>7, <2>1, <2>2, <2>6, CountReturns
<1>8. CASE pass = "store"
  <2> DEFINE w == vectors'[feed]
             count == Len(w) - first + 1
  <2>1. Buffered = OptionsUpTo(mode, written)[feed]
    BY <1>2, <1>5, <1>6, <1>8 DEF Progress
  <2>2. Reading(mode, vector).ok
    BY <1>3
  <2>3. nonOptions' = IF count > 0 THEN [feed |-> feed, first |-> first, count |-> count]
                      ELSE nonOptions
    BY <1>3, <1>8
  <2>4. w \in Seq(Text) /\ first \in 1 .. Len(w) + 1 /\ Reading(mode, vector).others = Rest(w, first)
        /\ Len(w) \in Nat
    BY <1>3, <1>4
  <2>5. Len(Rest(w, first)) = IF first <= Len(w) THEN Len(w) - first + 1 ELSE 0
    <3>1. first \in Nat \ {0}
      BY <2>4
    <3> HIDE DEF w
    <3> QED BY <2>4, <3>1, RestType
  <2>6. Rest(w, first) \in Seq(Text)
    <3>1. first \in Nat \ {0}
      BY <2>4
    <3> HIDE DEF w
    <3> QED BY <2>4, <3>1, RestType
  <2>7. nonOptions \in [feed : Nat, first : Nat, count : Nat]
    BY <1>4 DEF ParserTypeOK
  <2>8. CASE count > 0
    <3>1. nonOptions' = [feed |-> feed, first |-> first, count |-> count]
      BY <2>3, <2>8
    <3>2. feed \in Nat /\ first \in Nat /\ count \in Nat /\ count # 0 /\ first <= Len(w)
      <4> HIDE DEF w
      <4> QED BY <1>4, <2>4, <2>8
    <3>3. nonOptions' \in [feed : Nat, first : Nat, count : Nat]
      BY <3>1, <3>2
    <3>4. Others' = SubSeq(w, first, first + count - 1)
      BY <3>1, <3>2 DEF Others
    <3>5. first + count - 1 = Len(w)
      <4> HIDE DEF w
      <4> QED BY <2>4
    <3>6. Others' = Rest(w, first)
      BY <3>4, <3>5 DEF Rest
    <3>7. Rest(w, first) # <<>>
      <4> HIDE DEF w
      <4> QED BY <2>4, <2>5, <3>2
    <3> QED BY <1>1, <1>3, <1>8, <2>1, <2>2, <2>4, <3>1, <3>3, <3>6, <3>7, StoreReturns
  <2>9. CASE ~(count > 0)
    <3>1. nonOptions' = nonOptions
      BY <2>3, <2>9
    <3>2. Rest(w, first) = <<>>
      <4> DEFINE r == Rest(w, first)
      <4>1. Len(r) = 0
        <5> HIDE DEF w
        <5> QED BY <2>4, <2>5, <2>9
      <4> HIDE DEF r
      <4>2. r = <<>>
        BY <2>6, <4>1, EmptySeq DEF r
      <4> QED BY <4>2 DEF r
    <3>3. Reading(mode, vector).others = <<>>
      BY <2>4, <3>2
    <3> QED BY <1>1, <1>3, <1>8, <2>1, <2>2, <2>7, <3>1, <3>3, StoreReturns
  <2> QED BY <2>8, <2>9
<1> QED BY <1>4, <1>7, <1>8

\* An option that is performed is one more that its vector says.
LEMMA PerformsBound ==
  ASSUME ParserInv, pass # "done", group # NoGroup, Performs,
         NEW opts \in Seq(Option), NEW done \in Seq(Option), Progress(opts, done)
  PROVE  Len(opts \o done) + 1 <= Len(Reading(mode, vector).options)
<1>1. /\ vector \in Seq(Text) /\ mode \in Mode /\ args \in Nat \ {0} /\ nonops \in Nat
  BY ParserUnderway
<1> DEFINE p == args - nonops
           v == vector
           a == args
           M == Meaning(mode, vector, args).options
           r == Len(Reading(mode, vector).options)
           one == <<ThisOption>>
<1>2. /\ args \in 1 .. Len(vector) + 1 /\ nonops \in 0 .. args - 1
      /\ PrefixReads(mode, vector, p, opts) /\ PassedOver(mode, vector, p, args)
      /\ TakenApart(mode, vector, args, group, done)
  BY DEF Progress, Scanned
<1>3. p \in Nat \ {0} /\ p <= args /\ args <= Len(vector) + 1 /\ args \in Nat
  BY <1>1, <1>2
<1>4. IsChoice(vector, args)
  BY <1>2 DEF TakenApart
<1>5. Len(opts) + Len(M) <= r
  <2>1. IsChoice(vector, args) => Len(opts) + Len(M) <= r
    <3> HIDE DEF p
    <3> QED BY <1>1, <1>2, <1>3, ReadsAtLeast
  <2> QED BY <1>4, <2>1
<1>6. \E s \in Seq(Option) : M = (done \o one) \o s /\ one \in Seq(Option) /\ Len(one) = 1
  <2>1. CASE checked = "ARG_OK"
    <3>1. /\ Meaning(mode, vector, args)
              = [options |-> done \o <<ThisOption>>, length |-> taken, ok |-> TRUE]
          /\ ThisOption \in Option
      BY <1>1, <1>2, <2>1, MeansOk
    <3>2. one \in Seq(Option) /\ Len(one) = 1
      BY <3>1
    <3>3. M = done \o one
      BY <3>1
    <3> HIDE DEF one, M
    <3> DEFINE t == done \o one
    <3>4. t \in Seq(Option)
      BY <3>2, ConcatProperties
    <3> HIDE DEF t
    <3>5. M = t \o <<>> /\ <<>> \in Seq(Option)
      BY <3>3, <3>4, ConcatEmptySeq, EmptySeq DEF t
    <3> QED BY <3>2, <3>5 DEF t
  <2>2. CASE checked \in {"ARG_NONE", "ARG_IGNORE"}
    <3> DEFINE N == Meanings(AllOfIt)[group.param + 1]
    <3>1. Meaning(mode, vector, args) = More(done \o <<ThisOption>>, N)
      BY <1>1, <1>2, <2>2, MeansFlag
    <3>2. ThisOption \in Option /\ group.param \in 1 .. Len(AllOfIt)
      BY <1>1, <1>2, <2>2, MeansFlag
    <3>3. AllOfIt \in Seq(Read)
      BY <1>1, <1>2, GroupReads
    <3>4. N \in MeaningType
      <4> DEFINE read == AllOfIt
                 k == group.param
      <4>1. read \in Seq(Read) /\ k \in 1 .. Len(read)
        BY <3>2, <3>3
      <4> HIDE DEF read, k
      <4>2. k + 1 \in 1 .. Len(read) + 1
        BY <4>1
      <4>3. Meanings(read)[k + 1] \in MeaningType
        BY <4>1, <4>2, MeaningsEquation
      <4> QED BY <4>3 DEF read, k
    <3>5. N.options \in Seq(Option)
      BY <3>4 DEF MeaningType
    <3>6. one \in Seq(Option) /\ Len(one) = 1
      BY <3>2
    <3>7. M = (done \o one) \o N.options
      <4> DEFINE t == done \o <<ThisOption>>
      <4>1. Meaning(mode, vector, args) = More(t, N)
        BY <3>1
      <4> HIDE DEF t, N
      <4>2. Meaning(mode, vector, args).options = t \o N.options
        BY <4>1 DEF More
      <4> QED BY <4>2 DEF t
    <3> QED BY <3>5, <3>6, <3>7
  <2> QED BY <2>1, <2>2 DEF Performs
<1>7. PICK s \in Seq(Option) : M = (done \o one) \o s /\ one \in Seq(Option) /\ Len(one) = 1
  BY <1>6
<1> HIDE DEF M, one
<1>8. done \o one \in Seq(Option) /\ Len(done \o one) = Len(done) + Len(one)
  BY <1>7, ConcatProperties
<1> DEFINE t == done \o one
<1>9. t \in Seq(Option) /\ Len(t) = Len(done) + 1
  BY <1>7, <1>8
<1>10. M = t \o s
  BY <1>7
<1> HIDE DEF t
<1>11. Len(t \o s) = Len(t) + Len(s) /\ Len(s) \in Nat
  <2>1. t \in Seq(Option)
    BY <1>9
  <2> QED BY <2>1, ConcatProperties
<1>12. Len(opts \o done) = Len(opts) + Len(done) /\ Len(opts) \in Nat /\ Len(done) \in Nat
  BY ConcatProperties
<1>13. Reading(mode, vector).options \in Seq(Option)
  BY <1>1, ReadingParts
<1>14. r \in Nat
  BY <1>13
<1> HIDE DEF r
<1> QED BY <1>5, <1>9, <1>10, <1>11, <1>12, <1>14 DEF r

LEMMA RefuseInv ==
  ASSUME ParserInv, Refuse, pass # "done"
  PROVE  ParserInv'
<1>1. /\ group # NoGroup /\ Return(FALSE) /\ err' = (pass = "store")
      /\ UNCHANGED <<mode, written, vectors, buffer_max, cells, op_count, nonOptions>>
  BY DEF Refuse
<1>2. PICK opts \in Seq(Option), done \in Seq(Option) : Progress(opts, done)
  BY ParserUnderway
<1>3. /\ vector \in Seq(Text) /\ ParserTypeOK /\ pass \in {"count", "store"} /\ InVector
      /\ vectors \in Seq(Seq(Text)) /\ vector = vectors[feed] /\ mode \in Mode
      /\ feed \in 1 .. Len(written) /\ args \in Nat \ {0} /\ nonops \in Nat
  BY ParserUnderway
<1>4. TakenApart(mode, vector, args, group, done)
  BY <1>1, <1>2 DEF Progress, Scanned
<1>5. OtherVectorsKept /\ Reading(mode, vectors'[feed]) = Reading(mode, vector)
  BY <1>1, <1>3 DEF OtherVectorsKept
<1>6. /\ OptionsUpTo(mode, written)[feed] = Before \o Reading(mode, vector).options
      /\ Before \in Seq(Option)
  BY FoundAll
<1> DEFINE found == opts \o done
           options == Reading(mode, vector).options
<1>7. found \in Seq(Option) /\ options \in Seq(Option)
  BY <1>3, ConcatProperties, ReadingParts
<1>8. ASSUME checked = "ARG_ILLEGAL"
      PROVE  options = found /\ ~Reading(mode, vector).ok
  <2> DEFINE p == args - nonops
  <2>1. Meaning(mode, vector, args) = [options |-> done, length |-> 1, ok |-> FALSE]
    BY <1>3, <1>4, <1>8, MeansIllegal
  <2>2. /\ args \in 1 .. Len(vector) + 1 /\ nonops \in 0 .. args - 1
        /\ PrefixReads(mode, vector, p, opts) /\ PassedOver(mode, vector, p, args)
        /\ IsChoice(vector, args)
    BY <1>2, <1>4 DEF Progress, Scanned, TakenApart
  <2>3. p \in Nat \ {0} /\ p <= args /\ args \in Nat
    BY <1>3, <2>2
  <2> DEFINE v == vector
             a == args
  <2>a. /\ mode \in Mode /\ v \in Seq(Text) /\ p \in Nat \ {0} /\ a \in Nat /\ p <= a
        /\ PrefixReads(mode, v, p, opts) /\ PassedOver(mode, v, p, a)
        /\ Fails(mode, v, a, done)
    BY <1>3, <2>1, <2>2, <2>3 DEF Fails
  <2> HIDE DEF p, v, a
  <2>b. SaysUntil(mode, v, opts, done)
    BY ONLY <1>2, <2>a, ReadsToIllegal, opts \in Seq(Option), done \in Seq(Option)
  <2> QED BY <2>b DEF v, SaysUntil
<1>9. CASE pass = "count"
  <2>1. buffer_max = IntMax \/ buffer_max = 1 + Len(OptionsUpTo(mode, written)[feed])
    <3>1. CASE checked = "ARG_ILLEGAL"
      <4>1. buffer_max = IntMax \/ buffer_max = 1 + Len(Before) + Len(found)
        BY <1>2, <1>9 DEF Progress
      <4>2. OptionsUpTo(mode, written)[feed] = Before \o found
        BY <1>6, <1>8, <3>1
      <4> HIDE DEF found
      <4>3. Len(Before \o found) = Len(Before) + Len(found) /\ Len(Before) \in Nat /\ Len(found) \in Nat
        BY <1>6, <1>7, ConcatProperties
      <4> DEFINE n == Len(Before \o found)
                 b == Len(Before)
                 k == Len(found)
      <4>4. n = b + k /\ b \in Nat /\ k \in Nat /\ (buffer_max = IntMax \/ buffer_max = 1 + b + k)
        BY <4>1, <4>3
      <4> HIDE DEF n, b, k
      <4>5. buffer_max = IntMax \/ buffer_max = 1 + n
        BY <4>4
      <4> QED BY <4>2, <4>5 DEF n
    <3>2. CASE checked # "ARG_ILLEGAL"
      BY <1>9, <3>2 DEF Refuse
    <3> QED BY <3>1, <3>2
  <2> QED BY <1>1, <1>5, <1>9, <2>1, CountReturns
<1>10. CASE pass = "store"
  <2>1. Buffered = Before \o found
    BY <1>2, <1>10 DEF Progress
  <2>2. CASE checked = "ARG_ILLEGAL"
    <3>1. Buffered = OptionsUpTo(mode, written)[feed] /\ ~Reading(mode, vector).ok
      BY <1>6, <1>8, <2>1, <2>2
    <3> QED BY <1>1, <1>10, <3>1, StoreGivesUp
  <2>3. CASE checked # "ARG_ILLEGAL"
    <3>1. Performs /\ op_count = IntMax
      BY <1>10, <2>3 DEF Refuse
    <3>2. Len(found) + 1 <= Len(options)
      BY <1>1, <1>2, <3>1, PerformsBound
    <3> HIDE DEF found, options
    <3>3. Before \o found \in Seq(Option) /\ Len(Before \o found) = Len(Before) + Len(found)
          /\ Len(Before) \in Nat /\ Len(found) \in Nat
      BY <1>6, <1>7, ConcatProperties
    <3>4. Len(Before \o options) = Len(Before) + Len(options) /\ Len(options) \in Nat
      BY <1>6, <1>7, ConcatProperties
    <3>5. Len(Before \o found) = op_count
      <4> DEFINE G == [k \in 1 .. op_count |-> cells[Cell("buffer", k - 1)].option]
      <4>1. op_count \in Nat /\ Before \o found = [k \in 1 .. op_count |-> G[k]]
        BY <1>3, <2>1 DEF Buffered, ParserTypeOK
      <4> HIDE DEF G
      <4> QED BY <3>3, <4>1, BufferedLength
    <3>6. IntMax \in Nat
      BY OptionAssumption
    <3> DEFINE n == Len(Before \o options)
               b == Len(Before)
               k == Len(found)
               r == Len(options)
    <3>7. n = b + r /\ IntMax = b + k /\ k + 1 <= r /\ n \in Nat /\ b \in Nat /\ k \in Nat /\ r \in Nat
      BY <3>1, <3>2, <3>3, <3>4, <3>5, <3>6
    <3> HIDE DEF n, b, k, r
    <3>8. ~(n <= IntMax)
      BY <3>6, <3>7
    <3>9. ~(Len(OptionsUpTo(mode, written)[feed]) <= IntMax)
      BY <1>6, <3>8 DEF n, options
    <3> QED BY <1>1, <1>10, <3>9, StoreGivesUp
  <2> QED BY <2>2, <2>3
<1> QED BY <1>3, <1>9, <1>10

-----------------------------------------------------------------------------
(* The options of an index.                                                *)

\* How the options of an index are found among the first n ones.
Picks(i, options, h) ==
  /\ h \in [0 .. Len(options) -> Seq(Option)]
  /\ h[0] = <<>>
  /\ \A n \in 1 .. Len(options) :
       h[n] = IF options[n].index = i THEN Append(h[n - 1], options[n]) ELSE h[n - 1]

LEMMA OnlyEquation ==
  ASSUME NEW i, NEW options \in Seq(Option)
  PROVE  \E h : Picks(i, options, h) /\ Only(i, options) = h[Len(options)]
<1> DEFINE N == Len(options)
           X == Seq(Option)
           G == [n \in 1 .. N |->
                   [s \in X |-> IF options[n].index = i THEN Append(s, options[n]) ELSE s]]
           Step(h, n) == IF n = 0 THEN <<>>
                         ELSE IF options[n].index = i THEN Append(h[n - 1], options[n])
                         ELSE h[n - 1]
           Is(h) == h = [n \in 0 .. N |-> Step(h, n)]
<1>1. N \in Nat /\ <<>> \in X
  BY EmptySeq
<1>2. \A n \in 1 .. N : \A s \in X :
        (IF options[n].index = i THEN Append(s, options[n]) ELSE s) \in X
  <2> SUFFICES ASSUME NEW n \in 1 .. N, NEW s \in X
               PROVE  (IF options[n].index = i THEN Append(s, options[n]) ELSE s) \in X
    OBVIOUS
  <2>1. options[n] \in Option
    BY ElementOfSeq
  <2>2. Append(s, options[n]) \in X
    BY <2>1, AppendProperties
  <2> QED BY <2>2
<1> HIDE DEF X
<1>3. /\ G \in [1 .. N -> [X -> X]]
      /\ \A n \in 1 .. N, s \in X :
           G[n][s] = IF options[n].index = i THEN Append(s, options[n]) ELSE s
  BY <1>2
<1> HIDE DEF G
<1>4. PICK h \in [0 .. N -> X] : h[0] = <<>> /\ \A n \in 1 .. N : h[n] = G[n][h[n - 1]]
  <2>1. StepsUpwards(N, X, <<>>, G)
    BY <1>1, <1>3 DEF StepsUpwards
  <2> HIDE DEF N
  <2> QED BY <2>1, RecursionUpwards
<1>5. Is(h)
  <2>1. ASSUME NEW n \in 0 .. N PROVE h[n] = Step(h, n)
    <3>1. CASE n = 0
      BY <1>4, <3>1
    <3>2. CASE n # 0
      <4>1. n \in 1 .. N /\ n - 1 \in 0 .. N
        BY <3>2
      <4>2. h[n] = G[n][h[n - 1]] /\ h[n - 1] \in X
        BY <1>4, <4>1
      <4> QED BY <1>3, <3>2, <4>1, <4>2
    <3> QED BY <3>1, <3>2
  <2> QED BY <2>1
<1> DEFINE U == CHOOSE g : Is(g)
<1>6. Only(i, options) = U[N]
  BY DEF Only
<1>7. Is(U)
  <2> HIDE DEF Is
  <2> QED BY <1>5
<1> HIDE DEF U
<1>8. U[0] = <<>> /\ \A n \in 1 .. N :
        U[n] = IF options[n].index = i THEN Append(U[n - 1], options[n]) ELSE U[n - 1]
  <2>1. \A n \in 0 .. N : U[n] = Step(U, n)
    BY <1>7
  <2>2. ASSUME NEW n \in 1 .. N
        PROVE  U[n] = IF options[n].index = i THEN Append(U[n - 1], options[n]) ELSE U[n - 1]
    <3>1. n \in 0 .. N /\ n # 0
      BY <1>1
    <3>2. U[n] = Step(U, n)
      BY <2>1, <3>1
    <3> QED BY <3>1, <3>2
  <2>3. U[0] = Step(U, 0)
    BY <1>1, <2>1
  <2> QED BY <2>2, <2>3
<1>9. \A n \in 0 .. N : U[n] = h[n]
  <2> DEFINE T == {n \in 0 .. N : U[n] = h[n]}
  <2>1. 0 \in T
    BY <1>1, <1>4, <1>8
  <2>2. ASSUME NEW n \in 0 .. N - 1, n \in T PROVE n + 1 \in T
    <3>1. n + 1 \in 1 .. N /\ (n + 1) - 1 = n /\ U[n] = h[n] /\ n \in 0 .. N
      BY <2>2
    <3>2. h[n + 1] = G[n + 1][h[n]] /\ h[n] \in X
      BY <1>4, <3>1
    <3>3. h[n + 1] = IF options[n + 1].index = i THEN Append(h[n], options[n + 1]) ELSE h[n]
      BY <1>3, <3>1, <3>2
    <3>4. U[n + 1] = IF options[n + 1].index = i THEN Append(U[n], options[n + 1]) ELSE U[n]
      BY <1>8, <3>1
    <3> QED BY <3>1, <3>3, <3>4
  <2>3. 0 \in Int /\ N \in Int
    OBVIOUS
  <2> HIDE DEF T, N
  <2>4. \A n \in 0 .. N : n \in T
    BY <2>1, <2>2, <2>3, Upwards
  <2> QED BY <2>4 DEF T
<1>10. Picks(i, options, h)
  <2>1. ASSUME NEW n \in 1 .. N
        PROVE  h[n] = IF options[n].index = i THEN Append(h[n - 1], options[n]) ELSE h[n - 1]
    <3>1. n - 1 \in 0 .. N
      OBVIOUS
    <3>2. h[n] = G[n][h[n - 1]] /\ h[n - 1] \in X
      BY <1>4, <3>1
    <3> QED BY <1>3, <3>2
  <2> QED BY <1>4, <2>1 DEF Picks, X
<1> QED BY <1>1, <1>6, <1>9, <1>10

LEMMA OnlyOfNothing ==
  ASSUME NEW i
  PROVE  Only(i, <<>>) = <<>>
<1>1. <<>> \in Seq(Option) /\ Len(<<>>) = 0
  BY EmptySeq
<1>2. PICK h : Picks(i, <<>>, h) /\ Only(i, <<>>) = h[Len(<<>>)]
  BY <1>1, OnlyEquation
<1> QED BY <1>1, <1>2 DEF Picks

\* One more option is the last one of its index, and none of the others.
LEMMA OnlyOfOneMore ==
  ASSUME NEW i, NEW options \in Seq(Option), NEW o \in Option
  PROVE  Only(i, Append(options, o)) =
           IF o.index = i THEN Append(Only(i, options), o) ELSE Only(i, options)
<1> DEFINE N == Len(options)
           more == Append(options, o)
<1>1. more \in Seq(Option) /\ Len(more) = N + 1 /\ more[N + 1] = o /\ N \in Nat
      /\ \A n \in 1 .. N : more[n] = options[n]
  BY AppendProperties
<1>2. PICK h : Picks(i, options, h) /\ Only(i, options) = h[N]
  BY OnlyEquation
<1> HIDE DEF more
<1>3. PICK g : Picks(i, more, g) /\ Only(i, more) = g[Len(more)]
  BY <1>1, OnlyEquation
<1>4. \A n \in 0 .. N : g[n] = h[n]
  <2> DEFINE T == {n \in 0 .. N : g[n] = h[n]}
  <2>1. 0 \in T
    BY <1>1, <1>2, <1>3 DEF Picks
  <2>2. ASSUME NEW n \in 0 .. N - 1, n \in T PROVE n + 1 \in T
    <3>1. n + 1 \in 1 .. N /\ n + 1 \in 1 .. N + 1 /\ (n + 1) - 1 = n /\ g[n] = h[n]
      BY <1>1, <2>2
    <3>2. h[n + 1] = IF options[n + 1].index = i THEN Append(h[n], options[n + 1]) ELSE h[n]
      BY <1>2, <3>1 DEF Picks
    <3>3. g[n + 1] = IF more[n + 1].index = i THEN Append(g[n], more[n + 1]) ELSE g[n]
      BY <1>1, <1>3, <3>1 DEF Picks
    <3> QED BY <1>1, <3>1, <3>2, <3>3
  <2>3. 0 \in Int /\ N \in Int
    BY <1>1
  <2> HIDE DEF T, N
  <2>4. \A n \in 0 .. N : n \in T
    BY <2>1, <2>2, <2>3, Upwards
  <2> QED BY <2>4 DEF T
<1>5. g[N + 1] = IF more[N + 1].index = i THEN Append(g[N], more[N + 1]) ELSE g[N]
  <2>1. N + 1 \in 1 .. N + 1 /\ (N + 1) - 1 = N
    BY <1>1
  <2> QED BY <1>1, <1>3, <2>1 DEF Picks
<1>6. g[N] = h[N]
  BY <1>1, <1>4
<1> QED BY <1>1, <1>2, <1>3, <1>5, <1>6 DEF more

-----------------------------------------------------------------------------
(* The lists of options[], as relations between cells before and after     *)
(* one more option.                                                        *)

CellId == [array : {"options", "buffer"}, at : Nat]
Link == [to : CellId, tag : BOOLEAN]
CellType == [option : Option, next : Link, prev : Link]

\* The cells of a table: what they hold has its type, and no link leaves the table.
Cells(C) ==
  /\ DOMAIN C \in SUBSET CellId
  /\ \A c \in DOMAIN C :
       /\ C[c] \in CellType
       /\ C[c].next.to \in DOMAIN C /\ C[c].prev.to \in DOMAIN C

\* The list of an index runs through s.
Thread(C, i, s) ==
  /\ s \in Seq(DOMAIN C) /\ s # <<>>
  /\ s[1] = Cell("options", i)
  /\ \A k \in 1 .. Len(s) : C[s[k]].option.index = i
  /\ \A k \in 1 .. Len(s) - 1 : C[s[k]].next = LinkTo(s[k + 1], FALSE)
  /\ C[s[Len(s)]].next.tag = TRUE
  /\ C[s[1]].prev = LinkTo(s[Len(s)], TRUE)

\* Going back from the next Option leads here.
Returns(C, c) == C[c].next.tag = FALSE => C[C[c].next.to].prev = LinkTo(c, FALSE)

\* What Option::append does: new comes between last and head.
Appends(C, D, head, last, new, option) ==
  /\ DOMAIN D = DOMAIN C \cup {new}
  /\ D[new] = [option |-> option, next |-> LinkTo(head, TRUE), prev |-> LinkTo(last, FALSE)]
  /\ \A c \in DOMAIN C :
       /\ D[c].option = C[c].option
       /\ D[c].next = IF c = last THEN LinkTo(new, FALSE) ELSE C[c].next
       /\ D[c].prev = IF c = head THEN LinkTo(new, TRUE) ELSE C[c].prev
       /\ D[c] \in CellType

\* The first Option of its index.
Begins(C, D, head, new, option) ==
  /\ DOMAIN D = DOMAIN C \cup {new, head}
  /\ D[new] = Unlinked(option, new) /\ D[head] = Unlinked(option, head)
  /\ \A c \in DOMAIN C : D[c] = C[c]

LEMMA LinkGoesTo ==
  ASSUME NEW link, NEW c, NEW tag, link = LinkTo(c, tag)
  PROVE  link.to = c
BY DEF LinkTo

LEMMA LinkHasTag ==
  ASSUME NEW link, NEW c, NEW tag, link = LinkTo(c, tag)
  PROVE  link.tag = tag
BY DEF LinkTo

\* A cell is made of parts of their types.
LEMMA CellParts ==
  ASSUME NEW option \in Option, NEW next \in Link, NEW prev \in Link
  PROVE  [option |-> option, next |-> next, prev |-> prev] \in CellType
BY DEF CellType

LEMMA LinkType ==
  ASSUME NEW c \in CellId, NEW tag \in BOOLEAN
  PROVE  LinkTo(c, tag) \in Link
BY DEF LinkTo, Link

LEMMA AppendsCells ==
  ASSUME NEW C, NEW D, Cells(C), NEW head \in DOMAIN C, NEW last \in DOMAIN C,
         NEW new \in CellId, NEW option \in Option, Appends(C, D, head, last, new, option)
  PROVE  Cells(D)
<1>1. DOMAIN D = DOMAIN C \cup {new} /\ DOMAIN C \in SUBSET CellId
  BY DEF Appends, Cells
<1>2. DOMAIN D \in SUBSET CellId
  BY <1>1
<1>3. ASSUME NEW c \in DOMAIN D
      PROVE  /\ D[c] \in CellType
             /\ D[c].next.to \in DOMAIN D /\ D[c].prev.to \in DOMAIN D
  <2>1. CASE c = new
    <3>1. D[c] = [option |-> option, next |-> LinkTo(head, TRUE), prev |-> LinkTo(last, FALSE)]
      BY <2>1 DEF Appends
    <3>2. head \in CellId /\ last \in CellId
      BY <1>1
    <3>3. LinkTo(head, TRUE) \in Link /\ LinkTo(last, FALSE) \in Link
      BY <3>2, LinkType
    <3>4. D[c] \in CellType
      BY <3>1, <3>3, CellParts
    <3>5. D[c].next = LinkTo(head, TRUE) /\ D[c].prev = LinkTo(last, FALSE)
      BY <3>1
    <3>6. D[c].next.to = head
      BY <3>5, LinkGoesTo
    <3>7. D[c].prev.to = last
      BY <3>5, LinkGoesTo
    <3> QED BY <1>1, <3>4, <3>6, <3>7
  <2>2. CASE c # new
    <3>1. c \in DOMAIN C
      BY <1>1, <2>2
    <3>2. D[c] \in CellType
      BY <3>1 DEF Appends
    <3>3. C[c].next.to \in DOMAIN C /\ C[c].prev.to \in DOMAIN C
      BY <3>1 DEF Cells
    <3>4. D[c].next.to \in DOMAIN D
      <4>1. D[c].next = IF c = last THEN LinkTo(new, FALSE) ELSE C[c].next
        BY <3>1 DEF Appends
      <4>2. D[c].next.to = new \/ D[c].next.to = C[c].next.to
        BY <4>1, LinkGoesTo, LinkHasTag
      <4> QED BY <1>1, <3>3, <4>2
    <3>5. D[c].prev.to \in DOMAIN D
      <4>1. D[c].prev = IF c = head THEN LinkTo(new, TRUE) ELSE C[c].prev
        BY <3>1 DEF Appends
      <4>2. D[c].prev.to = new \/ D[c].prev.to = C[c].prev.to
        BY <4>1, LinkGoesTo, LinkHasTag
      <4> QED BY <1>1, <3>3, <4>2
    <3> QED BY <3>2, <3>4, <3>5
  <2> QED BY <2>1, <2>2
<1> QED BY <1>2, <1>3 DEF Cells

LEMMA BeginsCells ==
  ASSUME NEW C, NEW D, Cells(C), NEW head \in CellId, NEW new \in CellId, NEW option \in Option,
         Begins(C, D, head, new, option)
  PROVE  Cells(D)
<1>1. DOMAIN D = DOMAIN C \cup {new, head} /\ DOMAIN C \in SUBSET CellId
  BY DEF Begins, Cells
<1>2. DOMAIN D \in SUBSET CellId
  BY <1>1
<1>3. ASSUME NEW c \in DOMAIN D
      PROVE  /\ D[c] \in CellType
             /\ D[c].next.to \in DOMAIN D /\ D[c].prev.to \in DOMAIN D
  <2>1. CASE c \in {new, head}
    <3>1. D[c] = [option |-> option, next |-> LinkTo(c, TRUE), prev |-> LinkTo(c, TRUE)]
      BY <2>1 DEF Begins, Unlinked
    <3>2. LinkTo(c, TRUE) \in Link
      BY <2>1, LinkType
    <3>3. D[c] \in CellType
      BY <3>1, <3>2, CellParts
    <3>4. D[c].next = LinkTo(c, TRUE) /\ D[c].prev = LinkTo(c, TRUE)
      BY <3>1
    <3>5. D[c].next.to = c
      BY <3>4, LinkGoesTo
    <3>6. D[c].prev.to = c
      BY <3>4, LinkGoesTo
    <3> QED BY <3>3, <3>5, <3>6
  <2>2. CASE c \notin {new, head}
    <3>1. c \in DOMAIN C
      BY <1>1, <2>2
    <3>2. D[c] = C[c]
      BY <3>1 DEF Begins
    <3>3. C[c] \in CellType /\ C[c].next.to \in DOMAIN C /\ C[c].prev.to \in DOMAIN C
      BY <3>1 DEF Cells
    <3> QED BY <1>1, <3>2, <3>3
  <2> QED BY <2>1, <2>2
<1> QED BY <1>2, <1>3 DEF Cells

\* The list that the option is appended to.
LEMMA AppendsThread ==
  ASSUME NEW C, NEW D, NEW i, NEW s, NEW head, NEW last, NEW new, NEW option,
         Thread(C, i, s), head = s[1], last = s[Len(s)], new \notin DOMAIN C, option.index = i,
         Appends(C, D, head, last, new, option)
  PROVE  Thread(D, i, Append(s, new))
<1> DEFINE N == Len(s)
           t == Append(s, new)
<1>1. s \in Seq(DOMAIN C) /\ s # <<>> /\ DOMAIN D = DOMAIN C \cup {new}
  BY DEF Thread, Appends
<1>2. N \in Nat \ {0} /\ \A k \in 1 .. N : s[k] \in DOMAIN C
  BY <1>1
<1>3. t \in Seq(DOMAIN D) /\ Len(t) = N + 1 /\ t[N + 1] = new /\ \A k \in 1 .. N : t[k] = s[k]
  <2>1. s \in Seq(DOMAIN D) /\ new \in DOMAIN D
    BY <1>1
  <2> QED BY <2>1, AppendProperties
<1> HIDE DEF t
<1>4. t # <<>> /\ t[1] = Cell("options", i)
  <2>1. 1 \in 1 .. N
    BY <1>2
  <2>2. t[1] = s[1]
    BY <1>3, <2>1
  <2>3. Len(t) # 0
    BY <1>2, <1>3
  <2> QED BY <2>2, <2>3 DEF Thread
<1>5. D[new].option = option /\ D[new].next = LinkTo(head, TRUE)
  BY DEF Appends
<1>6. ASSUME NEW k \in 1 .. N + 1 PROVE D[t[k]].option.index = i
  <2>1. CASE k = N + 1
    BY <1>3, <1>5, <2>1
  <2>2. CASE k # N + 1
    <3>1. k \in 1 .. N /\ t[k] = s[k] /\ s[k] \in DOMAIN C
      BY <1>2, <1>3, <2>2
    <3>2. C[s[k]].option.index = i
      BY <3>1 DEF Thread
    <3>3. D[s[k]].option = C[s[k]].option
      BY <3>1 DEF Appends
    <3> QED BY <3>1, <3>2, <3>3
  <2> QED BY <2>1, <2>2
<1>7. ASSUME NEW k \in 1 .. N PROVE D[t[k]].next = LinkTo(t[k + 1], FALSE)
  <2>1. t[k] = s[k] /\ s[k] \in DOMAIN C
    BY <1>2, <1>3
  <2>2. D[s[k]].next = IF s[k] = last THEN LinkTo(new, FALSE) ELSE C[s[k]].next
    BY <2>1 DEF Appends
  <2>3. CASE k = N
    <3>1. t[k + 1] = new /\ s[k] = last
      BY <1>3, <2>3
    <3> QED BY <2>1, <2>2, <3>1
  <2>4. CASE k # N
    <3>1. k \in 1 .. N - 1 /\ k + 1 \in 1 .. N
      BY <1>2, <2>4
    <3>2. C[s[k]].next = LinkTo(s[k + 1], FALSE)
      BY <3>1 DEF Thread
    <3>3. C[s[k]].next.tag = FALSE
      <4> DEFINE link == C[s[k]].next
                 c == s[k + 1]
      <4>1. link = LinkTo(c, FALSE)
        BY <3>2
      <4> HIDE DEF link, c
      <4>2. link.tag = FALSE
        BY <4>1, LinkHasTag
      <4> QED BY <4>2 DEF link
    <3>4. C[last].next.tag = TRUE
      BY DEF Thread
    <3>5. s[k] # last
      BY <3>3, <3>4
    <3>6. t[k + 1] = s[k + 1]
      BY <1>3, <3>1
    <3> QED BY <2>1, <2>2, <3>2, <3>5, <3>6
  <2> QED BY <2>3, <2>4
<1>8. D[t[N + 1]].next.tag = TRUE
  BY <1>3, <1>5, LinkGoesTo, LinkHasTag, ZenonT(60)
<1>9. D[t[1]].prev = LinkTo(t[N + 1], TRUE)
  <2>1. 1 \in 1 .. N
    BY <1>2
  <2>2. t[1] = head /\ head \in DOMAIN C
    BY <1>2, <1>3, <2>1
  <2>3. D[head].prev = LinkTo(new, TRUE)
    BY <2>2 DEF Appends
  <2> QED BY <1>3, <2>2, <2>3
<1>10. Len(t) - 1 = N /\ Len(t) = N + 1
  BY <1>2, <1>3
<1>11. Thread(D, i, t)
  <2>1. \A k \in 1 .. Len(t) : D[t[k]].option.index = i
    BY <1>6, <1>10
  <2>2. \A k \in 1 .. Len(t) - 1 : D[t[k]].next = LinkTo(t[k + 1], FALSE)
    BY <1>7, <1>10
  <2>3. D[t[Len(t)]].next.tag = TRUE /\ D[t[1]].prev = LinkTo(t[Len(t)], TRUE)
    BY <1>8, <1>9, <1>10
  <2> QED BY <1>3, <1>4, <2>1, <2>2, <2>3 DEF Thread
<1> QED BY <1>11 DEF t

\* The other lists stay as they are.
LEMMA ThreadKept ==
  ASSUME NEW C, NEW D, NEW i, NEW s, Thread(C, i, s),
         DOMAIN C \in SUBSET DOMAIN D,
         \A c \in DOMAIN C :
           C[c].option.index = i =>
             D[c].option = C[c].option /\ D[c].next = C[c].next /\ D[c].prev = C[c].prev
  PROVE  Thread(D, i, s)
<1>1. s \in Seq(DOMAIN C) /\ s # <<>>
  BY DEF Thread
<1>2. s \in Seq(DOMAIN D)
  BY <1>1
<1>3. ASSUME NEW k \in 1 .. Len(s)
      PROVE  /\ D[s[k]].option = C[s[k]].option /\ D[s[k]].next = C[s[k]].next
             /\ D[s[k]].prev = C[s[k]].prev
  <2>1. s[k] \in DOMAIN C
    BY <1>1
  <2>2. C[s[k]].option.index = i
    BY DEF Thread
  <2> QED BY <2>1, <2>2
<1>4. Len(s) \in 1 .. Len(s) /\ 1 \in 1 .. Len(s)
  BY <1>1
<1>5. \A k \in 1 .. Len(s) - 1 : k \in 1 .. Len(s)
  BY <1>1
<1> QED BY <1>1, <1>2, <1>3, <1>4, <1>5 DEF Thread

LEMMA AppendsOther ==
  ASSUME NEW C, NEW D, NEW i, NEW s, NEW head \in DOMAIN C, NEW last \in DOMAIN C, NEW new,
         NEW option, Thread(C, i, s), C[head].option.index # i, C[last].option.index # i,
         Appends(C, D, head, last, new, option)
  PROVE  Thread(D, i, s)
<1>1. DOMAIN C \in SUBSET DOMAIN D
  BY DEF Appends
<1>2. \A c \in DOMAIN C :
        C[c].option.index = i =>
          D[c].option = C[c].option /\ D[c].next = C[c].next /\ D[c].prev = C[c].prev
  BY DEF Appends
<1> QED BY <1>1, <1>2, ThreadKept

LEMMA BeginsOther ==
  ASSUME NEW C, NEW D, NEW i, NEW s, NEW head, NEW new, NEW option, Thread(C, i, s),
         Begins(C, D, head, new, option)
  PROVE  Thread(D, i, s)
<1>1. DOMAIN C \in SUBSET DOMAIN D
  BY DEF Begins
<1>2. \A c \in DOMAIN C :
        C[c].option.index = i =>
          D[c].option = C[c].option /\ D[c].next = C[c].next /\ D[c].prev = C[c].prev
  BY DEF Begins
<1> QED BY <1>1, <1>2, ThreadKept

LEMMA BeginsThread ==
  ASSUME NEW C, NEW D, NEW i, NEW head, NEW new, NEW option, head = Cell("options", i),
         option.index = i, Begins(C, D, head, new, option)
  PROVE  Thread(D, i, <<head>>)
<1>1. head \in DOMAIN D
  BY DEF Begins
<1>2. D[head] = [option |-> option, next |-> LinkTo(head, TRUE), prev |-> LinkTo(head, TRUE)]
  BY DEF Begins, Unlinked
<1> DEFINE s == <<head>>
<1>3. s \in Seq(DOMAIN D) /\ s # <<>> /\ Len(s) = 1 /\ s[1] = head
  BY <1>1
<1>4. D[head].option.index = i /\ D[head].next.tag = TRUE /\ D[head].prev = LinkTo(head, TRUE)
  <2>1. D[head].option = option /\ D[head].next = LinkTo(head, TRUE) /\ D[head].prev = LinkTo(head, TRUE)
    BY <1>2
  <2>2. D[head].next.tag = TRUE
    BY <2>1, LinkHasTag
  <2> QED BY <2>1, <2>2
<1> HIDE DEF s
<1>5. 1 .. Len(s) = {1} /\ 1 .. Len(s) - 1 = {}
  BY <1>3
<1>6. Thread(D, i, s)
  BY <1>3, <1>4, <1>5 DEF Thread
<1> QED BY <1>6 DEF s

\* Going back stays the inverse of going on.
LEMMA AppendsReturns ==
  ASSUME NEW C, NEW D, Cells(C), NEW head \in DOMAIN C, NEW last \in DOMAIN C, NEW new, NEW option,
         new \notin DOMAIN C, C[head].prev.tag = TRUE, \A c \in DOMAIN C : Returns(C, c),
         Appends(C, D, head, last, new, option)
  PROVE  \A c \in DOMAIN D : Returns(D, c)
<1> SUFFICES ASSUME NEW c \in DOMAIN D, D[c].next.tag = FALSE
             PROVE  D[D[c].next.to].prev = LinkTo(c, FALSE)
  BY DEF Returns
<1>1. DOMAIN D = DOMAIN C \cup {new}
      /\ D[new].next = LinkTo(head, TRUE) /\ D[new].prev = LinkTo(last, FALSE)
  BY DEF Appends
<1>2. c # new
  <2>1. D[new].next.tag = TRUE
    BY <1>1, LinkGoesTo, LinkHasTag
  <2> QED BY <2>1
<1>3. c \in DOMAIN C
  BY <1>1, <1>2
<1>4. CASE c = last
  <2>1. D[c].next = LinkTo(new, FALSE)
    BY <1>3, <1>4 DEF Appends
  <2>2. D[c].next.to = new
    BY <2>1, LinkGoesTo, LinkHasTag
  <2> QED BY <1>1, <1>4, <2>2
<1>5. CASE c # last
  <2>1. D[c].next = C[c].next
    BY <1>3, <1>5 DEF Appends
  <2> DEFINE d == C[c].next.to
  <2>2. C[d].prev = LinkTo(c, FALSE) /\ d \in DOMAIN C
    BY <1>3, <2>1 DEF Returns, Cells
  <2>3. d # head
    <3>1. C[d].prev.tag = FALSE
      BY <2>2, LinkGoesTo, LinkHasTag
    <3> QED BY <3>1
  <2>4. D[d].prev = C[d].prev
    BY <2>2, <2>3 DEF Appends
  <2> QED BY <2>1, <2>2, <2>4
<1> QED BY <1>4, <1>5

LEMMA BeginsReturns ==
  ASSUME NEW C, NEW D, Cells(C), NEW head, NEW new, NEW option,
         \A c \in DOMAIN C : Returns(C, c), Begins(C, D, head, new, option)
  PROVE  \A c \in DOMAIN D : Returns(D, c)
<1> SUFFICES ASSUME NEW c \in DOMAIN D, D[c].next.tag = FALSE
             PROVE  D[D[c].next.to].prev = LinkTo(c, FALSE)
  BY DEF Returns
<1>1. c \notin {new, head}
  <2>1. ASSUME NEW d \in {new, head} PROVE D[d].next.tag = TRUE
    <3>1. D[d] = Unlinked(option, d)
      BY DEF Begins
    <3>2. D[d].next = LinkTo(d, TRUE)
      BY <3>1 DEF Unlinked
    <3> QED BY <3>2, LinkHasTag
  <2> QED BY <2>1
<1>2. c \in DOMAIN C /\ D[c] = C[c]
  BY <1>1 DEF Begins
<1> DEFINE d == C[c].next.to
<1>3. C[d].prev = LinkTo(c, FALSE) /\ d \in DOMAIN C
  BY <1>2 DEF Returns, Cells
<1>4. D[d] = C[d]
  BY <1>3 DEF Begins
<1> QED BY <1>2, <1>3, <1>4

-----------------------------------------------------------------------------
(* The lists of options[].                                                 *)

Indexes(m) == {m.usage[d].index : d \in DOMAIN m.usage}

\* The list of an index has its options, in their order.
Listed(C, n, options, i) ==
  IF Cell("options", i) \in DOMAIN C
  THEN \E s \in Seq(DOMAIN C) :
         /\ Thread(C, i, s) /\ Len(s) <= n
         /\ [k \in DOMAIN s |-> C[s[k]].option] = Only(i, options)
  ELSE Only(i, options) = <<>>

\* The cells are those that are counted, and options[] is as large as its indexes need.
Places(C, n, m) ==
  /\ \A c \in DOMAIN C : /\ c.array = "buffer" => c.at < n
                         /\ c.array = "options" => c.at \in Indexes(m)
  /\ \A k \in 1 .. n : Cell("buffer", k - 1) \in DOMAIN C

ListsInv ==
  /\ op_count \in Nat
  /\ Cells(cells)
  /\ Places(cells, op_count, mode)
  /\ \A c \in DOMAIN cells : Returns(cells, c)
  /\ \A i \in Nat : Listed(cells, op_count, Buffered, i)

LEMMA CellIdType ==
  ASSUME NEW k \in Nat
  PROVE  Cell("options", k) \in CellId /\ Cell("buffer", k) \in CellId
BY DEF Cell, CellId

LEMMA NextSet ==
  ASSUME NEW r \in CellType, NEW x \in Link
  PROVE  /\ [r EXCEPT !.next = x] \in CellType
         /\ [r EXCEPT !.next = x].option = r.option
         /\ [r EXCEPT !.next = x].next = x
         /\ [r EXCEPT !.next = x].prev = r.prev
<1> HIDE DEF Link
<1> QED BY DEF CellType

LEMMA PrevSet ==
  ASSUME NEW r \in CellType, NEW x \in Link
  PROVE  /\ [r EXCEPT !.prev = x] \in CellType
         /\ [r EXCEPT !.prev = x].option = r.option
         /\ [r EXCEPT !.prev = x].next = r.next
         /\ [r EXCEPT !.prev = x].prev = x
BY DEF CellType

\* What StoreOptionAction does to a list that has an Option already.
LEMMA StoredAppends ==
  ASSUME Cells(cells), op_count \in Nat, NEW option \in Option,
         NEW head, head = Cell("options", option.index), head \in DOMAIN cells,
         NEW last, last = cells[head].prev.to,
         NEW new, new = Cell("buffer", op_count), new \notin DOMAIN cells
  PROVE  Appends(cells, Stored(option), head, last, new, option)
<1> DEFINE X == LinkTo(new, FALSE)
           Y == LinkTo(new, TRUE)
           E == [cells EXCEPT ![last].next = X]
           known == [cells EXCEPT ![last].next = X, ![head].prev = Y]
           D == Stored(option)
<1>1. /\ \A c \in DOMAIN cells : cells[c] \in CellType
      /\ last \in DOMAIN cells /\ new \in CellId
  BY CellIdType DEF Cells
<1>2. X \in Link /\ Y \in Link
  BY <1>1, LinkType
<1>3. D = [c \in DOMAIN cells \cup {new} |->
             IF c = new THEN [option |-> option, next |-> LinkTo(head, TRUE),
                                                 prev |-> LinkTo(last, FALSE)]
                        ELSE known[c]]
  BY DEF Stored, Appended
<1>4. \A c \in DOMAIN cells :
        /\ E[c] \in CellType /\ E[c].option = cells[c].option /\ E[c].prev = cells[c].prev
        /\ E[c].next = IF c = last THEN X ELSE cells[c].next
  <2> TAKE c \in DOMAIN cells
  <2> HIDE DEF X
  <2>1. CASE c = last
    <3>1. E[c] = [cells[last] EXCEPT !.next = X]
      BY <2>1
    <3> DEFINE r == cells[last]
    <3>2. r \in CellType /\ E[c] = [r EXCEPT !.next = X]
      BY <1>1, <3>1
    <3> HIDE DEF r, E
    <3> QED BY <1>2, <2>1, <3>2, NextSet DEF r
  <2>2. CASE c # last
    <3>1. E[c] = cells[c]
      BY <2>2
    <3> QED BY <1>1, <2>2, <3>1
  <2> QED BY <2>1, <2>2
<1>5. known = [E EXCEPT ![head].prev = Y] /\ DOMAIN E = DOMAIN cells
  OBVIOUS
<1> HIDE DEF E, known, X, Y
<1>6. \A c \in DOMAIN cells :
        /\ known[c] \in CellType /\ known[c].option = cells[c].option
        /\ known[c].next = IF c = last THEN X ELSE cells[c].next
        /\ known[c].prev = IF c = head THEN Y ELSE cells[c].prev
  <2> TAKE c \in DOMAIN cells
  <2>1. CASE c = head
    <3> DEFINE r == E[head]
    <3>1. r \in CellType /\ known[c] = [r EXCEPT !.prev = Y]
      BY <1>4, <1>5, <2>1
    <3>2. r.option = cells[c].option /\ r.next = IF c = last THEN X ELSE cells[c].next
      BY <1>4, <2>1
    <3> HIDE DEF r
    <3> QED BY <1>2, <2>1, <3>1, <3>2, PrevSet
  <2>2. CASE c # head
    <3>1. known[c] = E[c]
      BY <1>5, <2>2
    <3> QED BY <1>4, <2>2, <3>1
  <2> QED BY <2>1, <2>2
<1> HIDE DEF D
<1>7. DOMAIN D = DOMAIN cells \cup {new}
  BY <1>3
<1>8. D[new] = [option |-> option, next |-> LinkTo(head, TRUE), prev |-> LinkTo(last, FALSE)]
  BY <1>3
<1>9. \A c \in DOMAIN cells : D[c] = known[c]
  BY <1>3
<1>10. Appends(cells, D, head, last, new, option)
  BY <1>6, <1>7, <1>8, <1>9, ZenonT(60) DEF Appends, X, Y
<1> QED BY <1>10 DEF D

LEMMA StoredBegins ==
  ASSUME NEW option \in Option,
         NEW head, head = Cell("options", option.index), head \notin DOMAIN cells,
         NEW new, new = Cell("buffer", op_count), new \notin DOMAIN cells
  PROVE  Begins(cells, Stored(option), head, new, option)
<1> DEFINE D == Stored(option)
<1>1. D = [c \in DOMAIN cells \cup {new, head} |->
             IF c \in {new, head} THEN Unlinked(option, c) ELSE cells[c]]
  BY DEF Stored
<1> HIDE DEF D
<1>2. DOMAIN D = DOMAIN cells \cup {new, head}
  BY <1>1
<1>3. D[new] = Unlinked(option, new) /\ D[head] = Unlinked(option, head)
  BY <1>1
<1>4. \A c \in DOMAIN cells : D[c] = cells[c]
  BY <1>1
<1>5. Begins(cells, D, head, new, option)
  BY <1>2, <1>3, <1>4 DEF Begins
<1> QED BY <1>5 DEF D

\* Either way the options of the cells stay, and that of the new one is this one.
LEMMA StoredOptions ==
  ASSUME NEW C, NEW D, NEW head, NEW last, NEW new, NEW option,
         Appends(C, D, head, last, new, option) \/ Begins(C, D, head, new, option)
  PROVE  /\ \A c \in DOMAIN C : c \in DOMAIN D /\ D[c].option = C[c].option
         /\ new \in DOMAIN D /\ D[new].option = option
<1>1. CASE Appends(C, D, head, last, new, option)
  <2>1. D[new] = [option |-> option, next |-> LinkTo(head, TRUE), prev |-> LinkTo(last, FALSE)]
    BY <1>1 DEF Appends
  <2>2. D[new].option = option
    BY <2>1
  <2>3. \A c \in DOMAIN C : c \in DOMAIN D /\ D[c].option = C[c].option
    BY <1>1 DEF Appends
  <2>4. new \in DOMAIN D
    BY <1>1 DEF Appends
  <2> QED BY <2>2, <2>3, <2>4
<1>2. CASE Begins(C, D, head, new, option)
  BY <1>2 DEF Begins, Unlinked
<1> QED BY <1>1, <1>2

\* The buffer is one Option longer.
LEMMA BufferedGrows ==
  ASSUME NEW C, NEW D, NEW n \in Nat, NEW option \in Option,
         \A k \in 1 .. n : Cell("buffer", k - 1) \in DOMAIN C,
         \A c \in DOMAIN C : C[c].option \in Option,
         \A c \in DOMAIN C : D[c].option = C[c].option,
         D[Cell("buffer", n)].option = option
  PROVE  /\ [k \in 1 .. n |-> C[Cell("buffer", k - 1)].option] \in Seq(Option)
         /\ [k \in 1 .. n + 1 |-> D[Cell("buffer", k - 1)].option]
              = Append([k \in 1 .. n |-> C[Cell("buffer", k - 1)].option], option)
<1> DEFINE b == [k \in 1 .. n |-> C[Cell("buffer", k - 1)].option]
           d == [k \in 1 .. n + 1 |-> D[Cell("buffer", k - 1)].option]
<1>1. \A k \in 1 .. n : b[k] = C[Cell("buffer", k - 1)].option /\ b[k] \in Option
  OBVIOUS
<1>2. \A k \in 1 .. n : d[k] = b[k]
  OBVIOUS
<1>3. d[n + 1] = option
  <2>1. (n + 1) - 1 = n /\ n + 1 \in 1 .. n + 1
    OBVIOUS
  <2> QED BY <2>1
<1>4. b \in [1 .. n -> Option]
  BY <1>1
<1>5. b \in Seq(Option) /\ Len(b) = n
  <2> HIDE DEF b
  <2>1. b \in Seq(Option)
    BY <1>4
  <2> QED BY <1>4, <2>1
<1>6. d \in [1 .. n + 1 -> Option]
  <2>1. ASSUME NEW k \in 1 .. n + 1 PROVE d[k] \in Option
    <3>1. k = n + 1 \/ k \in 1 .. n
      OBVIOUS
    <3> HIDE DEF d, b
    <3> QED BY <1>1, <1>2, <1>3, <3>1
  <2>2. d = [k \in 1 .. n + 1 |-> d[k]]
    OBVIOUS
  <2> HIDE DEF d
  <2> QED BY <2>1, <2>2
<1>7. d \in Seq(Option) /\ Len(d) = n + 1
  <2> HIDE DEF d
  <2>1. d \in Seq(Option)
    BY <1>6
  <2> QED BY <1>6, <2>1
<1> HIDE DEF b, d
<1> DEFINE a == Append(b, option)
<1>8. a \in Seq(Option) /\ Len(a) = n + 1 /\ a[n + 1] = option /\ \A k \in 1 .. n : a[k] = b[k]
  BY <1>5, AppendProperties
<1> HIDE DEF a
<1>9. \A k \in 1 .. n + 1 : d[k] = a[k]
  <2> TAKE k \in 1 .. n + 1
  <2>1. k = n + 1 \/ k \in 1 .. n
    OBVIOUS
  <2> QED BY <1>2, <1>3, <1>8, <2>1
<1>10. d = a
  BY <1>7, <1>8, <1>9, SeqEqual
<1> QED BY <1>5, <1>10 DEF b, d, a

-----------------------------------------------------------------------------
(* One more option keeps the lists.                                        *)

LEMMA HeadsDiffer ==
  ASSUME NEW i, NEW j, i # j
  PROVE  Cell("options", i) # Cell("options", j)
BY DEF Cell

LEMMA HeadIsNotBuffered ==
  ASSUME NEW i, NEW j
  PROVE  Cell("options", i) # Cell("buffer", j)
BY DEF Cell

LEMMA CellParts2 ==
  ASSUME NEW i
  PROVE  /\ Cell("options", i).array = "options" /\ Cell("options", i).at = i
         /\ Cell("buffer", i).array = "buffer" /\ Cell("buffer", i).at = i
BY DEF Cell

\* The cells that are new are those of the option.
LEMMA PlacesGrow ==
  ASSUME NEW C, NEW D, NEW n \in Nat, NEW m, NEW i \in Indexes(m), Places(C, n, m),
         DOMAIN C \in SUBSET CellId,
         DOMAIN D = DOMAIN C \cup {Cell("buffer", n), Cell("options", i)}
  PROVE  Places(D, n + 1, m)
<1>1. ASSUME NEW c \in DOMAIN D
      PROVE  /\ c.array = "buffer" => c.at < n + 1
             /\ c.array = "options" => c.at \in Indexes(m)
  <2>1. CASE c \in DOMAIN C
    <3>1. c.at \in Nat
      BY <2>1 DEF CellId
    <3>2. /\ c.array = "buffer" => c.at < n
          /\ c.array = "options" => c.at \in Indexes(m)
      BY <2>1 DEF Places
    <3> QED BY <3>1, <3>2
  <2>2. CASE c = Cell("buffer", n)
    BY <2>2, CellParts2
  <2>3. CASE c = Cell("options", i)
    BY <2>3, CellParts2
  <2> QED BY <2>1, <2>2, <2>3
<1>2. ASSUME NEW k \in 1 .. n + 1 PROVE Cell("buffer", k - 1) \in DOMAIN D
  <2>1. CASE k = n + 1
    <3>1. k - 1 = n
      BY <2>1
    <3> QED BY <3>1
  <2>2. CASE k # n + 1
    <3>1. k \in 1 .. n
      BY <2>2
    <3> QED BY <3>1 DEF Places
  <2> QED BY <2>1, <2>2
<1> QED BY <1>1, <1>2 DEF Places

\* The options of a list, before and after.
LEMMA ListOptionsKept ==
  ASSUME NEW C, NEW D, NEW s \in Seq(DOMAIN C),
         \A c \in DOMAIN C : D[c].option = C[c].option
  PROVE  [k \in DOMAIN s |-> D[s[k]].option] = [k \in DOMAIN s |-> C[s[k]].option]
<1>1. \A k \in DOMAIN s : s[k] \in DOMAIN C
  OBVIOUS
<1> QED BY <1>1

LEMMA ListOptionsGrow ==
  ASSUME NEW C, NEW D, NEW s \in Seq(DOMAIN C), NEW new, NEW option \in Option,
         \A c \in DOMAIN C : D[c].option = C[c].option /\ C[c].option \in Option,
         DOMAIN C \in SUBSET DOMAIN D, new \in DOMAIN D, D[new].option = option
  PROVE  [k \in DOMAIN Append(s, new) |-> D[Append(s, new)[k]].option]
           = Append([k \in DOMAIN s |-> C[s[k]].option], option)
<1> DEFINE n == Len(s)
           t == Append(s, new)
           b == [k \in DOMAIN s |-> C[s[k]].option]
           d == [k \in DOMAIN t |-> D[t[k]].option]
           a == Append(b, option)
<1>1. n \in Nat /\ DOMAIN s = 1 .. n /\ \A k \in 1 .. n : s[k] \in DOMAIN C
  OBVIOUS
<1>2. t \in Seq(DOMAIN D) /\ Len(t) = n + 1 /\ t[n + 1] = new /\ (\A k \in 1 .. n : t[k] = s[k])
      /\ DOMAIN t = 1 .. n + 1
  <2>1. s \in Seq(DOMAIN D)
    OBVIOUS
  <2> QED BY <2>1, AppendProperties
<1> HIDE DEF t
<1>3. b \in [1 .. n -> Option]
  BY <1>1
<1>4. b \in Seq(Option) /\ Len(b) = n
  <2> HIDE DEF b
  <2>1. b \in Seq(Option)
    BY <1>1, <1>3
  <2> QED BY <1>1, <1>3, <2>1
<1>5. \A k \in 1 .. n : d[k] = b[k]
  BY <1>1, <1>2
<1>6. d[n + 1] = option
  BY <1>1, <1>2
<1>7. d \in [1 .. n + 1 -> Option]
  <2>1. ASSUME NEW k \in 1 .. n + 1 PROVE d[k] \in Option
    <3>1. k = n + 1 \/ k \in 1 .. n
      BY <1>1
    <3> HIDE DEF d, b
    <3> QED BY <1>3, <1>5, <1>6, <3>1
  <2>2. d = [k \in 1 .. n + 1 |-> d[k]]
    BY <1>2
  <2> HIDE DEF d
  <2> QED BY <2>1, <2>2
<1>8. d \in Seq(Option) /\ Len(d) = n + 1
  <2> HIDE DEF d
  <2>1. d \in Seq(Option)
    BY <1>1, <1>7
  <2> QED BY <1>1, <1>7, <2>1
<1> HIDE DEF b, d, n
<1>9. a \in Seq(Option) /\ Len(a) = n + 1 /\ a[n + 1] = option /\ \A k \in 1 .. n : a[k] = b[k]
  BY <1>4, AppendProperties
<1> HIDE DEF a
<1>10. \A k \in 1 .. n + 1 : d[k] = a[k]
  <2> TAKE k \in 1 .. n + 1
  <2>1. k = n + 1 \/ k \in 1 .. n
    BY <1>1
  <2> QED BY <1>5, <1>6, <1>9, <2>1
<1>11. d = a
  BY <1>8, <1>9, <1>10, SeqEqual
<1> QED BY <1>11 DEF d, a, t, b, n

\* The list of an index after one more option.
LEMMA ListedAppends ==
  ASSUME NEW C, NEW D, NEW n \in Nat, NEW options \in Seq(Option), NEW option \in Option,
         NEW head, NEW last, NEW new, Cells(C),
         head = Cell("options", option.index), head \in DOMAIN C, last = C[head].prev.to,
         new \notin DOMAIN C, new \in CellId,
         Appends(C, D, head, last, new, option),
         NEW i \in Nat, new # Cell("options", i),
         Listed(C, n, options, option.index), Listed(C, n, options, i)
  PROVE  Listed(D, n + 1, Append(options, option), i)
<1> DEFINE j == option.index
           more == Append(options, option)
<1>1. PICK s \in Seq(DOMAIN C) :
        /\ Thread(C, j, s) /\ Len(s) <= n
        /\ [k \in DOMAIN s |-> C[s[k]].option] = Only(j, options)
  BY DEF Listed
<1>2. s # <<>> /\ s[1] = head /\ Len(s) \in Nat \ {0}
  BY <1>1 DEF Thread
<1>3. last = s[Len(s)]
  <2>1. C[head].prev = LinkTo(s[Len(s)], TRUE)
    BY <1>1, <1>2 DEF Thread
  <2> QED BY <2>1, LinkGoesTo
<1>4. DOMAIN D = DOMAIN C \cup {new} /\ DOMAIN C \in SUBSET DOMAIN D
  BY DEF Appends
<1>5. /\ \A c \in DOMAIN C : c \in DOMAIN D /\ D[c].option = C[c].option
      /\ new \in DOMAIN D /\ D[new].option = option
  BY StoredOptions
<1>6. \A c \in DOMAIN C : C[c].option \in Option
  BY DEF Cells, CellType
<1>7. Only(i, more) = IF j = i THEN Append(Only(i, options), option) ELSE Only(i, options)
  BY OnlyOfOneMore
<1>8. (Cell("options", i) \in DOMAIN D) <=> (Cell("options", i) \in DOMAIN C)
  BY <1>4
<1> HIDE DEF more
<1>9. CASE i = j
  <2> DEFINE t == Append(s, new)
  <2>1. Thread(D, j, t)
    BY <1>1, <1>2, <1>3, AppendsThread
  <2>2. [k \in DOMAIN t |-> D[t[k]].option] = Append([k \in DOMAIN s |-> C[s[k]].option], option)
    <3>1. \A c \in DOMAIN C : D[c].option = C[c].option /\ C[c].option \in Option
      BY <1>5, <1>6
    <3> QED BY <1>4, <1>5, <3>1, ListOptionsGrow
  <2>3. Len(t) = Len(s) + 1
    OBVIOUS
  <2>4. t \in Seq(DOMAIN D)
    BY <2>1 DEF Thread
  <2> HIDE DEF t
  <2>5. Len(t) <= n + 1
    BY <1>1, <1>2, <2>3
  <2>6. [k \in DOMAIN t |-> D[t[k]].option] = Only(i, more)
    BY <1>1, <1>7, <1>9, <2>2
  <2>7. Cell("options", i) \in DOMAIN D
    BY <1>4, <1>9
  <2>8. Thread(D, i, t)
    BY <1>9, <2>1
  <2> QED BY <2>4, <2>5, <2>6, <2>7, <2>8 DEF Listed, more
<1>10. CASE i # j
  <2>1. CASE Cell("options", i) \in DOMAIN C
    <3>1. PICK t \in Seq(DOMAIN C) :
            /\ Thread(C, i, t) /\ Len(t) <= n
            /\ [k \in DOMAIN t |-> C[t[k]].option] = Only(i, options)
      BY <2>1 DEF Listed
    <3>2. C[head].option.index = j /\ C[last].option.index = j /\ last \in DOMAIN C
      <4>1. 1 \in 1 .. Len(s) /\ Len(s) \in 1 .. Len(s)
        BY <1>2
      <4>2. s[Len(s)] \in DOMAIN C
        BY <4>1, ElementOfSeq
      <4> QED BY <1>1, <1>2, <1>3, <4>1, <4>2 DEF Thread
    <3>3. Thread(D, i, t)
      <4>1. C[head].option.index # i /\ C[last].option.index # i
        BY <1>10, <3>2
      <4>2. head \in DOMAIN C /\ last \in DOMAIN C /\ Thread(C, i, t)
        BY <3>1, <3>2
      <4>3. Appends(C, D, head, last, new, option)
        OBVIOUS
      <4> QED BY ONLY <4>1, <4>2, <4>3, AppendsOther
    <3>4. [k \in DOMAIN t |-> D[t[k]].option] = [k \in DOMAIN t |-> C[t[k]].option]
      BY <1>5, ListOptionsKept
    <3>5. t \in Seq(DOMAIN D) /\ Len(t) <= n + 1
      <4>1. t \in Seq(DOMAIN D)
        BY <3>3 DEF Thread
      <4>2. Len(t) \in Nat /\ Len(t) <= n
        BY <3>1
      <4> QED BY <4>1, <4>2
    <3>6. [k \in DOMAIN t |-> D[t[k]].option] = Only(i, more)
      BY <1>7, <1>10, <3>1, <3>4
    <3> QED BY <1>8, <2>1, <3>3, <3>5, <3>6 DEF Listed, more
  <2>2. CASE Cell("options", i) \notin DOMAIN C
    <3>1. Only(i, options) = <<>>
      BY <2>2 DEF Listed
    <3>2. Only(i, more) = <<>>
      BY <1>7, <1>10, <3>1
    <3> QED BY <1>8, <2>2, <3>2 DEF Listed, more
  <2> QED BY <2>1, <2>2
<1> QED BY <1>9, <1>10

HeadFor(head, option) == head = Cell("options", option.index)

LEMMA ListedBegins ==
  ASSUME NEW C, NEW D, NEW n \in Nat, NEW options \in Seq(Option), NEW option \in Option,
         NEW head, NEW new,
         HeadFor(head, option), Only(option.index, options) = <<>>,
         Begins(C, D, head, new, option),
         NEW i \in Nat, new # Cell("options", i),
         Listed(C, n, options, i)
  PROVE  Listed(D, n + 1, Append(options, option), i)
<1> DEFINE j == option.index
           more == Append(options, option)
<1>1. head = Cell("options", j)
  BY DEF HeadFor
<1>4. DOMAIN D = DOMAIN C \cup {new, head} /\ DOMAIN C \in SUBSET DOMAIN D
  BY DEF Begins
<1>5. \A c \in DOMAIN C : D[c].option = C[c].option
  BY DEF Begins
<1>7. Only(i, more) = IF j = i THEN Append(Only(i, options), option) ELSE Only(i, options)
  BY OnlyOfOneMore
<1> HIDE DEF more
<1>9. CASE i = j
  <2> DEFINE t == <<head>>
  <2>1. Thread(D, j, t)
    BY <1>1, BeginsThread
  <2>2. D[head].option = option
    BY DEF Begins, Unlinked
  <2>3. t \in Seq(DOMAIN D) /\ Len(t) = 1 /\ DOMAIN t = 1 .. 1 /\ t[1] = head
    BY <1>4
  <2>4. [k \in DOMAIN t |-> D[t[k]].option] = <<option>>
    BY <2>2, <2>3
  <2>5. Append(<<>>, option) = <<option>>
    OBVIOUS
  <2> HIDE DEF t
  <2>6. [k \in DOMAIN t |-> D[t[k]].option] = Only(i, more)
    BY <1>7, <1>9, <2>4, <2>5
  <2>7. Cell("options", i) \in DOMAIN D
    BY <1>1, <1>4, <1>9
  <2>8. Thread(D, i, t) /\ Len(t) <= n + 1
    BY <1>9, <2>1, <2>3
  <2> QED BY <2>3, <2>6, <2>7, <2>8 DEF Listed, more
<1>10. CASE i # j
  <2>0. Cell("options", i) # head
    BY <1>1, <1>10, HeadsDiffer
  <2>1. CASE Cell("options", i) \in DOMAIN C
    <3>1. PICK t \in Seq(DOMAIN C) :
            /\ Thread(C, i, t) /\ Len(t) <= n
            /\ [k \in DOMAIN t |-> C[t[k]].option] = Only(i, options)
      BY <2>1 DEF Listed
    <3>3. Thread(D, i, t)
      BY <3>1, BeginsOther
    <3>4. [k \in DOMAIN t |-> D[t[k]].option] = [k \in DOMAIN t |-> C[t[k]].option]
      BY <1>5, ListOptionsKept
    <3>5. t \in Seq(DOMAIN D) /\ Len(t) <= n + 1
      <4>1. t \in Seq(DOMAIN D)
        BY <3>3 DEF Thread
      <4>2. Len(t) \in Nat /\ Len(t) <= n
        BY <3>1
      <4> QED BY <4>1, <4>2
    <3>6. [k \in DOMAIN t |-> D[t[k]].option] = Only(i, more)
      BY <1>7, <1>10, <3>1, <3>4
    <3> QED BY <1>4, <2>1, <3>3, <3>5, <3>6 DEF Listed, more
  <2>2. CASE Cell("options", i) \notin DOMAIN C
    <3>1. Only(i, options) = <<>>
      BY <2>2 DEF Listed
    <3>2. Only(i, more) = <<>>
      BY <1>7, <1>10, <3>1
    <3>3. Cell("options", i) \notin DOMAIN D
      BY <1>4, <2>0, <2>2
    <3> QED BY <3>2, <3>3 DEF Listed, more
  <2> QED BY <2>1, <2>2
<1> QED BY <1>9, <1>10

LEMMA NewIsNew ==
  ASSUME ListsInv
  PROVE  /\ Cell("buffer", op_count) \notin DOMAIN cells
         /\ Cell("buffer", op_count) \in CellId
<1>1. op_count \in Nat /\ Places(cells, op_count, mode)
  BY DEF ListsInv
<1>2. ASSUME Cell("buffer", op_count) \in DOMAIN cells PROVE FALSE
  <2>1. Cell("buffer", op_count).at < op_count
    BY <1>1, <1>2, CellParts2 DEF Places
  <2>2. Cell("buffer", op_count).at = op_count
    BY CellParts2
  <2> QED BY <1>1, <2>1, <2>2
<1> QED BY <1>1, <1>2, CellIdType

\* The two ways to store an option.
LEMMA StoreCases ==
  ASSUME ListsInv, NEW option \in Option,
         NEW head, head = Cell("options", option.index),
         NEW last, last = cells[head].prev.to, NEW new, new = Cell("buffer", op_count)
  PROVE  \/ head \in DOMAIN cells /\ Appends(cells, Stored(option), head, last, new, option)
         \/ head \notin DOMAIN cells /\ Begins(cells, Stored(option), head, new, option)
<1>1. Cells(cells) /\ op_count \in Nat /\ new \notin DOMAIN cells
  BY NewIsNew DEF ListsInv
<1>2. CASE head \in DOMAIN cells
  BY <1>1, <1>2, StoredAppends
<1>3. CASE head \notin DOMAIN cells
  BY <1>1, <1>3, StoredBegins
<1> QED BY <1>2, <1>3

LEMMA BufferedType ==
  ASSUME ListsInv
  PROVE  Buffered \in Seq(Option)
<1>1. /\ op_count \in Nat /\ \A k \in 1 .. op_count : Cell("buffer", k - 1) \in DOMAIN cells
      /\ \A c \in DOMAIN cells : cells[c].option \in Option
  BY DEF ListsInv, Places, Cells, CellType
<1> DEFINE b == [k \in 1 .. op_count |-> cells[Cell("buffer", k - 1)].option]
<1>2. b \in [1 .. op_count -> Option]
  BY <1>1
<1>3. b \in Seq(Option)
  <2> HIDE DEF b
  <2> QED BY <1>1, <1>2
<1> QED BY <1>3 DEF Buffered

LEMMA StoreBuffers ==
  ASSUME ListsInv, NEW option \in Option, cells' = Stored(option), op_count' = op_count + 1
  PROVE  Buffered' = Append(Buffered, option)
<1> DEFINE head == Cell("options", option.index)
           last == cells[head].prev.to
           new == Cell("buffer", op_count)
           D == Stored(option)
<1>1. \/ Appends(cells, D, head, last, new, option)
      \/ Begins(cells, D, head, new, option)
  BY StoreCases
<1>2. /\ \A c \in DOMAIN cells : c \in DOMAIN D /\ D[c].option = cells[c].option
      /\ new \in DOMAIN D /\ D[new].option = option
  <2> HIDE DEF head, last, new, D
  <2>1. \A c \in DOMAIN cells : c \in DOMAIN D /\ D[c].option = cells[c].option
    BY <1>1, StoredOptions, ZenonT(60)
  <2>2. new \in DOMAIN D /\ D[new].option = option
    BY <1>1, StoredOptions
  <2> QED BY <2>1, <2>2
<1>3. /\ op_count \in Nat /\ \A k \in 1 .. op_count : Cell("buffer", k - 1) \in DOMAIN cells
      /\ \A c \in DOMAIN cells : cells[c].option \in Option
  BY DEF ListsInv, Places, Cells, CellType
<1> HIDE DEF D
<1>4. [k \in 1 .. op_count + 1 |-> D[Cell("buffer", k - 1)].option]
        = Append([k \in 1 .. op_count |-> cells[Cell("buffer", k - 1)].option], option)
  BY <1>2, <1>3, BufferedGrows
<1> QED BY <1>4 DEF Buffered, D

LEMMA StoreLists ==
  ASSUME ListsInv, NEW option \in Option, option.index \in Indexes(mode),
         mode' = mode, cells' = Stored(option), op_count' = op_count + 1
  PROVE  ListsInv'
<1> DEFINE head == Cell("options", option.index)
           last == cells[head].prev.to
           new == Cell("buffer", op_count)
           C == cells
           D == Stored(option)
           n == op_count
           b == Buffered
<1>1. \/ head \in DOMAIN C /\ Appends(C, D, head, last, new, option)
      \/ head \notin DOMAIN C /\ Begins(C, D, head, new, option)
  BY StoreCases
<1>2. /\ n \in Nat /\ Cells(C) /\ Places(C, n, mode)
      /\ \A c \in DOMAIN C : Returns(C, c)
      /\ \A i \in Nat : Listed(C, n, b, i)
  BY DEF ListsInv
<1>3. new \notin DOMAIN C /\ new \in CellId /\ b \in Seq(Option)
  BY NewIsNew, BufferedType
<1>4. option.index \in Nat /\ head \in CellId
  <2>1. option.index \in Nat
    BY DEF Option
  <2> QED BY <2>1, CellIdType
<1>5. \A i \in Nat : new # Cell("options", i)
  BY HeadIsNotBuffered
<1>6. DOMAIN C \in SUBSET CellId
  BY <1>2 DEF Cells
<1>7. head = Cell("options", option.index) /\ last = C[head].prev.to /\ new = Cell("buffer", n)
  OBVIOUS
<1> HIDE DEF head, last, new, C, D, n, b
<1>8. Cells(D) /\ (\A c \in DOMAIN D : Returns(D, c))
      /\ DOMAIN D = DOMAIN C \cup {new, head}
  <2>1. CASE head \in DOMAIN C /\ Appends(C, D, head, last, new, option)
    <3>1. last \in DOMAIN C
      BY <1>2, <1>7, <2>1 DEF Cells
    <3>2. Cells(D)
      BY <1>2, <1>3, <2>1, <3>1, AppendsCells
    <3>3. C[head].prev.tag = TRUE
      <4>1. Listed(C, n, b, option.index)
        BY <1>2, <1>4
      <4>2. PICK s \in Seq(DOMAIN C) : Thread(C, option.index, s)
        BY <1>7, <2>1, <4>1 DEF Listed
      <4>3. C[head].prev = LinkTo(s[Len(s)], TRUE)
        BY <1>7, <4>2 DEF Thread
      <4> QED BY <4>3, LinkHasTag
    <3>4. \A c \in DOMAIN D : Returns(D, c)
      BY <1>2, <1>3, <2>1, <3>1, <3>3, AppendsReturns
    <3>5. DOMAIN D = DOMAIN C \cup {new, head}
      BY <2>1 DEF Appends
    <3> QED BY <3>2, <3>4, <3>5
  <2>2. CASE head \notin DOMAIN C /\ Begins(C, D, head, new, option)
    <3>2. Cells(D)
      BY <1>2, <1>3, <1>4, <2>2, BeginsCells
    <3>4. \A c \in DOMAIN D : Returns(D, c)
      BY <1>2, <2>2, BeginsReturns
    <3>5. DOMAIN D = DOMAIN C \cup {new, head}
      BY <2>2 DEF Begins
    <3> QED BY <3>2, <3>4, <3>5
  <2> QED BY <1>1, <2>1, <2>2
<1>9. Places(D, n + 1, mode)
  <2>1. DOMAIN D = DOMAIN C \cup {Cell("buffer", n), Cell("options", option.index)}
    BY <1>7, <1>8
  <2> QED BY <1>2, <1>6, <2>1, PlacesGrow
<1>10. ASSUME NEW i \in Nat PROVE Listed(D, n + 1, Append(b, option), i)
  <2>1. Listed(C, n, b, option.index) /\ Listed(C, n, b, i) /\ new # Cell("options", i)
    BY <1>2, <1>4, <1>5
  <2>2. CASE head \in DOMAIN C /\ Appends(C, D, head, last, new, option)
    BY <1>2, <1>3, <1>7, <2>1, <2>2, ListedAppends
  <2>3. CASE head \notin DOMAIN C /\ Begins(C, D, head, new, option)
    <3>1. /\ HeadFor(head, option) /\ n \in Nat /\ b \in Seq(Option)
          /\ Begins(C, D, head, new, option)
      BY <1>2, <1>3, <1>7, <2>3 DEF HeadFor
    <3>2. Only(option.index, b) = <<>>
      BY <1>7, <2>1, <2>3 DEF Listed
    <3> QED BY <2>1, <3>1, <3>2, ListedBegins
  <2> QED BY <1>1, <2>2, <2>3
<1>11. cells' = D /\ op_count' = n + 1 /\ Buffered' = Append(b, option) /\ mode' = mode
  BY StoreBuffers DEF D, n, b
<1>12. op_count' \in Nat
  BY <1>2, <1>11
<1> QED BY <1>8, <1>9, <1>10, <1>11, <1>12 DEF ListsInv

-----------------------------------------------------------------------------
(* What next() runs through.                                               *)

\* The first n + 1 cells of a list, or all of it.
UpTo(s, n) == SubSeq(s, 1, IF n + 1 <= Len(s) THEN n + 1 ELSE Len(s))

LEMMA UpToOne ==
  ASSUME NEW S, NEW s \in Seq(S), s # <<>>
  PROVE  UpTo(s, 0) = <<s[1]>>
<1>1. Len(s) \in Nat \ {0} /\ (IF 0 + 1 <= Len(s) THEN 0 + 1 ELSE Len(s)) = 1
  OBVIOUS
<1> DEFINE t == SubSeq(s, 1, 1)
<1>2. t \in Seq(S) /\ Len(t) = 1 /\ t[1] = s[1]
  BY <1>1
<1>3. <<s[1]>> \in Seq(S) /\ Len(<<s[1]>>) = 1
  BY <1>1
<1> HIDE DEF t
<1>4. t = <<s[1]>>
  BY <1>2, <1>3, SeqEqual
<1> QED BY <1>1, <1>4 DEF UpTo, t

\* One more step along a list.
LEMMA UpToStep ==
  ASSUME NEW C, NEW i, NEW s, Thread(C, i, s), NEW n \in Nat
  PROVE  LET t == UpTo(s, n)
             link == C[t[Len(t)]].next
         IN UpTo(s, n + 1) = IF link.tag THEN t ELSE Append(t, link.to)
<1> DEFINE N == Len(s)
           S == DOMAIN C
           t == UpTo(s, n)
           link == C[t[Len(t)]].next
<1>1. s \in Seq(S) /\ N \in Nat \ {0} /\ \A k \in 1 .. N : s[k] \in S
  BY DEF Thread
<1>2. CASE n + 1 < N
  <2>1. t = SubSeq(s, 1, n + 1) /\ UpTo(s, n + 1) = SubSeq(s, 1, n + 2)
    BY <1>1, <1>2 DEF UpTo
  <2>2. t \in Seq(S) /\ Len(t) = n + 1 /\ t[n + 1] = s[n + 1]
    BY <1>1, <1>2, <2>1
  <2>3. n + 1 \in 1 .. N - 1 /\ (n + 1) + 1 = n + 2 /\ n + 2 \in 1 .. N
    BY <1>1, <1>2
  <2>4. C[s[n + 1]].next = LinkTo(s[(n + 1) + 1], FALSE)
    BY <2>3 DEF Thread
  <2> DEFINE next == s[n + 2]
  <2>5. link = LinkTo(next, FALSE)
    BY <2>2, <2>3, <2>4
  <2>6. next \in S
    BY <1>1, <2>3
  <2>7. UpTo(s, n + 1) = Append(t, next)
    <3> DEFINE u == SubSeq(s, 1, n + 2)
               w == Append(t, next)
    <3>1. u \in Seq(S) /\ Len(u) = n + 2 /\ \A k \in 1 .. n + 2 : u[k] = s[k]
      BY <1>1, <2>3
    <3>2. \A k \in 1 .. n + 1 : t[k] = s[k]
      BY <1>1, <2>1, <2>3
    <3> HIDE DEF t, next
    <3>3. w \in Seq(S) /\ Len(w) = n + 2 /\ w[n + 2] = next /\ \A k \in 1 .. n + 1 : w[k] = t[k]
      BY <2>2, <2>6, AppendProperties
    <3>4. \A k \in 1 .. n + 2 : u[k] = w[k]
      <4> TAKE k \in 1 .. n + 2
      <4>1. k = n + 2 \/ k \in 1 .. n + 1
        OBVIOUS
      <4> HIDE DEF u, w
      <4> QED BY <3>1, <3>2, <3>3, <4>1 DEF next
    <3> HIDE DEF u, w
    <3>5. u = w
      BY <3>1, <3>3, <3>4, SeqEqual
    <3> QED BY <2>1, <3>5 DEF u, w
  <2> HIDE DEF next, t, link
  <2>8. link.tag = FALSE
    BY <2>5, LinkHasTag
  <2>9. link.to = next
    BY <2>5, LinkGoesTo
  <2>10. UpTo(s, n + 1) = IF link.tag THEN t ELSE Append(t, link.to)
    BY <2>7, <2>8, <2>9
  <2> QED BY <2>10 DEF link, t
<1>3. CASE ~(n + 1 < N)
  <2>1. UpTo(s, n + 1) = SubSeq(s, 1, N)
    BY <1>1, <1>3 DEF UpTo
  <2>2. t = SubSeq(s, 1, N)
    <3>1. (IF n + 1 <= N THEN n + 1 ELSE N) = N
      BY <1>1, <1>3
    <3> QED BY <3>1 DEF UpTo
  <2>3. SubSeq(s, 1, N) = s
    BY <1>1, SubSeqFull
  <2>4. link.tag = TRUE
    BY <2>2, <2>3 DEF Thread
  <2> HIDE DEF link, t
  <2>5. UpTo(s, n + 1) = IF link.tag THEN t ELSE Append(t, link.to)
    BY <2>1, <2>2, <2>4
  <2> QED BY <2>5 DEF link, t
<1> QED BY <1>2, <1>3

\* next() runs through all of a list that is not longer than the buffer.
LEMMA ChainIsThread ==
  ASSUME op_count \in Nat, Cells(cells), NEW i, NEW s, Thread(cells, i, s), Len(s) <= op_count
  PROVE  Chain(Cell("options", i)) = s
<1> DEFINE cell == Cell("options", i)
           n == op_count
           X == Seq(DOMAIN cells) \ {<<>>}
           go(t) == LET link == cells[t[Len(t)]].next
                    IN IF link.tag THEN t ELSE Append(t, link.to)
           Step(h, k) == IF k = 0 THEN <<cell>> ELSE go(h[k - 1])
           Is(h) == h = [k \in 0 .. n |-> Step(h, k)]
           h == [k \in 0 .. n |-> UpTo(s, k)]
<1>1. s \in Seq(DOMAIN cells) /\ s # <<>> /\ s[1] = cell
  BY DEF Thread
<1>2. Chain(cell) = (CHOOSE f : Is(f))[n]
  BY DEF Chain
<1> HIDE DEF go
<1>3. \A k \in 0 .. n : h[k] = Step(h, k)
  <2> TAKE k \in 0 .. n
  <2>1. CASE k = 0
    <3>1. UpTo(s, 0) = <<cell>>
      BY <1>1, UpToOne
    <3> QED BY <2>1, <3>1
  <2>2. CASE k # 0
    <3>1. k - 1 \in Nat /\ k - 1 \in 0 .. n /\ (k - 1) + 1 = k
      BY <2>2
    <3>2. UpTo(s, (k - 1) + 1) = go(UpTo(s, k - 1))
      BY <3>1, UpToStep DEF go
    <3> QED BY <2>2, <3>1, <3>2
  <2> QED BY <2>1, <2>2
<1>4. Is(h)
  BY <1>3
<1> DEFINE U == CHOOSE f : Is(f)
<1>5. Is(U)
  <2> HIDE DEF Is, h
  <2> QED BY <1>4
<1> HIDE DEF h, U
<1>6. \A k \in 0 .. n : U[k] = UpTo(s, k)
  <2> DEFINE T == {k \in 0 .. n : U[k] = UpTo(s, k)}
  <2>1. 0 \in T
    <3>1. U[0] = <<cell>>
      BY <1>5
    <3>2. UpTo(s, 0) = <<cell>>
      BY <1>1, UpToOne
    <3> QED BY <3>1, <3>2
  <2>2. ASSUME NEW k \in 0 .. n - 1, k \in T PROVE k + 1 \in T
    <3>1. k + 1 \in 0 .. n /\ k + 1 # 0 /\ (k + 1) - 1 = k /\ k \in Nat /\ U[k] = UpTo(s, k)
      BY <2>2
    <3>2. U[k + 1] = go(U[k])
      BY <1>5, <3>1
    <3>3. UpTo(s, k + 1) = go(UpTo(s, k))
      BY <3>1, UpToStep DEF go
    <3> QED BY <3>1, <3>2, <3>3
  <2>3. 0 \in Int /\ n \in Int
    OBVIOUS
  <2> HIDE DEF T, n
  <2>4. \A k \in 0 .. n : k \in T
    BY <2>1, <2>2, <2>3, Upwards, SMTT(60)
  <2> QED BY <2>4 DEF T
<1>7. U[n] = UpTo(s, n)
  BY <1>6
<1>8. UpTo(s, n) = s
  <2>1. Len(s) \in Nat /\ (IF n + 1 <= Len(s) THEN n + 1 ELSE Len(s)) = Len(s)
    BY <1>1
  <2>2. SubSeq(s, 1, Len(s)) = s
    BY <1>1, SubSeqFull
  <2> QED BY <2>1, <2>2 DEF UpTo
<1> QED BY <1>2, <1>7, <1>8 DEF U

\* The options of an index, by next(), are those of the buffer.
LEMMA OptionsOfIndex ==
  ASSUME ListsInv, NEW i \in Nat
  PROVE  OptionsOf(i) = Only(i, Buffered)
<1>1. Listed(cells, op_count, Buffered, i) /\ op_count \in Nat /\ Cells(cells)
  BY DEF ListsInv
<1>2. CASE Cell("options", i) \in DOMAIN cells
  <2>1. PICK s \in Seq(DOMAIN cells) :
          /\ Thread(cells, i, s) /\ Len(s) <= op_count
          /\ [k \in DOMAIN s |-> cells[s[k]].option] = Only(i, Buffered)
    BY <1>1, <1>2 DEF Listed
  <2>2. Chain(Cell("options", i)) = s
    BY <1>1, <2>1, ChainIsThread
  <2> QED BY <1>2, <2>1, <2>2 DEF OptionsOf
<1>3. CASE Cell("options", i) \notin DOMAIN cells
  BY <1>1, <1>3 DEF Listed, OptionsOf
<1> QED BY <1>2, <1>3

-----------------------------------------------------------------------------
(* The invariant of the parser.                                            *)

\* A parser that does not report an error has stored all that is written.
AllStored == pass = "done" /\ ~err => Len(AllOptions) <= IntMax

IInv == ParserInv /\ ListsInv /\ AllStored

\* What is counted or stored is an option, of an index of the usage table.
LEMMA ThisOptionType ==
  ASSUME ParserInv, group # NoGroup, Performs
  PROVE  ThisOption \in Option /\ ThisOption.index \in Indexes(mode)
<1>1. pass # "done"
  BY DEF ParserInv
<1>2. PICK opts \in Seq(Option), done \in Seq(Option) : Progress(opts, done)
  BY <1>1, ParserUnderway
<1>3. /\ vector \in Seq(Text) /\ vectors \in Seq(Seq(Text)) /\ mode \in Mode
      /\ args \in Nat \ {0} /\ nonops \in Nat /\ vector = vectors[feed]
      /\ ParserTypeOK /\ InVector
  BY <1>1, ParserUnderway
<1>4. TakenApart(mode, vector, args, group, done)
  BY <1>2 DEF Progress, Scanned
<1>5. ThisOption \in Option
  <2>1. CASE checked = "ARG_OK"
    BY <1>3, <1>4, <2>1, MeansOk
  <2>2. CASE checked \in {"ARG_NONE", "ARG_IGNORE"}
    BY <1>3, <1>4, <2>2, MeansFlag
  <2> QED BY <2>1, <2>2 DEF Performs
<1>6. descriptor \in DOMAIN mode.usage
  <2> DEFINE found == IF IsLong THEN longFound ELSE ShortMatch(mode, text[char])
  <2>1. Len(mode.usage) \in Nat /\ DOMAIN mode.usage = 1 .. Len(mode.usage)
    BY <1>3 DEF Mode
  <2>2. longFound \in 0 .. Len(mode.usage)
    BY <1>3, <2>1, LongMatchType DEF longFound
  <2>3. ShortMatch(mode, text[char]) \in 0 .. Len(mode.usage)
    BY <1>3, ShortMatchType
  <2>4. found \in 0 .. Len(mode.usage)
    BY <2>2, <2>3
  <2>5. descriptor = Described(mode, found)
    BY DEF descriptor
  <2> HIDE DEF found
  <2>6. descriptor \in 0 .. Len(mode.usage)
    BY <1>3, <2>4, <2>5, DescribedType
  <2>7. descriptor # 0
    BY DEF Performs, checked
  <2> QED BY <2>1, <2>6, <2>7
<1>7. ThisOption.index = mode.usage[descriptor].index
  BY DEF ThisOption
<1> QED BY <1>5, <1>6, <1>7 DEF Indexes

LEMMA ListsInitInv ==
  ASSUME NEW m \in Mode, NEW lines, ParserInit(m, lines)
  PROVE  ListsInv
<1>1. cells = <<>> /\ op_count = 0
  BY DEF ParserInit
<1>2. DOMAIN cells = {}
  BY <1>1
<1>3. Cells(cells) /\ Places(cells, op_count, mode)
  BY <1>1, <1>2 DEF Cells, Places
<1>4. Buffered = <<>>
  <2>1. Buffered = [k \in {} |-> cells[Cell("buffer", k - 1)].option]
    BY <1>1 DEF Buffered
  <2> QED BY <2>1
<1>5. \A i \in Nat : Listed(cells, op_count, Buffered, i)
  BY <1>2, <1>4, OnlyOfNothing DEF Listed
<1> QED BY <1>1, <1>2, <1>3, <1>5 DEF ListsInv

LEMMA ListsKept ==
  ASSUME ListsInv, UNCHANGED <<mode, cells, op_count>>
  PROVE  ListsInv'
<1>1. Buffered' = Buffered
  BY DEF Buffered
<1> QED BY <1>1 DEF ListsInv

LEMMA SkipInv ==
  ASSUME ParserInv, Skip
  PROVE  ParserInv'
<1>1. /\ group # NoGroup /\ checked \in {"group_end", "undescribed"} /\ GoOn
      /\ UNCHANGED <<mode, written, pass, feed, nonops, buffer_max, cells, op_count,
                     nonOptions, err>>
  BY DEF Skip, output
<1>2. pass # "done" /\ checked # "ARG_ILLEGAL" /\ ~Performs
  BY <1>1 DEF ParserInv, Performs
<1>3. Buffered' = Buffered
  BY <1>1 DEF Buffered
<1>4. op_count' \in 0 .. IntMax
  BY <1>1 DEF ParserInv, ParserTypeOK
<1> QED BY <1>1, <1>2, <1>3, <1>4, GoOnInv

LEMMA CountInv ==
  ASSUME ParserInv, Count
  PROVE  ParserInv'
<1>1. /\ group # NoGroup /\ Performs /\ pass = "count" /\ GoOn
      /\ buffer_max # IntMax /\ buffer_max' = buffer_max + 1
      /\ UNCHANGED <<mode, written, pass, feed, nonops, cells, op_count, nonOptions, err>>
  BY DEF Count, output
<1>2. pass # "done" /\ checked # "ARG_ILLEGAL"
  BY <1>1 DEF Performs
<1> QED BY <1>1, <1>2, GoOnInv

LEMMA StoreInv ==
  ASSUME ParserInv, ListsInv, Store
  PROVE  ParserInv' /\ ListsInv'
<1>1. /\ group # NoGroup /\ Performs /\ pass = "store" /\ GoOn
      /\ op_count # IntMax /\ op_count' = op_count + 1 /\ cells' = Stored(ThisOption)
      /\ UNCHANGED <<mode, written, pass, feed, nonops, buffer_max, nonOptions, err>>
  BY DEF Store
<1>2. pass # "done" /\ checked # "ARG_ILLEGAL"
  BY <1>1 DEF Performs
<1>3. ThisOption \in Option /\ ThisOption.index \in Indexes(mode)
  BY <1>1, ThisOptionType
<1>4. op_count' \in 0 .. IntMax
  <2>1. op_count \in 0 .. IntMax /\ IntMax \in Nat
    BY OptionAssumption DEF ParserInv, ParserTypeOK
  <2> QED BY <1>1, <2>1
<1>5. Buffered' = Buffered \o <<ThisOption>>
  <2> DEFINE b == Buffered
             o == ThisOption
  <2>1. Buffered' = Append(b, o)
    BY <1>1, <1>3, StoreBuffers
  <2>2. b \in Seq(Option) /\ o \in Option
    BY <1>3, BufferedType
  <2> HIDE DEF b, o
  <2>3. Append(b, o) = b \o <<o>>
    BY <2>2, AppendIsConcat
  <2> QED BY <2>1, <2>3 DEF b, o
<1>6. ListsInv'
  BY <1>1, <1>3, StoreLists
<1>7. ParserInv'
  BY <1>1, <1>2, <1>4, <1>5, GoOnInv
<1> QED BY <1>6, <1>7

LEMMA FinishStoresAll ==
  ASSUME ParserInv, ListsInv, Finish
  PROVE  AllStored'
<1> SUFFICES ASSUME pass' = "done" PROVE Len(AllOptions') <= IntMax
  BY DEF AllStored
<1>1. /\ pass # "done" /\ group = NoGroup /\ Return(TRUE) /\ UNCHANGED <<mode, written>>
  BY DEF Finish
<1>2. /\ ParserTypeOK /\ vectors \in Seq(Seq(Text)) /\ feed \in 1 .. Len(written)
      /\ Len(vectors) = Len(written) /\ pass \in {"count", "store"}
  BY <1>1, ParserUnderway
<1>3. pass = "store" /\ feed = Len(written)
  BY <1>1, <1>2, ReturnCases
<1>4. PICK opts \in Seq(Option), done \in Seq(Option) : Progress(opts, done)
  BY <1>1, ParserUnderway
<1>5. Reading(mode, vector).options = opts
  <2>1. PICK first \in 1 .. Len(vector) + 1 :
           Reading(mode, vector)
             = [options |-> opts, others |-> Rest(vectors'[feed], first), ok |-> TRUE]
    BY <1>4, FinishReads
  <2> QED BY <2>1
<1>6. Buffered = AllOptions
  <2>1. done = <<>>
    BY <1>1, <1>4 DEF Progress, Scanned
  <2>2. opts \o done = opts
    BY <2>1
  <2>3. Buffered = Before \o opts
    BY <1>3, <1>4, <2>2 DEF Progress
  <2>4. OptionsUpTo(mode, written)[feed] = Before \o opts
    BY <1>1, <1>5, FoundAll
  <2> QED BY <1>3, <2>3, <2>4 DEF AllOptions
<1>7. Len(Buffered) = op_count /\ op_count <= IntMax
  <2> DEFINE F == [k \in 1 .. op_count |-> cells[Cell("buffer", k - 1)].option]
  <2>1. op_count \in 0 .. IntMax /\ IntMax \in Nat
    BY <1>2, OptionAssumption DEF ParserTypeOK
  <2>2. Buffered \in Seq(Option) /\ Buffered = [k \in 1 .. op_count |-> F[k]]
    BY BufferedType DEF Buffered
  <2> HIDE DEF F
  <2>3. Len(Buffered) = op_count
    BY <2>1, <2>2, BufferedLength
  <2> QED BY <2>1, <2>3
<1>8. AllOptions' = AllOptions
  BY <1>1 DEF AllOptions
<1> QED BY <1>6, <1>7, <1>8

LEMMA StoredAllInv ==
  ASSUME ParserInv, ListsInv, workhorse
  PROVE  AllStored'
<1>1. CASE Finish
  BY <1>1, FinishStoresAll
<1>2. CASE Refuse
  <2>1. pass # "done" /\ Return(FALSE) /\ err' = (pass = "store")
    BY <1>2 DEF ParserInv, Refuse
  <2>2. /\ vectors \in Seq(Seq(Text)) /\ feed \in 1 .. Len(vectors)
        /\ pass \in {"count", "store"}
    BY <2>1, ParserUnderway
  <2>3. pass' = "done" => pass = "store"
    BY <2>1, <2>2, ReturnCases
  <2> QED BY <2>1, <2>3 DEF AllStored
<1>3. CASE PassOver \/ TakeApart \/ Skip \/ Count \/ Store
  <2>1. pass # "done" /\ pass' = pass
    BY <1>3 DEF ParserInv, PassOver, TakeApart, Skip, Count, Store
  <2> QED BY <2>1 DEF AllStored
<1> QED BY <1>1, <1>2, <1>3 DEF workhorse

LEMMA ParserStutters ==
  ASSUME IInv, UNCHANGED parserVars
  PROVE  IInv'
<1> USE DEF parserVars, scan, output
<1>1. ListsInv'
  BY ListsKept DEF IInv
<1>2. /\ vector' = vector /\ Before' = Before /\ Buffered' = Buffered
      /\ AllOptions' = AllOptions /\ Others' = Others /\ AsWritten' = AsWritten
      /\ InVector' = InVector
  BY DEF vector, Before, Buffered, AllOptions, Others, AsWritten, InVector
<1>3. ParserTypeOK' /\ SameReadings'
  BY <1>2 DEF IInv, ParserInv, ParserTypeOK, SameReadings
<1>4. Underway' = Underway
  BY <1>2 DEF Underway, Progress
<1>5. (pass # "done" => Underway)' /\ (pass = "count" => NothingStored)'
  BY <1>4 DEF IInv, ParserInv, NothingStored
<1>6. (pass # "count" => AllCounted)' /\ (pass = "store" => LegalBefore)'
  BY <1>2 DEF IInv, ParserInv, AllCounted, LegalBefore
<1>7. ParsedAsWritten'
  BY <1>2 DEF IInv, ParserInv, ParsedAsWritten
<1>8. (pass = "done" => group = NoGroup)'
  BY DEF IInv, ParserInv
<1>9. AllStored'
  BY <1>2 DEF IInv, AllStored
<1> QED BY <1>1, <1>3, <1>5, <1>6, <1>7, <1>8, <1>9 DEF IInv, ParserInv

\* A step of the parser keeps its invariant.
LEMMA WorkhorseInv ==
  ASSUME IInv, workhorse
  PROVE  IInv'
<1> ParserInv /\ ListsInv
  BY DEF IInv
<1>0. AllStored'
  BY StoredAllInv
<1>1. CASE PassOver
  <2>1. ParserInv'
    BY <1>1, PassOverInv
  <2>2. ListsInv'
    BY <1>1, ListsKept DEF PassOver, output
  <2> QED BY <1>0, <2>1, <2>2 DEF IInv
<1>2. CASE Finish
  <2>1. ParserInv'
    BY <1>2, FinishInv DEF Finish
  <2>2. ListsInv'
    BY <1>2, ListsKept DEF Finish
  <2> QED BY <1>0, <2>1, <2>2 DEF IInv
<1>3. CASE TakeApart
  <2>1. ParserInv'
    BY <1>3, TakeApartInv
  <2>2. ListsInv'
    BY <1>3, ListsKept DEF TakeApart, output
  <2> QED BY <1>0, <2>1, <2>2 DEF IInv
<1>4. CASE Skip
  <2>1. ParserInv'
    BY <1>4, SkipInv
  <2>2. ListsInv'
    BY <1>4, ListsKept DEF Skip, output
  <2> QED BY <1>0, <2>1, <2>2 DEF IInv
<1>5. CASE Count
  <2>1. ParserInv'
    BY <1>5, CountInv
  <2>2. ListsInv'
    BY <1>5, ListsKept DEF Count, output
  <2> QED BY <1>0, <2>1, <2>2 DEF IInv
<1>6. CASE Store
  BY <1>0, <1>6, StoreInv DEF IInv
<1>7. CASE Refuse
  <2>1. pass # "done"
    BY <1>7 DEF ParserInv, Refuse
  <2>2. ParserInv'
    BY <1>7, <2>1, RefuseInv
  <2>3. ListsInv'
    BY <1>7, ListsKept DEF Refuse
  <2> QED BY <1>0, <2>2, <2>3 DEF IInv
<1> QED BY <1>1, <1>2, <1>3, <1>4, <1>5, <1>6, <1>7 DEF workhorse

-----------------------------------------------------------------------------
(* What it says.                                                           *)

LEMMA MaxOfIndexes ==
  ASSUME NEW m \in Mode, NEW i \in Indexes(m)
  PROVE  \E k \in Indexes(m) : \A j \in Indexes(m) : j <= k
<1>1. DOMAIN m.usage = 1 .. Len(m.usage) /\ Len(m.usage) \in Nat
      /\ \A d \in DOMAIN m.usage : m.usage[d].index \in Nat
  <2>1. m.usage \in Seq(Descriptor)
    BY DEF Mode
  <2>2. \A d \in DOMAIN m.usage : m.usage[d] \in Descriptor
    BY <2>1
  <2> QED BY <2>1, <2>2 DEF Descriptor
<1> DEFINE u == m.usage
           n == Len(u)
           T == {k \in 0 .. n : k = 0 \/ \E e \in 1 .. k : \A d \in 1 .. k : u[d].index <= u[e].index}
<1> HIDE DEF n
<1>2. 0 \in T
  BY <1>1 DEF n
<1>3. ASSUME NEW k \in 0 .. n - 1, k \in T PROVE k + 1 \in T
  <2>0. n \in Nat /\ k + 1 \in 0 .. n /\ k \in Nat /\ k + 1 \in 1 .. k + 1
        /\ \A d \in 1 .. n : u[d].index \in Nat
    BY <1>1 DEF n
  <2> HIDE DEF u
  <2>1. CASE k = 0
    <3>1. \A d \in 1 .. k + 1 : u[d].index <= u[k + 1].index
      BY <2>0, <2>1
    <3> QED BY <2>0, <3>1
  <2>2. CASE k # 0
    <3>1. PICK e \in 1 .. k : \A d \in 1 .. k : u[d].index <= u[e].index
      BY <1>3, <2>2
    <3>2. CASE u[k + 1].index <= u[e].index
      <4>1. \A d \in 1 .. k + 1 : u[d].index <= u[e].index
        BY <2>0, <3>1, <3>2
      <4> QED BY <2>0, <4>1
    <3>3. CASE ~(u[k + 1].index <= u[e].index)
      <4>1. \A d \in 1 .. k + 1 : u[d].index <= u[k + 1].index
        <5> TAKE d \in 1 .. k + 1
        <5>1. d = k + 1 \/ d \in 1 .. k
          BY <2>0
        <5>2. u[d].index \in Nat /\ u[e].index \in Nat /\ u[k + 1].index \in Nat
          BY <2>0
        <5> QED BY <3>1, <3>3, <5>1, <5>2
      <4> QED BY <2>0, <4>1
    <3> QED BY <3>2, <3>3
  <2> QED BY <2>1, <2>2
<1>4. 0 \in Int /\ n \in Int /\ n \in 0 .. n /\ n # 0
  BY <1>1 DEF n, Indexes
<1> HIDE DEF T
<1>5. \A k \in 0 .. n : k \in T
  BY <1>2, <1>3, <1>4, Upwards
<1>6. n \in T
  BY <1>4, <1>5
<1>7. PICK e \in 1 .. n : \A d \in 1 .. n : u[d].index <= u[e].index
  BY <1>4, <1>6 DEF T
<1> QED BY <1>1, <1>7 DEF n, Indexes

LEMMA IndexesFit ==
  ASSUME mode \in Mode, NEW i \in Indexes(mode)
  PROVE  i < options_max
<1>1. mode.usage # <<>> /\ Indexes(mode) \subseteq Nat
  <2>1. mode.usage \in Seq(Descriptor)
    BY DEF Mode
  <2>2. \A d \in DOMAIN mode.usage : mode.usage[d] \in Descriptor
    BY <2>1
  <2> QED BY <2>2 DEF Indexes, Descriptor
<1>2. \E k \in Indexes(mode) : \A j \in Indexes(mode) : j <= k
  BY MaxOfIndexes
<1> DEFINE k == CHOOSE k \in Indexes(mode) : \A j \in Indexes(mode) : k >= j
<1>3. k \in Indexes(mode) /\ \A j \in Indexes(mode) : k >= j
  BY <1>1, <1>2
<1>4. options_max = k + 2
  BY <1>1 DEF options_max, Max, Indexes
<1> HIDE DEF k
<1> QED BY <1>1, <1>3, <1>4

LEMMA ParserStarts ==
  ASSUME NEW m \in Mode, NEW lines \in Seq(Seq(Text)), lines # <<>>, ParserInit(m, lines)
  PROVE  IInv
<1>1. AllStored
  BY DEF ParserInit, AllStored
<1> QED BY <1>1, ParserInitInv, ListsInitInv DEF IInv

\* What is stored fits into the arrays.
LEMMA InvBufferSuffices == IInv => BufferSuffices
<1> SUFFICES ASSUME IInv PROVE BufferSuffices
  OBVIOUS
<1>1. ParserInv /\ ListsInv /\ ParserTypeOK
  BY DEF IInv, ParserInv
<1>2. /\ mode \in Mode /\ op_count \in 0 .. IntMax /\ buffer_max \in 1 .. IntMax
      /\ IntMax \in Nat
  BY <1>1, OptionAssumption DEF ParserTypeOK, InVector
<1>3. pass # "count" => op_count < buffer_max \/ (op_count = IntMax /\ buffer_max = IntMax)
  <2> SUFFICES ASSUME pass # "count"
               PROVE  op_count < buffer_max \/ (op_count = IntMax /\ buffer_max = IntMax)
    OBVIOUS
  <2> DEFINE n == Len(AllOptions)
  <2>1. (buffer_max = IntMax \/ buffer_max = 1 + n) /\ op_count <= n
    BY <1>1 DEF ParserInv, AllCounted
  <2>2. n \in Nat
    BY <1>1, BeforeType
  <2> HIDE DEF n
  <2> QED BY <1>2, <2>1, <2>2
<1>4. ASSUME NEW c \in DOMAIN cells
      PROVE  c.at < IF c.array = "options" THEN options_max ELSE op_count
  <2>1. /\ c.array = "buffer" => c.at < op_count
        /\ c.array = "options" => c.at \in Indexes(mode)
        /\ c.array \in {"options", "buffer"}
    BY <1>1 DEF ListsInv, Places, Cells, CellId
  <2> QED BY <1>2, <2>1, IndexesFit
<1> QED BY <1>3, <1>4 DEF BufferSuffices

LEMMA InvListsThreadBuffer == IInv => ListsThreadBuffer
<1> SUFFICES ASSUME IInv PROVE ListsThreadBuffer
  OBVIOUS
<1>1. ListsInv /\ mode \in Mode
  BY DEF IInv, ParserInv, ParserTypeOK, InVector
<1>2. ASSUME NEW d \in DOMAIN mode.usage PROVE mode.usage[d].index \in Nat
  <2>1. mode.usage \in Seq(Descriptor)
    BY <1>1 DEF Mode
  <2>2. mode.usage[d] \in Descriptor
    BY <2>1
  <2> QED BY <2>2 DEF Descriptor
<1>3. \A i \in Nat : OptionsOf(i) = Only(i, Buffered)
  BY <1>1, OptionsOfIndex
<1>4. \A c \in DOMAIN cells :
        ~cells[c].next.tag => cells[cells[c].next.to].prev = LinkTo(c, FALSE)
  <2> TAKE c \in DOMAIN cells
  <2>1. Returns(cells, c) /\ cells[c].next \in Link
    BY <1>1 DEF ListsInv, Cells, CellType
  <2>2. cells[c].next.tag = TRUE \/ cells[c].next.tag = FALSE
    BY <2>1 DEF Link
  <2> QED BY <2>1, <2>2 DEF Returns
<1> QED BY <1>2, <1>3, <1>4 DEF ListsThreadBuffer

Program == {"OISPMedia", "OISPNavigation", "OISPControl_simu", "any"}

\* A program that goes on with its start.
Later == {"window", "bus", "theme", "map", "objects", "up"}

\* What Preferences::init of OISPNavigation leaves, whatever map there is.
NavigationDefaults ==
  /\ preferences.mDesktopLayer = FALSE
  /\ preferences.mGPSDHost = "localhost" /\ preferences.mGPSDPort = 2947
  /\ preferences.mNaviMapFolder \in FoundMaps

\* One vector is parsed, and before it is nothing has been changed.
ParsesOne ==
  /\ there \subseteq Files[program]
  /\ program \in Program
  /\ program \in {"OISPMedia", "OISPNavigation"} => Len(written) = 1
  /\ stage \in {"preferences", "parsing"} => program # "OISPControl_simu"
  /\ stage = "parsing" /\ program = "OISPMedia" => preferences = MediaPreferences
  /\ stage = "parsing" /\ program = "OISPNavigation" => NavigationDefaults

SInv == IInv /\ ParsesOne /\ PreferencesAsGiven

LEMMA InitSInv ==
  ASSUME Init
  PROVE  SInv
<1>1. PICK s \in Starts :
        /\ program = s.program
        /\ stage = IF s.program = "OISPControl_simu" THEN "bus" ELSE "preferences"
        /\ ParserInit(s.mode, s.lines) /\ there \subseteq Files[s.program]
  BY DEF Init
<1>2. /\ s.program \in Program
      /\ s.mode \in Mode /\ s.lines \in Seq(Seq(Text)) /\ s.lines # <<>>
      /\ s.program \in {"OISPMedia", "OISPNavigation"} => Len(s.lines) = 1
  BY StartAssumption DEF Program
<1>3. IInv
  BY <1>1, <1>2, ParserStarts
<1>4. written = s.lines
  BY <1>1 DEF ParserInit
<1>5. ParsesOne
  BY <1>1, <1>2, <1>4 DEF ParsesOne
<1>6. PreferencesAsGiven
  BY <1>1 DEF PreferencesAsGiven
<1> QED BY <1>3, <1>5, <1>6 DEF SInv

\* What a program is asked stays as it is while its preferences do.
LEMMA AskedKept ==
  ASSUME PreferencesAsGiven, UNCHANGED <<program, preferences, mode, written>>,
         stage' \in Later => stage \in Later
  PROVE  PreferencesAsGiven'
BY DEF PreferencesAsGiven, Later, MediaAsAsked, NavigationAsAsked, Asked, MediaPreferences,
       FoundMaps

\* What the parser of a program has found is what its one vector says.
LEMMA ParsedOne ==
  ASSUME IInv, pass = "done", Len(written) = 1,
         ~err \/ Len(Reading(mode, written[1]).options) <= IntMax
  PROVE  /\ err = ~Reading(mode, written[1]).ok
         /\ \A index \in Nat : OptionsOf(index) = Only(index, Reading(mode, written[1]).options)
<1> DEFINE read == Reading(mode, written[1])
<1>1. /\ ParserInv /\ ListsInv /\ AllStored /\ ParserTypeOK /\ ParsedAsWritten
      /\ mode \in Mode /\ written \in Seq(Seq(Text)) /\ err \in BOOLEAN
  BY DEF IInv, ParserInv, ParserTypeOK, InVector
<1>2. written[1] \in Seq(Text) /\ 1 \in 1 .. Len(written)
  BY <1>1
<1>3. read.options \in Seq(Option) /\ read.ok \in BOOLEAN
  BY <1>1, <1>2, ReadingParts
<1> HIDE DEF read
<1>4. OptionsUpTo(mode, written)[1] = read.options
  <2> DEFINE U == OptionsUpTo(mode, written)
  <2>1. U[0] = <<>> /\ \A f \in 1 .. Len(written) : U[f] = U[f - 1] \o Reading(mode, written[f]).options
    BY <1>1, OptionsUpToEquation
  <2> HIDE DEF U
  <2>a. \A f \in 1 .. Len(written) :
          f = 1 => U[1] = U[0] \o Reading(mode, written[1]).options
    <3> TAKE f \in 1 .. Len(written)
    <3> HAVE f = 1
    <3>1. U[f] = U[f - 1] \o Reading(mode, written[f]).options
      BY <2>1
    <3>2. f - 1 = 0
      OBVIOUS
    <3> QED BY <3>1, <3>2
  <2>2. U[1] = U[0] \o Reading(mode, written[1]).options
    BY <1>2, <2>a
  <2>3. U[1] = <<>> \o read.options
    BY <2>1, <2>2 DEF read
  <2>4. <<>> \o read.options = read.options
    <3> DEFINE o == read.options
    <3>1. o \in Seq(Option)
      BY <1>3
    <3> HIDE DEF o
    <3>2. <<>> \o o = o
      BY <3>1, ConcatEmptySeq
    <3> QED BY <3>2 DEF o
  <2> QED BY <2>3, <2>4 DEF U
<1>5. Len(read.options) <= IntMax
  <2>1. CASE ~err
    <3>1. Len(AllOptions) <= IntMax
      BY <1>1, <2>1 DEF AllStored
    <3> QED BY <1>4, <3>1 DEF AllOptions
  <2>2. CASE Len(read.options) <= IntMax
    BY <2>2
  <2> QED BY <2>1, <2>2 DEF read
<1>6. AsWritten.options = read.options /\ AsWritten.ok = read.ok
  <2>1. CASE read.ok
    <3>1. \A g \in 1 .. Len(written) : Reading(mode, written[g]).ok
      BY <2>1 DEF read
    <3>2. AllReadings(mode, written)
            = [options |-> OptionsUpTo(mode, written)[Len(written)],
               others |-> OthersUpTo(mode, written, Len(written)), ok |-> TRUE]
      BY <1>1, <3>1, AllLegal
    <3> QED BY <1>3, <1>4, <2>1, <3>2 DEF AsWritten
  <2>2. CASE ~read.ok
    <3>1. ~Reading(mode, written[1]).ok /\ \A g \in 1 .. 1 - 1 : Reading(mode, written[g]).ok
      BY <2>2 DEF read
    <3>2. AllReadings(mode, written)
            = [options |-> OptionsUpTo(mode, written)[1],
               others |-> OthersUpTo(mode, written, 1 - 1), ok |-> FALSE]
      BY <1>1, <1>2, <3>1, FirstIllegal
    <3>3. read.ok = FALSE
      BY <1>3, <2>2
    <3> DEFINE others == OthersUpTo(mode, written, 1 - 1)
    <3>4. AsWritten = [options |-> OptionsUpTo(mode, written)[1], others |-> others, ok |-> FALSE]
      BY <3>2 DEF AsWritten
    <3> HIDE DEF others
    <3>5. AsWritten.options = read.options /\ AsWritten.ok = FALSE
      BY <1>4, <3>4
    <3> QED BY <3>3, <3>5
  <2> QED BY <2>1, <2>2
<1>7. Buffered = read.options /\ err = ~read.ok
  BY <1>1, <1>5, <1>6 DEF ParsedAsWritten
<1>8. \A index \in Nat : OptionsOf(index) = Only(index, Buffered)
  BY <1>1, OptionsOfIndex
<1> QED BY <1>7, <1>8 DEF read

LEMMA ParseOptionsSInv ==
  ASSUME SInv, parseOptions
  PROVE  PreferencesAsGiven'
<1> SUFFICES ASSUME stage' \in Later, program \in {"OISPMedia", "OISPNavigation"}
             PROVE  PreferencesAsGiven'
  BY DEF PreferencesAsGiven, Later, parseOptions
<1> DEFINE read == Reading(mode, written[1])
<1>1. /\ stage = "parsing" /\ pass = "done" /\ Len(written) = 1 /\ IInv
      /\ UNCHANGED <<program, mode, written>>
  BY DEF SInv, ParsesOne, parseOptions, parserVars
<1>2. CASE program = "OISPMedia"
  <2>1. ~(err \/ Given(HELP)) /\ preferences' = MediaOptions
    BY <1>2 DEF parseOptions, Later
  <2>2. /\ err = ~read.ok
        /\ \A index \in Nat : OptionsOf(index) = Only(index, read.options)
    BY <1>1, <2>1, ParsedOne
  <2>3. preferences = MediaPreferences
    BY <1>1, <1>2 DEF SInv, ParsesOne
  <2> HIDE DEF read
  <2>4. Only(HELP, read.options) = <<>> /\ read.ok
    BY <2>1, <2>2 DEF Given, HELP
  <2>5. preferences'.mMusicRootFolder =
          Asked(read.options, MUSIC, MediaPreferences.mMusicRootFolder)
    BY <2>1, <2>2, <2>3 DEF MediaOptions, Given, ArgOf, Asked, MUSIC
  <2>6. preferences'.mEmotionEngine =
          Asked(read.options, ENGINE, MediaPreferences.mEmotionEngine)
    BY <2>1, <2>2, <2>3 DEF MediaOptions, Given, ArgOf, Asked, ENGINE
  <2>7. MediaAsAsked(read)'
    BY <1>1, <2>4, <2>5, <2>6 DEF MediaAsAsked, MediaPreferences, read
  <2> QED BY <1>1, <1>2, <2>7 DEF PreferencesAsGiven, read
<1>3. CASE program = "OISPNavigation"
  <2> SUFFICES ASSUME Len(read.options) <= IntMax PROVE NavigationAsAsked(read)'
    BY <1>1, <1>3 DEF PreferencesAsGiven
  <2>1. preferences' = NavigationOptions
    BY <1>3 DEF parseOptions
  <2>2. \A index \in Nat : OptionsOf(index) = Only(index, read.options)
    BY <1>1, ParsedOne
  <2>3. NavigationDefaults
    BY <1>1, <1>3 DEF SInv, ParsesOne
  <2> HIDE DEF read
  <2>4. preferences'.mDesktopLayer = (Only(DESKTOP, read.options) # <<>>)
    BY <2>1, <2>2, <2>3 DEF NavigationOptions, NavigationDefaults, Given, DESKTOP
  <2>5. IF Only(NAVIMAP, read.options) = <<>>
        THEN preferences'.mNaviMapFolder \in FoundMaps
        ELSE preferences'.mNaviMapFolder = Only(NAVIMAP, read.options)[1].arg
    BY <2>1, <2>2, <2>3 DEF NavigationOptions, NavigationDefaults, Given, ArgOf, NAVIMAP
  <2>6. Only(GPSDPORT, read.options) = <<>> =>
          preferences'.mGPSDHost = "localhost" /\ preferences'.mGPSDPort = 2947
    BY <2>1, <2>2, <2>3 DEF NavigationOptions, NavigationDefaults, Given, GPSDPORT
  <2> QED BY <1>1, <2>4, <2>5, <2>6 DEF NavigationAsAsked, FoundMaps, read
<1> QED BY <1>2, <1>3

LEMMA NextSInv ==
  ASSUME SInv, [Next]_vars
  PROVE  SInv'
<1> USE DEF Goes
<1>0. IInv /\ ParsesOne /\ PreferencesAsGiven
  BY DEF SInv
<1>1. CASE Parse
  <2>1. stage = "parsing" /\ workhorse /\ UNCHANGED startVars
    BY <1>1 DEF Parse
  <2>2. IInv'
    BY <1>0, <2>1, WorkhorseInv
  <2>3. UNCHANGED <<mode, written>>
    BY <2>1 DEF workhorse, PassOver, Finish, TakeApart, Skip, Count, Store, Refuse
  <2>4. ParsesOne'
    BY <1>0, <2>1, <2>3 DEF ParsesOne, NavigationDefaults, FoundMaps, startVars, MediaPreferences
  <2>5. PreferencesAsGiven'
    BY <1>0, <2>1, <2>3, AskedKept DEF startVars
  <2> QED BY <2>2, <2>4, <2>5 DEF SInv
<1>2. CASE InitPreferences
  <2>1. /\ stage = "preferences" /\ stage' = "parsing" /\ UNCHANGED <<program, there, parserVars>>
        /\ preferences' = CASE program = "OISPMedia"      -> MediaPreferences
                            [] program = "OISPNavigation" -> NavigationPreferences
                            [] OTHER                      -> None
    BY <1>2 DEF InitPreferences
  <2>2. IInv'
    BY <1>0, <2>1, ParserStutters
  <2>3. PreferencesAsGiven'
    BY <2>1 DEF PreferencesAsGiven
  <2>4. ParsesOne'
    <3>1. program = "OISPNavigation" => NavigationDefaults'
      <4> SUFFICES ASSUME program = "OISPNavigation" PROVE NavigationDefaults'
        OBVIOUS
      <4>1. preferences' = NavigationPreferences
        BY <2>1
      <4>2. searchNaviDir(there) \in FoundMaps
        BY <1>0 DEF ParsesOne, FoundMaps
      <4> QED BY <4>1, <4>2 DEF NavigationPreferences, NavigationDefaults, FoundMaps
    <3>2. program = "OISPMedia" => preferences' = MediaPreferences'
      BY <2>1 DEF MediaPreferences
    <3> QED BY <1>0, <2>1, <3>1, <3>2 DEF ParsesOne, parserVars
  <2> QED BY <2>2, <2>3, <2>4 DEF SInv
<1>3. CASE parseOptions
  <2>1. UNCHANGED <<program, there, parserVars>> /\ stage' \in {"window", "ended"}
    <3>1. UNCHANGED program /\ UNCHANGED there /\ UNCHANGED parserVars
      BY <1>3 DEF parseOptions
    <3>2. \/ program = "OISPMedia" \/ program = "OISPNavigation" \/ program = "any"
      BY <1>0, <1>3 DEF ParsesOne, Program, parseOptions
    <3> QED BY <1>3, <3>1, <3>2 DEF parseOptions
  <2>2. IInv'
    BY <1>0, <2>1, ParserStutters
  <2>3. PreferencesAsGiven'
    BY <1>3, ParseOptionsSInv
  <2>4. ParsesOne'
    BY <1>0, <2>1 DEF ParsesOne, parserVars
  <2> QED BY <2>2, <2>3, <2>4 DEF SInv
<1>4. CASE UNCHANGED <<program, preferences, parserVars>> /\ (stage' # stage => stage' \notin {"preferences", "parsing"})
           /\ (stage' \in Later => stage \in Later)
           /\ (there \subseteq Files[program] => there' \subseteq Files[program])
  <2>1. IInv'
    BY <1>0, <1>4, ParserStutters
  <2>2. PreferencesAsGiven'
    BY <1>0, <1>4, AskedKept DEF parserVars
  <2>3. ParsesOne'
    BY <1>0, <1>4 DEF ParsesOne, NavigationDefaults, FoundMaps, parserVars, MediaPreferences
  <2> QED BY <2>1, <2>2, <2>3 DEF SInv
<1>5. CASE CreateWindow \/ RequestName \/ LoadTheme \/ OpenMap \/ Enter \/ MainLoopEnds
           \/ CloseWindow \/ sig_exit \/ FilesChange
  <2>1. UNCHANGED <<program, preferences, parserVars>>
    BY <1>5 DEF CreateWindow, RequestName, LoadTheme, OpenMap, Enter, MainLoopEnds,
                CloseWindow, sig_exit, FilesChange
  <2>2. stage' = stage \/ (stage \in Later /\ stage' \notin {"preferences", "parsing"}) \/ stage' = "ended"
    <3> HIDE DEF Theme
    <3> QED BY <1>5 DEF CreateWindow, RequestName, LoadTheme, OpenMap, Enter, MainLoopEnds,
                CloseWindow, sig_exit, FilesChange, Later
  <2>3. there \subseteq Files[program] => there' \subseteq Files[program]
    BY <1>5 DEF CreateWindow, RequestName, LoadTheme, OpenMap, Enter, MainLoopEnds,
                CloseWindow, sig_exit, FilesChange
  <2> QED BY <1>4, <2>1, <2>2, <2>3 DEF Later
<1>6. CASE UNCHANGED vars
  BY <1>4, <1>6 DEF vars, startVars
<1> QED BY <1>1, <1>2, <1>3, <1>5, <1>6 DEF Next, Main

LEMMA SInvAlways == Spec => []SInv
<1>1. Init => SInv
  BY InitSInv
<1>2. SInv /\ [Next]_vars => SInv'
  BY NextSInv
<1> QED BY <1>1, <1>2, PTL DEF Spec

\* The arrays that a program makes as large as Stats says hold all that the
\* parser stores.
THEOREM StartupBufferSuffices == Spec => []BufferSuffices
<1>1. SInv => BufferSuffices
  BY InvBufferSuffices DEF SInv
<1> QED BY <1>1, SInvAlways, PTL

\* The options are stored as the arguments say.
THEOREM StartupParsedAsWritten == Spec => []ParsedAsWritten
<1>1. SInv => ParsedAsWritten
  BY DEF SInv, IInv, ParserInv
<1> QED BY <1>1, SInvAlways, PTL

\* The lists of options[] thread the buffer.
THEOREM StartupListsThreadBuffer == Spec => []ListsThreadBuffer
<1>1. SInv => ListsThreadBuffer
  BY InvListsThreadBuffer DEF SInv
<1> QED BY <1>1, SInvAlways, PTL

\* A program that goes on has the preferences its options give it and the defaults
\* for the others; where the option for the gpsd port is given, nothing is said of
\* host and port.
THEOREM StartupPreferencesAsGiven == Spec => []PreferencesAsGiven
<1>1. SInv => PreferencesAsGiven
  BY DEF SInv
<1> QED BY <1>1, SInvAlways, PTL
================================================================================
