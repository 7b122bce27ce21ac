------------------------------ MODULE OptionParser ------------------------------
(***************************************************************************)
(* common/optionparser.h: Stats and Parser, which go through the argument  *)
(* vectors of a program twice.  The first pass counts the options, so that *)
(* the caller can give the second one arrays to store them in.             *)
(*                                                                         *)
(* A step is one round of workhorse's loops: an argument that is no        *)
(* option, the "--", or one option of an argument.  A text is a sequence   *)
(* of atoms: "-", "=", and characters or parts of names.  The arguments    *)
(* left are what is left of the vector, whether the caller counted them or *)
(* passed -1 and a vector that ends with NULL.                             *)
(***************************************************************************)
EXTENDS Integers, Sequences, FiniteSetsExt

CONSTANTS
  Numbers,    \* the atoms that strtol reads to their end
  IntMax      \* 0x7fffffff

\* An argument that is not there.
NoArg == <<"no_argument">>

\* Everything a text is made of.
Atom == STRING \ {"no_argument"}

ASSUME OptionAssumption == IntMax \in Nat \ {0} /\ Numbers \subseteq Atom

VARIABLES
  mode,        \* what the calls pass, a Mode
  written,     \* history: the vectors as they were written
  vectors,     \* the vectors: with gnu, workhorse reorders them
  pass,        \* "count" (Stats::add), "store" (Parser::parse), "done"
  feed,        \* the vector the pass is in
  args,        \* the pointer of that name, an index into vectors[feed]
  nonops,      \* arguments passed over before args
  group,       \* the argument being taken apart, or NoGroup
  buffer_max,  \* Stats::buffer_max
  cells,       \* the Options of options[] and buffer[], and their links
  op_count,
  nonOptions,  \* nonop_args and nonop_count
  err

scan == <<args, nonops, group>>
output == <<cells, op_count, nonOptions, err>>
parserVars == <<mode, written, vectors, pass, feed, scan, buffer_max, output>>

NoGroup == [param |-> 0, short |-> FALSE, long |-> FALSE]
NoVector == [feed |-> 0, first |-> 1, count |-> 0]

-----------------------------------------------------------------------------
(* Texts and descriptors.                                                  *)

Text == Seq(Atom)

Descriptor ==
  [index : Nat, shortopt : SUBSET Atom, longopt : Text, check_arg : STRING]

Mode ==
  [usage : Seq(Descriptor), gnu : BOOLEAN, single_minus_longopt : BOOLEAN,
   min_abbr_len : Nat]

Rest(text, k) == SubSeq(text, k, Len(text))

IsOption(text) == Len(text) >= 2 /\ text[1] = "-"
IsDashDash(text) == text = <<"-", "-">>

\* The text is done or goes on with an attached argument.
EndsName(text) == text = <<>> \/ text[1] = "="

StartsWith(text, name) == Len(name) <= Len(text) /\ SubSeq(text, 1, Len(name)) = name

streq(long, text) ==
  StartsWith(text, long) /\ EndsName(Rest(text, Len(long) + 1))

\* The common prefix is all of the name, or min atoms of it.
streqabbr(long, text, min) ==
  \E k \in 0 .. Len(long) :
    /\ StartsWith(text, SubSeq(long, 1, k))
    /\ k = Len(long) \/ (min > 0 /\ k >= min)
    /\ EndsName(Rest(text, k + 1))

\* The first descriptor of a usage table that passes the test, or 0.
First(usage, Test(_)) ==
  LET found == {d \in DOMAIN usage : Test(usage[d])} IN
  IF found = {} THEN 0 ELSE CHOOSE d \in found : \A e \in found : d <= e

LongMatch(m, text) ==
  LET Exact(d) == streq(d.longopt, text)
      Abbreviated == {d \in DOMAIN m.usage :
                        streqabbr(m.usage[d].longopt, text, m.min_abbr_len)}
  IN IF First(m.usage, Exact) # 0 \/ m.min_abbr_len = 0 \/ Cardinality(Abbreviated) # 1
     THEN First(m.usage, Exact)
     ELSE CHOOSE d \in Abbreviated : TRUE

ShortMatch(m, char) == LET Has(d) == char \in d.shortopt IN First(m.usage, Has)

\* The descriptor that unknown options are given, if there is one.
Dummy(m) == LET Empty(d) == d.shortopt = {} /\ d.longopt = <<>> IN First(m.usage, Empty)

Described(m, d) == IF d # 0 THEN d ELSE Dummy(m)

\* What follows the "=", or NoArg.
Attached(text) ==
  LET eq == {k \in DOMAIN text : text[k] = "="} IN
  IF eq = {} THEN NoArg ELSE Rest(text, (CHOOSE k \in eq : \A j \in eq : k <= j) + 1)

\* check_arg of Arg and of the programs' Arg classes, for an argument that is
\* attached to the option or not.
check_arg(check, arg, attached) ==
  CASE check = "None"     -> "ARG_NONE"
    [] check = "Optional" -> IF arg # NoArg /\ attached THEN "ARG_OK" ELSE "ARG_IGNORE"
    [] check = "Required" -> IF arg # NoArg THEN "ARG_OK" ELSE "ARG_ILLEGAL"
    [] check = "NonEmpty" -> IF arg \notin {NoArg, <<>>} THEN "ARG_OK" ELSE "ARG_ILLEGAL"
    [] check = "Numeric"  -> IF Len(arg) = 1 /\ arg[1] \in Numbers THEN "ARG_OK"
                                                                  ELSE "ARG_ILLEGAL"
    [] OTHER -> "ARG_ILLEGAL"

-----------------------------------------------------------------------------
(* Options and their lists.  An Option is linked to the next and the       *)
(* previous one of its index; a tag on a link says that it goes round.     *)

Cell(array, k) == [array |-> array, at |-> k]
LinkTo(cell, tag) == [to |-> cell, tag |-> tag]

Unlinked(option, cell) ==
  [option |-> option, next |-> LinkTo(cell, TRUE), prev |-> LinkTo(cell, TRUE)]

\* Faulty variant: the new Option is put behind the head of its list.
AppendedToHead(head, new, option) ==
  LET known == [cells EXCEPT ![head].next = LinkTo(new, FALSE),
                             ![head].prev = LinkTo(new, TRUE)]
  IN [c \in DOMAIN cells \cup {new} |->
        IF c = new THEN [option |-> option, next |-> LinkTo(head, TRUE),
                                            prev |-> LinkTo(head, FALSE)]
                   ELSE known[c]]

\* Option::append for the head of a list and the Option stored last.
Appended(head, new, option) ==
  LET last == cells[head].prev.to
      known == [cells EXCEPT ![last].next = LinkTo(new, FALSE),
                             ![head].prev = LinkTo(new, TRUE)]
  IN [c \in DOMAIN cells \cup {new} |->
        IF c = new THEN [option |-> option, next |-> LinkTo(head, TRUE),
                                            prev |-> LinkTo(last, FALSE)]
                   ELSE known[c]]

\* What StoreOptionAction::perform stores.
Stored(option) ==
  LET new == Cell("buffer", op_count)
      head == Cell("options", option.index)
  IN IF head \in DOMAIN cells
     THEN Appended(head, new, option)
     ELSE [c \in DOMAIN cells \cup {new, head} |->
             IF c \in {new, head} THEN Unlinked(option, c) ELSE cells[c]]

\* Stats::add: room for the greatest index, and for a sentinel.
options_max ==
  IF mode.usage = <<>> THEN 1
  ELSE Max({mode.usage[d].index : d \in DOMAIN mode.usage}) + 2

\* The Options from a cell on, by next().
Chain(cell) ==
  LET upTo[n \in 0 .. op_count] ==
        IF n = 0 THEN <<cell>>
        ELSE LET s == upTo[n - 1]
                 link == cells[s[Len(s)]].next
             IN IF link.tag THEN s ELSE Append(s, link.to)
  IN upTo[op_count]

OptionsOf(index) ==
  IF Cell("options", index) \in DOMAIN cells
  THEN LET s == Chain(Cell("options", index)) IN [k \in DOMAIN s |-> cells[s[k]].option]
  ELSE <<>>

\* The options of an index.
Only(index, options) ==
  LET upTo[n \in 0 .. Len(options)] ==
        IF n = 0 THEN <<>>
        ELSE IF options[n].index = index THEN Append(upTo[n - 1], options[n])
        ELSE upTo[n - 1]
  IN upTo[Len(options)]

Buffered == [k \in 1 .. op_count |-> cells[Cell("buffer", k - 1)].option]

-----------------------------------------------------------------------------
(* The argument vector.                                                    *)

vector == vectors[feed]
text == vector[args]
AtEnd == args > Len(vector)

\* Faulty variant: the argument is moved by one place less.
shiftShort(v, at, count) ==
  [k \in DOMAIN v |-> CASE k = at - count + 1 /\ count > 0 -> v[at]
                        [] k \in at - count + 2 .. at -> v[k - 1]
                        [] OTHER -> v[k]]

\* shift: an argument is moved in front of the count arguments before it.
shift(v, at, count) ==
  [k \in DOMAIN v |-> CASE k = at - count -> v[at]
                        [] k \in at - count + 1 .. at -> v[k - 1]
                        [] OTHER -> v[k]]

\* workhorse returns: the next vector or pass.  Stats ignores a failure, after
\* one of Parser::parse the caller stops.
Return(ok) ==
  /\ group' = NoGroup /\ args' = 1 /\ nonops' = 0
  /\ CASE pass = "store" /\ ~ok       -> pass' = "done" /\ UNCHANGED feed
       [] feed < Len(vectors) /\ (ok \/ pass = "count") ->
                                         feed' = feed + 1 /\ UNCHANGED pass
       [] feed = Len(vectors) /\ pass = "count" -> pass' = "store" /\ feed' = 1
       [] OTHER                        -> pass' = "done" /\ UNCHANGED feed

\* A lone minus or a text without one: passed over with gnu.
PassOver ==
  /\ pass # "done" /\ group = NoGroup /\ ~AtEnd
  /\ ~IsOption(text) /\ mode.gnu
  /\ args' = args + 1 /\ nonops' = nonops + 1
  /\ UNCHANGED <<mode, written, vectors, pass, feed, group, buffer_max, output>>

\* The end of the vector, a text that is no option, or "--", which is skipped.
\* finished keeps the non-options of before if there are none now.
Finish ==
  /\ pass # "done" /\ group = NoGroup
  /\ \/ AtEnd
     \/ ~AtEnd /\ ((~IsOption(text) /\ ~mode.gnu) \/ IsDashDash(text))
  /\ LET skipped == IF ~AtEnd /\ IsDashDash(text) THEN 1 ELSE 0
         first == args + skipped - nonops
         count == Len(vector) - first + 1
     IN /\ vectors' = IF skipped = 0 THEN vectors
                      ELSE [vectors EXCEPT ![feed] = shift(@, args, nonops)]
        /\ nonOptions' = IF pass = "store" /\ count > 0
                         THEN [feed |-> feed, first |-> first, count |-> count]
                         ELSE nonOptions
  /\ Return(TRUE)
  /\ UNCHANGED <<mode, written, buffer_max, cells, op_count, err>>

\* An argument that starts with a minus is taken apart.
TakeApart ==
  /\ pass # "done" /\ group = NoGroup /\ ~AtEnd
  /\ IsOption(text) /\ ~IsDashDash(text)
  /\ group' = [param |-> 1, short |-> text[2] # "-",
               long |-> mode.single_minus_longopt]
  /\ UNCHANGED <<mode, written, vectors, pass, feed, args, nonops, buffer_max, output>>

-----------------------------------------------------------------------------
(* One option of the argument that is taken apart.                         *)

longopt_name == Rest(text, IF text[2] = "-" THEN 3 ELSE 2)
longFound == IF group.short /\ ~group.long THEN 0 ELSE LongMatch(mode, longopt_name)
IsLong == ~group.short \/ longFound # 0

\* The option's character, if it is a short one.
char == group.param + 1
GroupEnds == ~IsLong /\ char > Len(text)

descriptor == Described(mode, IF IsLong THEN longFound ELSE ShortMatch(mode, text[char]))

attachedArg ==
  IF IsLong THEN Attached(longopt_name)
  ELSE IF char < Len(text) THEN Rest(text, char + 1) ELSE NoArg
detachedArg == IF args < Len(vector) THEN vector[args + 1] ELSE NoArg
optarg == IF attachedArg # NoArg THEN attachedArg ELSE detachedArg

checked ==
  CASE GroupEnds      -> "group_end"
    [] ~GroupEnds /\ descriptor = 0 -> "undescribed"
    [] OTHER -> check_arg(mode.usage[descriptor].check_arg, optarg, attachedArg # NoArg)

ThisOption ==
  [index |-> mode.usage[descriptor].index,
   name  |-> IF IsLong THEN text ELSE Rest(text, char),
   arg   |-> IF checked = "ARG_OK" THEN optarg ELSE NoArg]

\* Faulty variant: an option that is not described is looked at again.
takenUnlessUnknown ==
  CASE checked = "ARG_OK" /\ attachedArg = NoArg -> 2
    [] checked = "undescribed" -> 0
    [] OTHER -> 1

\* The arguments that go with the option when its argument is done.
taken == IF checked = "ARG_OK" /\ attachedArg = NoArg THEN 2 ELSE 1

\* After a short option without an argument the next one of its group follows,
\* else the next argument.
GoOn ==
  IF ~IsLong /\ checked \notin {"ARG_OK", "group_end"}
  THEN /\ group' = [param |-> char, short |-> TRUE, long |-> FALSE]
       /\ UNCHANGED <<vectors, args>>
  ELSE /\ group' = NoGroup
       /\ args' = args + taken
       /\ vectors' =
            [vectors EXCEPT ![feed] =
               IF taken = 2
               THEN shift(shift(@, args, nonops), args + 1, nonops)
               ELSE shift(@, args, nonops)]

\* The end of a group, or an option that no descriptor is for.
Skip ==
  /\ group # NoGroup
  /\ checked \in {"group_end", "undescribed"}
  /\ GoOn
  /\ UNCHANGED <<mode, written, pass, feed, nonops, buffer_max, output>>

Performs == checked \in {"ARG_OK", "ARG_IGNORE", "ARG_NONE"}

\* CountOptionsAction
Count ==
  /\ group # NoGroup /\ Performs /\ pass = "count"
  /\ buffer_max # IntMax
  /\ buffer_max' = buffer_max + 1
  /\ GoOn
  /\ UNCHANGED <<mode, written, pass, feed, nonops, output>>

\* StoreOptionAction
Store ==
  /\ group # NoGroup /\ Performs /\ pass = "store"
  /\ op_count # IntMax
  /\ cells' = Stored(ThisOption)
  /\ op_count' = op_count + 1
  /\ GoOn
  /\ UNCHANGED <<mode, written, pass, feed, nonops, buffer_max, nonOptions, err>>

\* An illegal option, or one too many.
Refuse ==
  /\ group # NoGroup
  /\ \/ checked = "ARG_ILLEGAL"
     \/ Performs /\ IntMax = (IF pass = "count" THEN buffer_max ELSE op_count)
  /\ err' = (pass = "store")
  /\ Return(FALSE)
  /\ UNCHANGED <<mode, written, vectors, buffer_max, cells, op_count, nonOptions>>

\* Faulty variant: no room for the empty Option.
ParserInitWithoutSentinel(flags, lines) ==
  /\ mode = flags /\ written = lines /\ vectors = written
  /\ pass = "count" /\ feed = 1 /\ args = 1 /\ nonops = 0 /\ group = NoGroup
  /\ buffer_max = 0
  /\ cells = <<>> /\ op_count = 0 /\ nonOptions = NoVector /\ err = FALSE

ParserInit(flags, lines) ==
  /\ mode = flags /\ written = lines /\ vectors = written
  /\ pass = "count" /\ feed = 1 /\ args = 1 /\ nonops = 0 /\ group = NoGroup
  /\ buffer_max = 1
  /\ cells = <<>> /\ op_count = 0 /\ nonOptions = NoVector /\ err = FALSE

workhorse == PassOver \/ Finish \/ TakeApart \/ Skip \/ Count \/ Store \/ Refuse

-----------------------------------------------------------------------------
(* The reference: what an argument vector says, read once from left to     *)
(* right and left in its order.                                            *)

\* An option of that name, if d describes it, and what it makes of the argument
\* attached to it or the one after it.
ReadAs(m, name, d, attached, next) ==
  LET arg == IF attached # NoArg THEN attached ELSE next
      verdict == IF d = 0 THEN "undescribed"
                 ELSE check_arg(m.usage[d].check_arg, arg, attached # NoArg)
  IN [option |-> [index |-> IF d = 0 THEN 0 ELSE m.usage[d].index, name |-> name,
                  arg |-> IF verdict = "ARG_OK" THEN arg ELSE NoArg],
      detached |-> attached = NoArg,
      verdict |-> verdict]

\* Is the argument one long option?
ReadLong(m, t) ==
  t[2] = "-" \/ (m.single_minus_longopt /\ LongMatch(m, Rest(t, 2)) # 0)

\* All options that an argument may stand for.
AllRead(m, t, next) ==
  IF ReadLong(m, t)
  THEN LET name == Rest(t, IF t[2] = "-" THEN 3 ELSE 2)
       IN <<ReadAs(m, t, Described(m, LongMatch(m, name)), Attached(name), next)>>
  ELSE [c \in 1 .. Len(t) - 1 |->
          ReadAs(m, Rest(t, c + 1), Described(m, ShortMatch(m, t[c + 1])),
                 IF c + 1 < Len(t) THEN Rest(t, c + 2) ELSE NoArg, next)]

\* More options in front of those of a meaning.
More(opts, meaning) ==
  [options |-> opts \o meaning.options, length |-> meaning.length, ok |-> meaning.ok]

\* Those from each one on that it does stand for, as the first that has an argument
\* or is illegal is the last, how many arguments they take up, and whether all are
\* legal.
Meanings(read) ==
  LET from[c \in 1 .. Len(read) + 1] ==
        IF c > Len(read) THEN [options |-> <<>>, length |-> 1, ok |-> TRUE]
        ELSE CASE read[c].verdict = "ARG_OK" ->
                    [options |-> <<read[c].option>>,
                     length |-> IF read[c].detached THEN 2 ELSE 1, ok |-> TRUE]
               [] read[c].verdict = "ARG_ILLEGAL" ->
                    [options |-> <<>>, length |-> 1, ok |-> FALSE]
               [] read[c].verdict = "undescribed" -> from[c + 1]
               [] OTHER -> More(<<read[c].option>>, from[c + 1])
  IN from

NextArg(v, k) == IF k < Len(v) THEN v[k + 1] ELSE NoArg

Meaning(m, v, k) == Meanings(AllRead(m, v[k], NextArg(v, k)))[1]

\* More options in front of those of a reading, and more other arguments.
Behind(opts, r) == [options |-> opts \o r.options, others |-> r.others, ok |-> r.ok]
Passed(texts, r) == [options |-> r.options, others |-> texts \o r.others, ok |-> r.ok]

\* What the vector says from each of its places on.
Readings(m, v) ==
  LET from[k \in 1 .. Len(v) + 2] ==
        CASE k > Len(v) -> [options |-> <<>>, others |-> <<>>, ok |-> TRUE]
          [] k <= Len(v) /\ ~IsOption(v[k]) ->
               IF m.gnu THEN Passed(<<v[k]>>, from[k + 1])
               ELSE [options |-> <<>>, others |-> Rest(v, k), ok |-> TRUE]
          [] k <= Len(v) /\ IsDashDash(v[k]) ->
               [options |-> <<>>, others |-> Rest(v, k + 1), ok |-> TRUE]
          [] OTHER ->
               LET meaning == Meaning(m, v, k) IN
               IF meaning.ok
               THEN Behind(meaning.options, from[k + meaning.length])
               ELSE [options |-> meaning.options, others |-> <<>>, ok |-> FALSE]
  IN from

Reading(m, v) == Readings(m, v)[1]

\* The options of all vectors up to each one.
OptionsUpTo(m, lines) ==
  LET upTo[f \in 0 .. Len(lines)] ==
        IF f = 0 THEN <<>> ELSE upTo[f - 1] \o Reading(m, lines[f]).options
  IN upTo

\* What all vectors say: none is read after one that is not legal, and the other
\* arguments are those of the last one that has some.
AllReadings(m, lines) ==
  LET bad == {f \in DOMAIN lines : ~Reading(m, lines[f]).ok}
      last == IF bad = {} THEN Len(lines) ELSE CHOOSE f \in bad : \A g \in bad : f <= g
      given == {f \in 1 .. last : Reading(m, lines[f]).ok
                                  /\ Reading(m, lines[f]).others # <<>>}
  IN [options |-> OptionsUpTo(m, lines)[last],
      others |-> IF given = {} THEN <<>>
                 ELSE Reading(m, lines[CHOOSE f \in given : \A g \in given : g <= f]).others,
      ok |-> bad = {}]

AsWritten == AllReadings(mode, written)

Others ==
  IF nonOptions.count = 0 THEN <<>>
  ELSE SubSeq(vectors[nonOptions.feed], nonOptions.first,
              nonOptions.first + nonOptions.count - 1)

-----------------------------------------------------------------------------
(* Properties.                                                             *)

\* The arrays that a caller makes as large as Stats says hold every option that
\* Parser::parse stores, although Stats has reordered the arguments meanwhile or
\* given up; and but for a count at its limit the empty Option stays that the
\* next call of parse looks for.
BufferSuffices ==
  /\ op_count < buffer_max \/ (op_count = IntMax /\ buffer_max = IntMax)
     \/ pass = "count"
  /\ \A c \in DOMAIN cells : c.at < IF c.array = "options" THEN options_max ELSE op_count

\* The options are stored as the arguments say, in their order, and the other
\* arguments are left in theirs, those of an earlier vector if the later ones
\* have none; an error is reported exactly if an option was illegal.
ParsedAsWritten ==
  pass = "done" =>
    \E read \in {AsWritten} :
      Len(read.options) <= IntMax =>
        Buffered = read.options /\ err = ~read.ok /\ Others = read.others

\* Each list of options[] runs through the options of its index in the order of
\* the buffer, and going back is the inverse of going on.
ListsThreadBuffer ==
  /\ \A index \in {mode.usage[d].index : d \in DOMAIN mode.usage} :
       OptionsOf(index) = Only(index, Buffered)
  /\ \A c \in DOMAIN cells :
       ~cells[c].next.tag => cells[cells[c].next.to].prev = LinkTo(c, FALSE)
=============================================================================
