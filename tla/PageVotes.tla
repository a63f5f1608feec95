------------------------------ MODULE PageVotes ------------------------------
(***************************************************************************)
(* How the crops of a page correct its text (reader_bench/pipeline.py      *)
(* vote and patch) and what is then listed as reviewed (assemble.py).  A   *)
(* line is its wording (key), the quantities in it (qty), in order, and    *)
(* its form, which is all else; every sample reads the lines of a crop, or *)
(* fails to.  Wordings are similar or not.                                 *)
(***************************************************************************)
EXTENDS Integers, Sequences, FiniteSets

CONSTANTS
    PageSamples,  \* the number of samples of the reader, which are 1, 2, ...
    PageTexts,    \* texts of the page
    Crops,        \* the number of crops
    CropReadings, \* what a sample may read in each: its lines that have a quantity
    Unread,       \* no reading
    Alike(_, _)   \* pipeline.similar, of two wordings

Items(s) == {s[i] : i \in DOMAIN s}
CropLines == UNION {UNION {Items(r) : r \in CropReadings[c]} : c \in 1..Crops}

ASSUME VotesAssumption ==
    /\ PageSamples \in Nat \ {0} /\ Crops \in Nat
    /\ \A t \in PageTexts : t \in Seq(Items(t))
    /\ \A c \in 1..Crops : CropReadings[c] \subseteq Seq(CropLines)
    /\ \A line \in CropLines : Alike(line.word, line.word)

VARIABLES
    text,      \* the lines of the page
    ballots,   \* what each sample read in each crop
    cursor,    \* the crop, the sample and the line that vote has come to
    grouped,   \* readings of the crop grouped by wording: the wording and each sample's line
    votes,     \* the grouped of all crops that are votes
    voted,     \* votes applied to the text
    used,      \* lines a vote was matched with
    rejected,  \* voted lines whose quantity was not confirmed
    reviewed   \* the lines listed as reviewed, of each crop

voteVars == <<text, ballots, cursor, grouped, votes, voted, used, rejected, reviewed>>

VotesInit ==
    /\ text \in PageTexts
    /\ ballots \in {b \in [1..Crops -> [1..PageSamples -> UNION {CropReadings[c] : c \in 1..Crops}
                                                             \cup {Unread}]] :
                       \A c \in 1..Crops, s \in 1..PageSamples : b[c][s] \in CropReadings[c] \cup {Unread}}
    /\ cursor = [crop |-> 1, sample |-> 1, line |-> 1]
    /\ grouped = <<>> /\ votes = <<>> /\ voted = 0 /\ used = {} /\ rejected = {} /\ reviewed = <<>>

----------------------------------------------------------------------------
(* vote: the readings of a crop, grouped by wording *)

Readers(c) == {s \in 1..PageSamples : ballots[c][s] # Unread}

FirstOf(S) == CHOOSE s \in S : \A r \in S : s <= r

\* The grouped a sample's line may join: one line of a sample in each, the wording that of the group.
Joinable(s, line) ==
    {g \in DOMAIN grouped : s \notin DOMAIN grouped[g].by /\ Alike(grouped[g].key, line.word)}

Added(by, s, line) == [r \in DOMAIN by \cup {s} |-> IF r = s THEN line ELSE by[r]]

\* The first group that takes the line, or a new one.
Placed(s, line) ==
    IF Joinable(s, line) = {}
    THEN Append(grouped, [key |-> line.word, by |-> [r \in {s} |-> line]])
    ELSE [grouped EXCEPT ![FirstOf(Joinable(s, line))].by = Added(@, s, line)]

HasLine ==
    /\ cursor.crop <= Crops /\ cursor.sample <= PageSamples
    /\ cursor.sample \in Readers(cursor.crop)
    /\ cursor.line \in DOMAIN ballots[cursor.crop][cursor.sample]

GroupLine ==
    /\ HasLine
    /\ grouped' = Placed(cursor.sample, ballots[cursor.crop][cursor.sample][cursor.line])
    /\ cursor' = [cursor EXCEPT !.line = @ + 1]
    /\ UNCHANGED <<text, ballots, votes, voted, used, rejected, reviewed>>

NextSample ==
    /\ cursor.crop <= Crops /\ cursor.sample <= PageSamples /\ ~HasLine
    /\ cursor' = [cursor EXCEPT !.sample = @ + 1, !.line = 1]
    /\ UNCHANGED <<text, ballots, grouped, votes, voted, used, rejected, reviewed>>

\* Two readings make a vote.
CloseGroup ==
    /\ cursor.crop <= Crops /\ cursor.sample > PageSamples /\ grouped # <<>>
    /\ LET g == Head(grouped)
           vote == [crop |-> cursor.crop, key |-> g.key, by |-> g.by]
       IN  votes' = IF Cardinality(DOMAIN g.by) >= 2 THEN Append(votes, vote) ELSE votes
    /\ grouped' = Tail(grouped)
    /\ UNCHANGED <<text, ballots, cursor, voted, used, rejected, reviewed>>

NextCrop ==
    /\ cursor.crop <= Crops /\ cursor.sample > PageSamples /\ grouped = <<>>
    /\ cursor' = [crop |-> cursor.crop + 1, sample |-> 1, line |-> 1]
    /\ UNCHANGED <<text, ballots, grouped, votes, voted, used, rejected, reviewed>>

Same(v, s) == {r \in DOMAIN v.by : v.by[r] = v.by[s]}

\* The most common reading, the first of those equally common.
Best(v) == FirstOf({s \in DOMAIN v.by :
    \A r \in DOMAIN v.by : Cardinality(Same(v, r)) <= Cardinality(Same(v, s))})

VotedLine(v) == v.by[Best(v)]
Support(v) == Cardinality(Same(v, Best(v)))

Tie(v) == Support(v) < 2

----------------------------------------------------------------------------
(* _patch: one vote applied to the text *)

\* The page was read by the first sample; its reading of the crop supersedes that of the page.
PageVotes(v) == 1 \notin Readers(v.crop)

Voters(v) == Cardinality(Readers(v.crop)) + (IF PageVotes(v) THEN 1 ELSE 0)

\* The ballots on a line: those of the group, and the page's own, as 0, where it votes.
Cast(v, line) == [s \in DOMAIN v.by \cup {z \in {0} : PageVotes(v)} |-> IF s = 0 THEN line ELSE v.by[s]]

\* majority: what more than half of the voters say, the default without one.
Majority(v, values, default) ==
    LET winning == {x \in {values[s] : s \in DOMAIN values} :
                       2 * Cardinality({s \in DOMAIN values : values[s] = x}) > Voters(v)}
    IN  IF winning = {} THEN default ELSE CHOOSE x \in winning : TRUE

\* A new wording is taken with the first reading that has it, its quantities included.
Reworded(v, line) ==
    LET cast == Cast(v, line)
        w == Majority(v, [s \in DOMAIN cast |-> cast[s].word], line.word)
    IN  IF w = line.word THEN line ELSE v.by[FirstOf({s \in DOMAIN v.by : v.by[s].word = w})]

\* Each quantity is voted on by itself where all have as many, else all of them together.
Quantities(v, line, target) ==
    LET cast == Cast(v, line)
        whole == Majority(v, [s \in DOMAIN cast |-> cast[s].qty], target)
    IN  IF \A s \in DOMAIN cast : Len(cast[s].qty) = Len(target)
        THEN [k \in 1..Len(target) |-> Majority(v, [s \in DOMAIN cast |-> cast[s].qty[k]], target[k])]
        ELSE IF Len(whole) = Len(target) THEN whole ELSE target

Corrected(v, line) ==
    LET new == Reworded(v, line)
    IN  [new EXCEPT !.qty = Quantities(v, line, new.qty)]

Matching(v) == {i \in DOMAIN text \ used : Alike(text[i].word, v.key)}

Patch(v) ==
    /\ Matching(v) # {}
    /\ LET i == FirstOf(Matching(v)) IN
       /\ text' = [text EXCEPT ![i] = Corrected(v, @)]
       /\ used' = used \cup {i}
       /\ rejected' = rejected \cup
              {line \in {VotedLine(v)} : text'[i] = text[i] /\ line.qty # text[i].qty}

\* A voted line that no line of the text matches is appended when most samples read it.
AppendVote(v) ==
    /\ Matching(v) = {}
    /\ text' = IF ~Tie(v) /\ 2 * Support(v) > Cardinality(Readers(v.crop))
               THEN Append(text, VotedLine(v)) ELSE text
    /\ UNCHANGED <<used, rejected>>

Vote ==
    /\ cursor.crop > Crops /\ voted < Len(votes)
    /\ voted' = voted + 1
    /\ Patch(votes[voted + 1]) \/ AppendVote(votes[voted + 1])
    /\ UNCHANGED <<ballots, cursor, grouped, votes, reviewed>>

----------------------------------------------------------------------------
(* assemble.build: the quantity review of each crop *)

Tied(v) == Tie(v) \/ 2 * Support(v) <= Cardinality(Readers(v.crop))

\* mutant: any line that the vote may be about counts
LandedAlike(v) ==
    {i \in DOMAIN text : Alike(text[i].word, v.key)
                         /\ \A j \in DOMAIN text : j < i => ~Alike(text[j].word, v.key)}

\* The line of the text that has the voted quantities, the voted line itself first.
Landed(v) ==
    LET line == VotedLine(v)
        stands == {i \in DOMAIN text : text[i] = line}
        alike == {i \in DOMAIN text : Alike(text[i].word, v.key) /\ text[i].qty = line.qty}
    IN  IF stands # {} THEN {FirstOf(stands)} ELSE {i \in alike : i = FirstOf(alike)}

Lands(v) == IF ~Tied(v) /\ VotedLine(v) \notin rejected THEN Landed(v) ELSE {}

Review ==
    /\ cursor.crop > Crops /\ voted = Len(votes) /\ reviewed = <<>>
    /\ reviewed' = [c \in 1..Crops |->
           UNION {{text[i] : i \in Lands(v)} : v \in {w \in Items(votes) : w.crop = c}}]
    /\ UNCHANGED <<text, ballots, cursor, grouped, votes, voted, used, rejected>>

VotesNext == GroupLine \/ NextSample \/ CloseGroup \/ NextCrop \/ Vote \/ Review
VotesSpec == VotesInit /\ [][VotesNext]_voteVars

----------------------------------------------------------------------------
(* Properties *)

\* Most of the samples that read the crop.
MostRead(c, line) ==
    2 * Cardinality({s \in Readers(c) : line \in Items(ballots[c][s])}) > Cardinality(Readers(c))

\* Two lines are about the same: one is the other, or there is a wording of the crop that is alike both.
About(c, line, seen) ==
    \/ line = seen
    \/ \E s \in Readers(c) : \E read \in Items(ballots[c][s]) :
          Alike(line.word, read.word) /\ Alike(read.word, seen.word)

\* What a crop's review lists as reviewed stands in the text as corrected by the votes of every crop,
\* and there is a line with its quantities, about the same, that most of the samples that read the
\* crop read, whatever they grouped it with and whatever other votes did to the text
\* (assemble.py:11-13).
ReviewedByMajority == \A c \in DOMAIN reviewed : \A line \in reviewed[c] :
    /\ line \in Items(text)
    /\ \E seen \in CropLines : seen.qty = line.qty /\ About(c, line, seen) /\ MostRead(c, seen)
=============================================================================
