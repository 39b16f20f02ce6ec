----------------------------- MODULE CallLibrary -----------------------------
(***************************************************************************)
(* The call library (calls/views.py): the list with its filters, the       *)
(* values the filter dialog offers, and the playback of a recording by     *)
(* byte ranges.  The list and the dialog are written apart over the same   *)
(* rows; playback looks at the file of a recording several times while a   *)
(* new download may replace it.                                            *)
(***************************************************************************)
EXTENDS Integers, Sequences, FiniteSets

CONSTANTS Words,      \* what a text column may hold; words stand in their sorted order
          Empty,      \* the empty text
          Fold,       \* a word without its case
          Strip,      \* a word without blanks around it
          NoTeamRow, NotFinal,   \* a call without a team, or without a disposition yet
          Limit,      \* 250 in the code
          Themes, RowsOf, MaxRows,        \* rows explored: one dimension at a time
          Sizes, Chunk, Blank, MaxReplaced,
          Offsets     \* the byte positions a Range header may name

Exact == {"campaign", "disposition", "dialer"}
Folded == {"project", "termination_reason"}

\* The serializer of a team takes the blanks around its name and refuses an empty one.
TeamNames == {w \in Words \ {Empty} : Strip[w] = w}
LibraryRow ==
  [agent_user : Words, agent_name : Words, team : TeamNames \cup {NoTeamRow}, team_name : Words,
   plain : [Exact \cup Folded -> Words], received : Nat, finalized : Nat \cup {NotFinal},
   talk_time : Nat]

\* The case of a word says nothing about blanks around it.
ASSUME LibraryAssumption ==
  /\ Words \subseteq Nat /\ Empty \in Words
  /\ Fold \in [Words -> Words] /\ Strip \in [Words -> Words]
  /\ \A v, w \in Words : Fold[v] = Fold[w] => (Strip[v] = v <=> Strip[w] = w)
  /\ RowsOf \in [Themes -> SUBSET LibraryRow] /\ MaxRows \in Nat
  /\ Limit \in Nat \ {0} /\ Chunk \in Nat \ {0} /\ Sizes \subseteq Nat /\ Offsets \subseteq Nat
  /\ Blank \notin Nat /\ NotFinal \notin Nat

VARIABLES calls,    \* the rows, in order of receipt
          theme,    \* the dimension in which they differ
          file,     \* the recording of one call: version and size
          stream,   \* its playback
          replaced  \* the file was replaced since its size was read (history)

libraryVars == <<calls, theme, file, stream, replaced>>

----------------------------------------------------------------------------
(* The list: CallListView.get_queryset.                                    *)

Received(row) == IF row.finalized = NotFinal THEN row.received ELSE row.finalized

\* _values: blanks are stripped from what the reader chose, and nothing is left of them.
Values(chosen) == {Strip[w] : w \in chosen} \ {Empty}

AgentFits(row, chosen) ==
  \/ row.agent_name \in chosen
  \/ row.agent_name = Empty /\ row.agent_user \in chosen

\* Mutant: the name the callback carried is all that is compared.
TeamFitsByName(row, chosen) == \E w \in chosen : Fold[w] = Fold[row.team_name]

TeamFits(row, chosen) ==
  \E w \in chosen :
    \/ Fold[w] = Fold[row.team_name]
    \/ row.team # NoTeamRow /\ Fold[w] = Fold[row.team]

Fits(values, test) == values = {} \/ test
Within(value, from, to) ==
  /\ from # Blank => value >= from
  /\ to # Blank => value <= to

ListsCall(p, row) ==
  /\ Fits(Values(p.agent), AgentFits(row, Values(p.agent)))
  /\ Fits(Values(p.team), TeamFits(row, Values(p.team)))
  /\ \A d \in Exact : Fits(Values(p.plain[d]), row.plain[d] \in Values(p.plain[d]))
  /\ \A d \in Folded :
       Fits(Values(p.plain[d]), \E w \in Values(p.plain[d]) : Fold[w] = Fold[row.plain[d]])
  /\ Within(Received(row), p.date_from, p.date_to)
  /\ Within(row.talk_time, p.talk_time_min, p.talk_time_max)

AllCalls ==
  [agent |-> {}, team |-> {}, plain |-> [d \in Exact \cup Folded |-> {}],
   date_from |-> Blank, date_to |-> Blank, talk_time_min |-> Blank, talk_time_max |-> Blank]

----------------------------------------------------------------------------
(* What the dialog offers: CallFilterOptionsView.                          *)
Rows == {calls[i] : i \in DOMAIN calls}

\* The first of a sorted column.
Leading(S) == {w \in S : Cardinality({v \in S : v < w}) < Limit}
Choices(S) == Leading(S \ {Empty})

\* One spelling of each word, the first in order.
CaseInsensitive(S) == Leading({w \in S : \A v \in S : Fold[v] = Fold[w] => w <= v})

\* Rows come newest first and are cut before they are made distinct.
Unnamed == {i \in DOMAIN calls : calls[i].agent_name = Empty /\ calls[i].agent_user # Empty}
RecentUnnamed == {i \in Unnamed : Cardinality({j \in Unnamed : j > i}) < Limit}

OfferedAgents ==
  Leading(Choices({row.agent_name : row \in Rows}) \cup {calls[i].agent_user : i \in RecentUnnamed})

OfferedTeams ==
  CaseInsensitive(Leading({row.team : row \in {r \in Rows : r.team # NoTeamRow}}) \cup
                  Choices({row.team_name : row \in {r \in Rows : r.team = NoTeamRow}}))

OfferedPlain(d) ==
  LET offered == Choices({row.plain[d] : row \in Rows}) IN
  IF d \in Folded THEN CaseInsensitive(offered) ELSE offered

CallArrives ==
  /\ Len(calls) < MaxRows
  /\ \E row \in RowsOf[theme] : calls' = Append(calls, row)
  /\ UNCHANGED <<theme, file, stream, replaced>>

----------------------------------------------------------------------------
(* Playback: RecordingView.  A header asks for bytes from first to last,   *)
(* either of which it may leave blank.                                     *)
Header == [first : Offsets \cup {Blank}, last : Offsets \cup {Blank}]
NoRange == [status |-> 416, start |-> 0, end |-> 0]

\* Mutant: the last byte asked for is not held against the size.
RangeUnclamped(h, size) ==
  IF size <= 0 \/ (h.first = Blank /\ h.last \in {Blank, 0}) \/ (h.first # Blank /\ h.first >= size)
  THEN NoRange
  ELSE [status |-> 206,
        start |-> IF h.first = Blank THEN size - h.last ELSE h.first,
        end |-> IF h.first = Blank \/ h.last = Blank THEN size - 1 ELSE h.last]

\* _range_bounds.
RangeBounds(h, size) ==
  LET end == IF h.last = Blank \/ h.last >= size THEN size - 1 ELSE h.last
      suffix == IF h.last > size THEN 0 ELSE size - h.last IN
  IF size <= 0 \/ (h.first = Blank /\ h.last \in {Blank, 0}) THEN NoRange
  ELSE IF h.first = Blank THEN [status |-> 206, start |-> suffix, end |-> size - 1]
  ELSE IF h.first >= size \/ end < h.first THEN NoRange
  ELSE [status |-> 206, start |-> h.first, end |-> end]

Silent == [step |-> "idle"]

\* The size is read before the file is opened.  A whole file is announced by it too.
Ask ==
  /\ stream = Silent /\ replaced' = FALSE
  /\ \E h \in Header \cup {Blank} :
       LET bounds == IF h = Blank THEN [status |-> 200, start |-> 0, end |-> file.size - 1]
                     ELSE RangeBounds(h, file.size) IN
       stream' = [step |-> IF bounds.status = 416 THEN "done" ELSE "sized", asked |-> h,
                  status |-> bounds.status, start |-> bounds.start, size |-> file.size,
                  length |-> bounds.end - bounds.start + 1, sent |-> 0, of |-> file]
  /\ UNCHANGED <<calls, theme, file>>

OpenFile ==
  /\ stream.step = "sized"
  /\ stream' = [stream EXCEPT !.step = "open", !.of = file]
  /\ UNCHANGED <<calls, theme, file, replaced>>

\* _file_chunks: one chunk, or the end.  A whole file is read to its end.
Send ==
  /\ stream.step = "open"
  /\ LET left == stream.of.size - (stream.start + stream.sent)
         wanted == IF stream.status = 200 THEN left ELSE stream.length - stream.sent
         least(a, b) == IF a < b THEN a ELSE b
         n == least(Chunk, least(wanted, left)) IN
     stream' = IF n <= 0 THEN [stream EXCEPT !.step = "done"]
               ELSE [stream EXCEPT !.sent = @ + n]
  /\ UNCHANGED <<calls, theme, file, replaced>>

Close ==
  /\ stream.step = "done"
  /\ stream' = Silent /\ replaced' = FALSE
  /\ UNCHANGED <<calls, theme, file>>

\* download_recording moves a finished download over the path; an open file is kept.
Replace ==
  /\ file.version < MaxReplaced
  /\ \E size \in Sizes : file' = [version |-> file.version + 1, size |-> size]
  /\ replaced' = (stream.step = "sized" \/ replaced)
  /\ UNCHANGED <<calls, theme, stream>>

LibraryInit ==
  /\ calls = <<>> /\ theme \in Themes
  /\ file \in [version : {0}, size : Sizes] /\ stream = Silent /\ replaced = FALSE

LibraryNext == CallArrives
LibrarySpec == LibraryInit /\ [][LibraryNext]_libraryVars
PlaybackNext == Ask \/ OpenFile \/ Send \/ Close \/ Replace
PlaybackSpec == LibraryInit /\ [][PlaybackNext]_libraryVars

----------------------------------------------------------------------------
(* Properties.                                                             *)

Padded(w) == Strip[w] # w
Crowded(S) == Cardinality(S \ {Empty}) > Limit

Finds(p) == \E row \in Rows : ListsCall(p, row)
FindsAgent(w) == Finds([AllCalls EXCEPT !.agent = {w}])
FindsTeam(w) == Finds([AllCalls EXCEPT !.team = {w}])
FindsPlain(d, w) == Finds([AllCalls EXCEPT !.plain[d] = {w}])

\* The list (views.py:1168-1288) and the dialog (views.py:1291-1357) agree on every
\* table: each value that is offered finds a call, unless blanks around it are lost on
\* the way back; and each call is found by values that are offered, together with its
\* own times, unless a column has more than 250 values, or more than 250 newer calls
\* of unnamed agents stand before it.
OptionsFindCalls ==
  /\ \A w \in OfferedAgents : Padded(w) \/ FindsAgent(w)
  /\ \A w \in OfferedTeams : Padded(w) \/ FindsTeam(w)
  /\ \A d \in Exact \cup Folded : \A w \in OfferedPlain(d) : Padded(w) \/ FindsPlain(d, w)
  /\ \A i \in DOMAIN calls :
       LET row == calls[i]
           own(p) == [p EXCEPT !.date_from = Received(row), !.date_to = Received(row),
                               !.talk_time_min = row.talk_time, !.talk_time_max = row.talk_time]
           shown == IF row.agent_name = Empty THEN row.agent_user ELSE row.agent_name IN
       /\ \/ shown = Empty \/ Padded(shown) \/ i \in (Unnamed \ RecentUnnamed)
          \/ Crowded({r.agent_name : r \in Rows} \cup {calls[j].agent_user : j \in Unnamed})
          \/ \E w \in OfferedAgents : ListsCall(own([AllCalls EXCEPT !.agent = {w}]), row)
       /\ \/ row.team = NoTeamRow /\ (row.team_name = Empty \/ Padded(row.team_name))
          \/ Crowded({r.team : r \in {s \in Rows : s.team # NoTeamRow}} \cup
                     {r.team_name : r \in Rows})
          \/ \E w \in OfferedTeams : ListsCall(own([AllCalls EXCEPT !.team = {w}]), row)
       /\ \A d \in Exact \cup Folded :
            \/ row.plain[d] = Empty \/ Padded(row.plain[d]) \/ Crowded({r.plain[d] : r \in Rows})
            \/ \E w \in OfferedPlain(d) : ListsCall(own([AllCalls EXCEPT !.plain[d] = {w}]), row)

\* The bytes a header asks for, of a file of this size.
Asked(h, size) ==
  IF h = Blank THEN 0..(size - 1)
  ELSE {b \in 0..(size - 1) :
          IF h.first = Blank THEN h.last # Blank /\ b >= size - h.last
          ELSE b >= h.first /\ (h.last = Blank \/ b <= h.last)}

\* A reply of a recording (views.py:1375-1440) holds exactly the bytes that were asked
\* for, of one version of the file and as many as its Content-Length says, and is
\* refused only when there are none.  A download that replaces the file between the
\* reading of its size and its opening is the exception: a range is then never longer
\* than announced, but it may be shorter, and a whole file has its new length.
ServedAsAnnounced ==
  stream.step = "done" =>
    LET served == stream.start..(stream.start + stream.sent - 1) IN
    IF stream.status = 416 THEN Asked(stream.asked, stream.size) = {}
    ELSE /\ served \subseteq 0..(stream.of.size - 1)
         /\ stream.status = 206 => stream.sent <= stream.length
         /\ replaced \/ (served = Asked(stream.asked, stream.size) /\ stream.sent = stream.length)
=============================================================================
