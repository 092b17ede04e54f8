------------------------------- MODULE Browsing -------------------------------
(***************************************************************************)
(* A list of the web browser and the service behind it: the hook that      *)
(* keeps search, query and page tokens of a list (use-browser.ts), and     *)
(* the List methods of the service, which cut pages of any size out of     *)
(* the reader's pages (web_service.py, web_query.py).                      *)
(*                                                                         *)
(* Rows are numbers, listed upwards, or downwards by relevance.  Filters   *)
(* other than the search are left out: in a query they are one more part   *)
(* that tokens are bound to, like order_by.  The table may change between  *)
(* any two reads of a request.                                             *)
(***************************************************************************)
EXTENDS Naturals, Sequences, SequencesExt, FiniteSets

CONSTANTS
  Tables,          \* sets of rows the table may have
  NoSearch,
  Searches,        \* what may be typed into the search box
  MatchesOf,       \* the rows each of them finds
  PageSizes,       \* PAGE_SIZES, of which the first is the default
  ReaderPageSize,  \* READER_PAGE_SIZE
  OldOffsets,      \* of tokens in addresses from elsewhere (a bound)
  MaxRemembered,   \* tokens remembered to go back (a bound)
  MaxEdits,        \* changes of the table (a bound)
  NoToken,
  Unread           \* not read yet

ASSUME BrowsingAssumption ==
  /\ NoSearch \in Searches /\ MatchesOf \in [Searches -> SUBSET Nat]
  /\ \A T \in Tables : T \subseteq Nat /\ IsFiniteSet(T)
  /\ OldOffsets \subseteq Nat
  /\ ReaderPageSize \in Nat \ {0}
  \* A page of the list never needs more than two of the reader's.
  /\ \A n \in DOMAIN PageSizes : PageSizes[n] \in 1..ReaderPageSize

VARIABLES
  (* the service                                                           *)
  list,            \* the list of the browser, and how the service reads it
  stored,          \* the rows of the table
  edits,           \* how often they changed
  calls,           \* requests under way
  (* useBrowser                                                            *)
  typed,           \* search
  debouncing,      \* the timer of the search box
  query,
  previousTokens,
  result,          \* its token, and whether it answers the query it came under
  loading, error

served == <<list, stored, edits, calls>>
hook == <<typed, debouncing, query, previousTokens, result, loading, error>>
browsingVars == <<served, hook>>

Orders == {"default", "relevance"}

(* What a token is bound to: its collection, filter and order.             *)
Fingerprint(q) == <<q.search, q.order>>

OldToken == [request : Searches \X Orders, offset : OldOffsets]

Address ==
  [search : Searches, order : Orders, size : Range(PageSizes), token : OldToken \cup {NoToken}]

(* How a list is read: a window of the reader's pages, page after page to  *)
(* the end, or all at once; whether the reader cuts its pages from rows in *)
(* memory or fetches them; which way they go without an order_by; and      *)
(* whether the service looks them up again to fill in its answer.          *)
ListVoices == [read |-> "window", rows |-> "memory", upwards |-> FALSE, resolved |-> TRUE]
ListCharacters == [read |-> "window", rows |-> "memory", upwards |-> FALSE, resolved |-> TRUE]
ListDialogues == [read |-> "window", rows |-> "memory", upwards |-> FALSE, resolved |-> TRUE]
ListDialogueLines == [read |-> "window", rows |-> "table", upwards |-> FALSE, resolved |-> FALSE]
ListCharacterSounds == [read |-> "window", rows |-> "table", upwards |-> FALSE, resolved |-> FALSE]
ListDialogueTransitions == [read |-> "window", rows |-> "table", upwards |-> FALSE, resolved |-> FALSE]
ListRaces == [read |-> "window", rows |-> "memory", upwards |-> TRUE, resolved |-> FALSE]
ListKits == [read |-> "window", rows |-> "memory", upwards |-> TRUE, resolved |-> FALSE]
ListReadableItems == [read |-> "window", rows |-> "table", upwards |-> TRUE, resolved |-> FALSE]
ListCharacterClasses == [read |-> "pages", rows |-> "memory", upwards |-> TRUE, resolved |-> FALSE]
ListExtractionRuns == [read |-> "whole", rows |-> "table", upwards |-> FALSE, resolved |-> FALSE]

(* By display name, which no column holds, or by a column.                 *)
ListIdentifierDefinitions(displayOrder) ==
  [read |-> IF displayOrder THEN "pages" ELSE "window", rows |-> "table",
   upwards |-> TRUE, resolved |-> FALSE]

Lists ==
  {ListVoices, ListCharacters, ListDialogues, ListDialogueLines, ListCharacterSounds,
   ListDialogueTransitions, ListRaces, ListKits, ListReadableItems, ListCharacterClasses,
   ListExtractionRuns} \cup {ListIdentifierDefinitions(d) : d \in BOOLEAN}

(* An empty order_by is by relevance if there is something to match.       *)
Ranked(q) == q.order = "relevance" /\ (q.search # NoSearch \/ ~list.upwards)

(* Each row after those that are listed before it.                         *)
InOrder(rows, ranked) ==
  LET before(m) == {n \in rows : IF ranked THEN n > m ELSE n < m}
  IN [i \in 1..Cardinality(rows) |-> CHOOSE m \in rows : Cardinality(before(m)) = i - 1]

Listed(q) == InOrder(stored \cap MatchesOf[q.search], Ranked(q))

Lesser(m, n) == IF m < n THEN m ELSE n

Cut(seq, offset, size) == SubSeq(seq, offset + 1, Lesser(offset + size, Len(seq)))

-----------------------------------------------------------------------------
(* The service                                                             *)

(* decode_page_token, without and with the check of the fingerprint        *)
DecodesAny(q) == TRUE

Decodes(q) == q.token \in {NoToken} \cup [request : {Fingerprint(q)}, offset : Nat]

Offset(q) == IF q.token = NoToken THEN 0 ELSE q.token.offset

(* next_token                                                              *)
NextToken(q, returned, total) ==
  LET next == Offset(q) + returned
  IN IF returned = 0 \/ next >= total THEN NoToken
     ELSE [request |-> Fingerprint(q), offset |-> next]

Called(q) == [query |-> q, page |-> 0, total |-> Unread, first |-> Unread, rows |-> <<>>,
              resolved |-> ~list.resolved, untouched |-> TRUE]

Progress(c, d) == calls' = (calls \ {c}) \cup {d}

FirstPage(c) == IF list.read = "pages" THEN 1 ELSE (Offset(c.query) \div ReaderPageSize) + 1

PageNumber(c) == IF c.page = 0 THEN FirstPage(c) ELSE c.page

PageItems(c) == Cut(Listed(c.query), (PageNumber(c) - 1) * ReaderPageSize, ReaderPageSize)

(* A page of rows in memory comes with its total; one that is fetched has  *)
(* its rows counted before, or after.  A second page's total is not used.  *)
MemoryPage(c) ==
  /\ list.read # "whole" /\ list.rows = "memory" /\ c.first = Unread /\ Decodes(c.query)
  /\ Progress(c, [c EXCEPT !.page = PageNumber(c), !.first = PageItems(c),
                           !.total = IF @ = Unread THEN Len(Listed(c.query)) ELSE @])
  /\ UNCHANGED <<list, stored, edits, hook>>

CountRows(c) ==
  /\ list.read # "whole" /\ list.rows = "table" /\ c.total = Unread /\ Decodes(c.query)
  /\ Progress(c, [c EXCEPT !.total = Len(Listed(c.query))])
  /\ UNCHANGED <<list, stored, edits, hook>>

FetchPage(c) ==
  /\ list.read # "whole" /\ list.rows = "table" /\ c.first = Unread /\ Decodes(c.query)
  /\ Progress(c, [c EXCEPT !.page = PageNumber(c), !.first = PageItems(c)])
  /\ UNCHANGED <<list, stored, edits, hook>>

FetchWhole(c) ==
  /\ list.read = "whole" /\ c.first = Unread /\ Decodes(c.query)
  /\ Progress(c, [c EXCEPT !.first = Listed(c.query), !.total = Len(Listed(c.query))])
  /\ UNCHANGED <<list, stored, edits, hook>>

Loaded(c) == c.total # Unread /\ c.first # Unread

(* read_window: the rows of the first page, and whether it asks for another *)
InPage(c) == Cut(c.first, Offset(c.query) % ReaderPageSize, c.query.size)

NeedsAnother(c) ==
  LET n == Len(InPage(c)) IN n < c.query.size /\ Offset(c.query) + n < c.total

SecondPage(c) ==
  /\ list.read = "window" /\ Loaded(c) /\ c.page = FirstPage(c) /\ NeedsAnother(c)
  /\ Progress(c, [c EXCEPT !.page = c.page + 1, !.rows = InPage(c), !.first = Unread])
  /\ UNCHANGED <<list, stored, edits, hook>>

WindowRows(c) ==
  IF c.page = FirstPage(c) THEN InPage(c)
  ELSE c.rows \o Cut(c.first, 0, c.query.size - Len(c.rows))

(* all_rows: page after page, until one of them says that there are no more *)
AllRead(c) == c.page * ReaderPageSize >= c.total

AnotherPage(c) ==
  /\ list.read = "pages" /\ Loaded(c) /\ ~AllRead(c)
  /\ Progress(c, [c EXCEPT !.page = c.page + 1, !.rows = c.rows \o c.first,
                           !.first = Unread, !.total = Unread])
  /\ UNCHANGED <<list, stored, edits, hook>>

(* Everything is there.                                                    *)
AllLoaded(c) ==
  /\ Loaded(c)
  /\ CASE list.read = "window" -> c.page # FirstPage(c) \/ ~NeedsAnother(c)
       [] list.read = "pages" -> AllRead(c)
       [] list.read = "whole" -> TRUE

WindowReply(c) ==
  LET rows == WindowRows(c)
  IN [rows |-> rows, next |-> NextToken(c.query, Len(rows), c.total), total |-> c.total]

WholeReply(c) ==
  LET all == c.rows \o c.first
      rows == Cut(all, Offset(c.query), c.query.size)
  IN [rows |-> rows, next |-> NextToken(c.query, Len(rows), Len(all)), total |-> Len(all)]

Reply(c) == IF list.read = "window" THEN WindowReply(c) ELSE WholeReply(c)

(* records[row.resource_name]: a row that is gone fails the call.          *)
ResolveRows(c) ==
  /\ AllLoaded(c) /\ ~c.resolved
  /\ Range(Reply(c).rows) \subseteq stored
  /\ Progress(c, [c EXCEPT !.resolved = TRUE])
  /\ UNCHANGED <<list, stored, edits, hook>>

Replied(c) == AllLoaded(c) /\ c.resolved

(* A command writes to the table.                                          *)
EditTable ==
  /\ edits < MaxEdits
  /\ stored' \in Tables \ {stored}
  /\ edits' = edits + 1
  /\ calls' = {[c EXCEPT !.untouched = FALSE] : c \in calls}
  /\ UNCHANGED <<list, hook>>

-----------------------------------------------------------------------------
(* useBrowser                                                              *)

(* The effect of another query: the request for the last one is aborted,   *)
(* or forgotten only.                                                      *)
NotAborted == calls

StillWanted == {}

Load(q) ==
  /\ query' = q
  /\ calls' = StillWanted \cup {Called(q)}
  /\ loading' = TRUE
  /\ UNCHANGED <<list, stored, edits, result, error>>

Type(text) ==
  /\ text # typed
  /\ typed' = text /\ debouncing' = TRUE
  /\ UNCHANGED <<served, query, previousTokens, result, loading, error>>

(* applySearch, 250 ms after the search box changed, or appeared           *)
SearchedOrder(text) ==
  IF text = NoSearch /\ query.order = "relevance" THEN "default"
  ELSE IF query.search = NoSearch /\ query.order = "default" THEN "relevance"
  ELSE query.order

ApplySearch ==
  /\ debouncing /\ debouncing' = FALSE
  /\ previousTokens' = <<>>
  /\ IF typed = query.search THEN UNCHANGED <<served, query, result, loading, error>>
     ELSE Load([query EXCEPT !.search = typed, !.order = SearchedOrder(typed), !.token = NoToken])
  /\ UNCHANGED typed

(* updateQuery: filters, orders and page sizes start again at the top      *)
SetOrder(order) ==
  /\ previousTokens' = <<>>
  /\ Load([query EXCEPT !.order = order, !.token = NoToken])
  /\ UNCHANGED <<typed, debouncing>>

SetPageSize(size) ==
  /\ ~loading
  /\ previousTokens' = <<>>
  /\ Load([query EXCEPT !.size = size, !.token = NoToken])
  /\ UNCHANGED <<typed, debouncing>>

ResetQuery ==
  /\ typed' = NoSearch
  /\ debouncing' = (debouncing \/ typed # NoSearch)
  /\ previousTokens' = <<>>
  /\ Load([query EXCEPT !.search = NoSearch, !.order = "default", !.token = NoToken])

(* The buttons are disabled while the list is loading.                     *)
NextPage ==
  /\ ~loading /\ result.next # NoToken
  /\ Len(previousTokens) < MaxRemembered
  /\ previousTokens' = Append(previousTokens, query.token)
  /\ Load([query EXCEPT !.token = result.next])
  /\ UNCHANGED <<typed, debouncing>>

PreviousPage ==
  /\ ~loading /\ previousTokens # <<>>
  /\ previousTokens' = Front(previousTokens)
  /\ Load([query EXCEPT !.token = Last(previousTokens)])
  /\ UNCHANGED <<typed, debouncing>>

(* Another address of the list: its token is one the service once issued.  *)
Restore(q) ==
  /\ q # query /\ Decodes(q)
  /\ typed' = q.search
  /\ debouncing' = (debouncing \/ typed # q.search)
  /\ previousTokens' = <<>>
  /\ Load(q)

(* setResult; an aborted request never gets here                           *)
Receive(c) ==
  /\ Replied(c)
  /\ result' = [next |-> Reply(c).next, answers |-> c.query = query]
  /\ error' = FALSE
  /\ loading' = (loading /\ c.query # query)
  /\ calls' = calls \ {c}
  /\ UNCHANGED <<list, stored, edits, typed, debouncing, query, previousTokens>>

(* The token is refused, or the call fails: what was shown stays.          *)
Fails(c) ==
  /\ error' = TRUE
  /\ loading' = (loading /\ c.query # query)
  /\ calls' = calls \ {c}
  /\ UNCHANGED <<list, stored, edits, typed, debouncing, query, previousTokens, result>>

-----------------------------------------------------------------------------
ServiceStep(c) ==
  \/ MemoryPage(c) \/ CountRows(c) \/ FetchPage(c) \/ FetchWhole(c) \/ SecondPage(c) \/ AnotherPage(c)
  \/ ResolveRows(c) \/ Receive(c) \/ Fails(c)

UserStep ==
  \/ ApplySearch \/ ResetQuery \/ NextPage \/ PreviousPage
  \/ \E text \in Searches : Type(text)
  \/ \E order \in Orders : SetOrder(order)
  \/ \E n \in DOMAIN PageSizes : SetPageSize(PageSizes[n])
  \/ \E q \in Address : Restore(q)

BrowsingNext == (\E c \in calls : ServiceStep(c)) \/ UserStep \/ EditTable

(* The page opens with the query of its address.                           *)
Opened(q) ==
  /\ Decodes(q)
  /\ query = q /\ typed = q.search /\ debouncing = TRUE /\ previousTokens = <<>>
  /\ calls = {Called(q)} /\ loading = TRUE /\ error = FALSE
  /\ result = [next |-> NoToken, answers |-> FALSE]
  /\ edits = 0

BrowsingInit == list \in Lists /\ stored \in Tables /\ \E q \in Address : Opened(q)

BrowsingSpec == BrowsingInit /\ [][BrowsingNext]_browsingVars

-----------------------------------------------------------------------------
(* What is shown, when nothing is loading and no error is shown, answers   *)
(* the query in the address: no answer to an earlier one, however late it  *)
(* comes, replaces it (the abort of useBrowser's effect).                  *)
ShownAnswersQuery == ~loading /\ ~error => result.answers

(* The answer to a call is the window of the list that its query and token *)
(* ask for, neither more nor less, and its token continues right after it  *)
(* or says that it is the end, so that going on from the start shows each  *)
(* row once: if the table did not change meanwhile.  That holds also after *)
(* a load failed, when the button still offers the token of what was shown *)
(* before, under a query it was not issued for (decode_page_token,         *)
(* read_window, all_rows, next_token).                                     *)
PageIsWindow ==
  \A c \in calls : Replied(c) /\ c.untouched =>
    LET all == Listed(c.query)
        reply == Reply(c)
        end == Offset(c.query) + Len(reply.rows)
    IN /\ c.query.token # NoToken => c.query.token.request = Fingerprint(c.query)
       /\ reply.rows = Cut(all, Offset(c.query), c.query.size)
       /\ reply.total = Len(all)
       /\ IF reply.rows = <<>> \/ end = Len(all) THEN reply.next = NoToken
          ELSE reply.next = [request |-> Fingerprint(c.query), offset |-> end]
=============================================================================
