------------------------------- MODULE GitHub --------------------------------
(* The github module and its source (modules/github.rs, sources/github.rs): *)
(* its stream looks for a token, then asks for the unread notifications     *)
(* page by page, only if they were modified, asks of each review request    *)
(* whether its pull request is still open, and lists the user's own; the    *)
(* popup's rows take a notification off the list and tell GitHub in the     *)
(* background.                                                              *)
EXTENDS Integers, FiniteSets, SequencesExt

CONSTANTS
  Threads,     \* notification threads, one to a page
  Reviews,     \* of these, the review requests, whose pull requests may close
  Muted,       \* of these, what the configured reasons and repositories leave out
  MaxChanges,  \* bound: changes at GitHub
  MaxFaults,   \* bound: requests that fail
  NONE

VARIABLES
  inbox, closed,       \* GitHub: unread threads, newest first; closed pull requests
  mine,                \* GitHub: the user's open pull requests, as a number that changes
  changes,             \* GitHub: how often the inbox changed, its Last-Modified
  setUp, faults,
  stage,               \* of the stream
  last_modified, page, all,
  fetched,             \* what the fetch returned, until the module has it
  token, data, notif_error, prs, prs_error, display_text,
  marks,               \* requests to mark a thread, or "all", as read
  lost                 \* history: the list lags behind though GitHub says "not modified"

github == <<inbox, closed, mine, changes>>
fetching == <<last_modified, page, all, fetched>>
module == <<token, data, notif_error, prs, prs_error, display_text>>
vars == <<github, setUp, faults, stage, fetching, module, marks, lost>>

Init ==
  /\ inbox = <<>> /\ closed = {} /\ mine = 0 /\ changes = 0
  /\ setUp \in BOOLEAN /\ faults = 0
  /\ stage = "token"
  /\ last_modified = NONE /\ page = 1 /\ all = <<>> /\ fetched = NONE
  /\ token = FALSE /\ data = <<>> /\ notif_error = FALSE
  /\ prs = NONE /\ prs_error = FALSE /\ display_text = "..."
  /\ marks = {} /\ lost = FALSE

-----------------------------------------------------------------------------
(* GitHub. *)
Modify(seq) == inbox' = seq /\ changes' = changes + 1
Arrive(n) ==
  /\ changes < MaxChanges /\ ~Contains(inbox, n) /\ n \notin closed
  /\ Modify(<<n>> \o inbox)
  /\ UNCHANGED <<closed, mine, setUp, faults, stage, fetching, module, marks, lost>>

(* A pull request is merged or closed, which is no news to the inbox. *)
Close(n) ==
  /\ n \in Reviews \ closed /\ closed' = closed \cup {n}
  /\ UNCHANGED <<inbox, mine, changes, setUp, faults, stage, fetching, module, marks, lost>>

OwnChanges ==
  /\ mine < 1 /\ mine' = mine + 1
  /\ UNCHANGED <<inbox, closed, changes, setUp, faults, stage, fetching, module, marks, lost>>

SetUp ==
  /\ ~setUp /\ setUp' = TRUE
  /\ UNCHANGED <<github, faults, stage, fetching, module, marks, lost>>

-----------------------------------------------------------------------------
(* The stream: a token, or another try in a minute; then fetch after fetch. *)
FindToken ==
  /\ stage = "token"
  /\ token' = setUp
  /\ display_text' = IF ~setUp THEN "?" ELSE IF display_text = "?" THEN "..." ELSE display_text
  /\ stage' = IF setUp THEN "fetch" ELSE "token"
  /\ UNCHANGED <<github, setUp, faults, fetching, data, notif_error, prs, prs_error, marks, lost>>

(* Only the first page's request is conditional, and only its answer moves   *)
(* the date for the next. Faulty variant: any page's does.                   *)
Dated_Any(p) == TRUE
Dated(p) == p = 1

NotModified == page = 1 /\ last_modified = changes

FetchPage ==
  /\ stage = "fetch" /\ fetched = NONE
  /\ IF NotModified
       THEN fetched' = [is |-> "not_modified", list |-> <<>>] /\ UNCHANGED <<last_modified, page, all>> /\ stage' = "prs"
       ELSE /\ last_modified' = IF Dated(page) THEN changes ELSE last_modified
            /\ all' = IF page <= Len(inbox) THEN Append(all, inbox[page]) ELSE all
            /\ page' = page + 1
            /\ stage' = IF page < Len(inbox) THEN "fetch" ELSE "prune"
            /\ UNCHANGED fetched
  /\ UNCHANGED <<github, setUp, faults, module, marks, lost>>

(* A request fails, or its answer is no success or no JSON: the first page's *)
(* answer may have moved the date already.                                   *)
FetchFails ==
  /\ stage = "fetch" /\ faults < MaxFaults /\ faults' = faults + 1
  /\ \E dated \in {FALSE} \cup (IF NotModified THEN {} ELSE {Dated(page)}) :
       /\ last_modified' = IF dated THEN changes ELSE last_modified
       /\ lost' = (lost \/ dated \/ page > 1)
  /\ fetched' = [is |-> "error", list |-> <<>>] /\ stage' = "prs"
  /\ UNCHANGED <<github, setUp, page, all, module, marks>>

Filter(seq) == SelectSeq(seq, LAMBDA n : n \notin Muted)

(* prune_merged_prs: a check that fails keeps its thread. *)
Prune ==
  /\ stage = "prune" /\ stage' = "prs"
  /\ \E unknown \in SUBSET (IF faults < MaxFaults THEN closed ELSE {}) :
       /\ faults' = faults + Cardinality(unknown)
       /\ fetched' = [is |-> "data",
                      list |-> Filter(SelectSeq(all, LAMBDA n : n \notin closed \ unknown))]
  /\ UNCHANGED <<github, setUp, last_modified, page, all, module, marks, lost>>

(* Msg::Notifications, then the search for the user's own (Msg::Prs). *)
Notifications ==
  /\ stage = "prs" /\ fetched # NONE
  /\ notif_error' = (fetched.is = "error")
  /\ data' = IF fetched.is = "data" THEN fetched.list ELSE data
  /\ display_text' = CASE fetched.is = "data" -> ToString(Len(data'))
                       [] fetched.is = "error" /\ display_text = "..." -> "!"
                       [] OTHER -> display_text
  /\ lost' = (lost /\ fetched.is # "data")
  /\ fetched' = NONE /\ page' = 1 /\ all' = <<>>
  /\ UNCHANGED <<github, setUp, faults, stage, last_modified, token, prs, prs_error, marks>>

Prs(list, error) == prs' = list /\ prs_error' = error

SearchPrs ==
  /\ stage = "prs" /\ fetched = NONE /\ stage' = "fetch"
  /\ \/ Prs(mine, FALSE) /\ UNCHANGED faults
     \/ faults < MaxFaults /\ faults' = faults + 1 /\ Prs(prs, TRUE)
  /\ UNCHANGED <<github, setUp, fetching, token, data, notif_error, display_text, marks, lost>>

Stream == FindToken \/ FetchPage \/ Prune \/ Notifications \/ SearchPrs

-----------------------------------------------------------------------------
(* What the bar and the popup show: instructions, or the rows (ten of each    *)
(* known reason), a word on why there are none, and the user's own.          *)
Label == display_text
Popup == [set_up |-> token, rows |-> data, prs |-> prs, prs_note |-> prs_error,
          note |-> IF notif_error THEN "error" ELSE IF data = <<>> THEN "none" ELSE ""]

(* A click on a row (Open, MarkRead) or on "clear all" (MarkAll): gone from  *)
(* the list at once, told to GitHub by a task whose answer nobody reads.     *)
TakeOff(n) ==
  /\ data' = SelectSeq(data, LAMBDA m : m # n)
  /\ display_text' = ToString(Len(data'))

Clickable(n) == Contains(Popup.rows, n)
MarkRead(n) ==
  /\ Clickable(n) /\ TakeOff(n)
  /\ marks' = marks \cup {n}
  /\ UNCHANGED <<github, setUp, faults, stage, fetching, token, notif_error, prs, prs_error, lost>>

MarkAll ==
  /\ token /\ data # <<>>
  /\ data' = <<>> /\ display_text' = "0"
  /\ marks' = marks \cup {"all"}
  /\ UNCHANGED <<github, setUp, faults, stage, fetching, token, notif_error, prs, prs_error, lost>>

Read(m) == IF m = "all" THEN Threads ELSE {m}
Marked(m) ==
  /\ m \in marks /\ marks' = marks \ {m}
  /\ \/ /\ \E i \in DOMAIN inbox : inbox[i] \in Read(m)
        /\ Modify(SelectSeq(inbox, LAMBDA n : n \notin Read(m)))
        /\ UNCHANGED <<faults, lost>>
     \/ /\ \A i \in DOMAIN inbox : inbox[i] \notin Read(m)
        /\ UNCHANGED <<inbox, changes, faults, lost>>
     \/ /\ faults < MaxFaults /\ faults' = faults + 1 /\ lost' = TRUE
        /\ UNCHANGED <<inbox, changes>>
  /\ UNCHANGED <<closed, mine, setUp, stage, fetching, module>>

Next ==
  \/ \E n \in Threads : Arrive(n) \/ Close(n) \/ MarkRead(n)
  \/ OwnChanges \/ SetUp \/ Stream \/ FetchFails \/ MarkAll
  \/ \E m \in marks : Marked(m)

(* The stream runs, and so do the tasks; GitHub is set up some day. *)
Spec ==
  /\ Init /\ [][Next]_vars
  /\ WF_vars(Stream) /\ WF_vars(SetUp)
  /\ \A m \in Threads \cup {"all"} : WF_vars(Marked(m))

-----------------------------------------------------------------------------
Wanted == {n \in ToSet(inbox) : n \notin Muted}
Current ==
  /\ Wanted \ closed \subseteq ToSet(Popup.rows) /\ ToSet(Popup.rows) \subseteq Wanted
  /\ IsInjective(Popup.rows) /\ Label = ToString(Len(Popup.rows))

(* The list, and the number in the bar, come to be GitHub's, each thread     *)
(* once, whatever moves between pages while they are fetched and whatever is *)
(* clicked meanwhile; and so do the user's own pull requests. What a failure *)
(* took is not counted (next property).                                      *)
InboxFollows ==
  <>[](/\ Popup.set_up /\ Popup.note # "error" /\ Popup.prs = mine /\ ~Popup.prs_note
       /\ lost \/ Current)

(* "Result of a fetch: either fresh data, or NotModified"                    *)
(* (sources/github.rs:202): when GitHub has not changed since it was asked   *)
(* last and no mark is under way, the rows hold every thread that is wanted. *)
NotModifiedIsShown ==
  [][(fetched # NONE /\ fetched.is = "not_modified" /\ fetched' = NONE /\ last_modified = changes /\ marks = {})
       => Wanted \ closed \subseteq ToSet(data)]_vars
=============================================================================
