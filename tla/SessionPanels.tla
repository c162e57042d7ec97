---------------------------- MODULE SessionPanels ----------------------------
(***************************************************************************)
(* The two panels that show the sessions: AgentSessionList, with the list  *)
(* that AgentChatProvider keeps of its own (web/src/AgentChatProvider.tsx, *)
(* components/AgentSessionList.tsx), and the drawer with the hook's list   *)
(* and a search (components/ChatHistoryDrawer.tsx), which an application   *)
(* places and wires.  An application has one of them.                      *)
(*                                                                         *)
(* A text of the search field is a number, in the order typed; a text of   *)
(* less than two characters is not searched for.  Left out: the filter by  *)
(* user, colours, icons, the wording of labels.                            *)
(***************************************************************************)
EXTENDS SessionList

CONSTANT MaxTyped    \* bound: texts of the search field

VARIABLES
  panel,           \* "list" or "drawer"
  sessions,        \* the provider's list
  destroyed,       \* the sessions destroyed by a delete
  typed,           \* how many texts so far
  long,            \* those of two characters or more
  searchQuery,     \* the text of the field
  searchTimers,    \* the timers that run: the text each will search for
  searchTimerRef,  \* the one remembered, 0 for none
  searches,        \* searches under way
  searchResults    \* the text whose results the drawer has, and whether there are any

listPanel == <<sessions, destroyed>>
field == <<typed, long, searchQuery>>
searchVars == <<field, searchTimers, searchTimerRef, searches, searchResults>>
panelVars == <<panel, listPanel, searchVars>>

PanelInit ==
  /\ Init
  /\ panel \in {"list", "drawer"}
  /\ sessions = <<>> /\ destroyed = {}
  /\ typed = 0 /\ long = {} /\ searchQuery = 0
  /\ searchTimers = {} /\ searchTimerRef = 0 /\ searches = {}
  /\ searchResults = [of |-> 0, some |-> FALSE]

----------------------------------------------------------------------------
(* AgentSessionList and the provider.                                      *)

\* The first render of the component refreshes the list, once; each time it is
\* mounted there is a first one.
Mount ==
  /\ panel = "list"
  /\ Ask(Call("refresh", NoSession))
  /\ UNCHANGED <<pollVars, opened, panelVars>>

\* The handler ListSessions again, for its list of up to 50.
ServeRefresh(c) ==
  /\ c.op = "refresh" /\ ~c.served
  /\ calls' = (calls \ {c}) \cup
       {[c EXCEPT !.served = TRUE,
                  !.page = [i \in DOMAIN hosted |-> Row(hosted[i], "listed")]]}
  /\ uiUnchanged /\ UNCHANGED <<host, began, ghosts, panelVars>>

\* The provider reads an array: an answer that is none leaves an empty list, a
\* failure the list as it was.
Refreshed(c) ==
  /\ c.op = "refresh"
  /\ calls' = calls \ {c}
  /\ sessions' = IF ~c.served THEN sessions
                 ELSE IF wrapped THEN <<>>
                 ELSE [i \in DOMAIN c.page |-> c.page[i].id]
  /\ UNCHANGED <<host, pollVars, listVars, lastNotified, polls, opened, began, asked, ghosts,
                 panel, destroyed, searchVars>>

select(s) ==
  /\ panel = "list" /\ s \in ToSet(sessions)
  /\ Resume(s)
  /\ UNCHANGED panelVars

deleteSessionItem(s) ==
  /\ panel = "list" /\ s \in ToSet(sessions)
  /\ Ask(Call("delete", s))
  /\ UNCHANGED <<pollVars, opened, panelVars>>

\* The handler DeleteSession: the instance is destroyed, and nothing else.  The row
\* stays in the host's table, and a refresh lists it again.
Destroy(c) ==
  /\ c.op = "delete" /\ ~c.served
  /\ inst' = [inst EXCEPT ![c.s] = "destroyed"]
  /\ destroyed' = destroyed \cup {c.s}
  /\ calls' = (calls \ {c}) \cup {[c EXCEPT !.served = TRUE]}
  /\ uiUnchanged
  /\ UNCHANGED <<op, hosted, creating, wrapped, began, ghosts, panel, sessions, searchVars>>

\* Whatever status the host answers, the item goes; if the request fails, it stays.
Deleted(c) ==
  /\ c.op = "delete"
  /\ calls' = calls \ {c}
  /\ \/ c.served /\ sessions' \in Filter(sessions, {i \in DOMAIN sessions : sessions[i] # c.s})
     \/ UNCHANGED sessions
  /\ UNCHANGED <<host, pollVars, listVars, lastNotified, polls, opened, began, asked, ghosts,
                 panel, destroyed, searchVars>>

\* An operation whose instance a delete destroyed ends as it would have.
EndsDestroyed(s) ==
  /\ Active(op[s]) /\ s \in destroyed
  /\ op' = [op EXCEPT ![s].phase = "done", ![s].seen = FALSE]
  /\ creating' = creating \ {s}
  /\ uiUnchanged /\ UNCHANGED <<inst, hosted, wrapped, calls, began, ghosts, panelVars>>

----------------------------------------------------------------------------
(* The drawer's search.                                                    *)

\* What the drawer shows under the field: the results if there are any, whatever the
\* field has by now; that there are none, if the field has a text; or the sessions.
Mode ==
  IF searchResults.of # 0 /\ searchResults.some THEN "results"
  ELSE IF searchResults.of # 0 /\ searchQuery # 0 THEN "nothing"
  ELSE "sessions"

inputKeepsTimer ==           \* mutant: clearTimeout is missing
  /\ panel = "drawer" /\ typed < MaxTyped
  /\ typed' = typed + 1
  /\ \/ /\ searchQuery' = typed' /\ long' = long \cup {typed'}
        /\ searchTimers' = searchTimers \cup {typed'}
        /\ searchTimerRef' = typed'
     \/ /\ searchQuery' \in {0, typed'} /\ UNCHANGED long
        /\ UNCHANGED <<searchTimers, searchTimerRef>>
  /\ UNCHANGED <<vars, panel, listPanel, searches, searchResults>>

\* Each key restarts the timer of 300 ms, or, for a short or empty text, stops it.
handleSearchInput ==
  /\ panel = "drawer" /\ typed < MaxTyped
  /\ typed' = typed + 1
  /\ \/ /\ searchQuery' = typed' /\ long' = long \cup {typed'}
        /\ searchTimers' = (searchTimers \ {searchTimerRef}) \cup {typed'}
        /\ searchTimerRef' = typed'
     \/ /\ searchQuery' \in {0, typed'} /\ UNCHANGED long
        /\ searchTimers' = searchTimers \ {searchTimerRef}
        /\ UNCHANGED searchTimerRef
  /\ UNCHANGED <<vars, panel, listPanel, searches, searchResults>>

\* onSearchSubmit, by the application: the hook's searchSessions (or the provider's
\* search), whose results it gives the drawer.
Search(q) == searches' = searches \cup {[of |-> q, served |-> FALSE]}

SearchTimer(q) ==
  /\ q \in searchTimers
  /\ searchTimers' = searchTimers \ {q}
  /\ Search(q)
  /\ UNCHANGED <<vars, panel, listPanel, field, searchTimerRef, searchResults>>

\* Enter searches at once, for a text of one character too (the host finds nothing).
handleSearchKeyDown ==
  /\ panel = "drawer" /\ searchQuery # 0
  /\ asked < MaxUserOps /\ asked' = asked + 1
  /\ searchTimers' = searchTimers \ {searchTimerRef}
  /\ Search(searchQuery)
  /\ UNCHANGED <<host, pollVars, listVars, lastNotified, polls, calls, opened, began, ghosts,
                 panel, listPanel, field, searchTimerRef, searchResults>>

\* The results, of messages; none if the request failed.  Answers come in any order,
\* and the last to come is shown.
searchSessions(x) ==
  /\ searches' = searches \ {x}
  /\ \E some \in {x.of \in long, FALSE} : searchResults' = [of |-> x.of, some |-> some]
  /\ UNCHANGED <<vars, panel, listPanel, field, searchTimers, searchTimerRef>>

\* A result is of any session that has a message.
SelectResult(s) ==
  /\ panel = "drawer" /\ Mode = "results" /\ s \in ToSet(hosted)
  /\ Resume(s)
  /\ UNCHANGED panelVars

----------------------------------------------------------------------------

\* The button for more is part of the list, which the results replace.
DrawerList ==
  /\ panel = "drawer"
  /\ \/ listSessions
     \/ Mode = "sessions" /\ (loadMoreSessions \/ \E s \in Sessions : resumeSession(s))

Hook == Host \/ createSession \/ clearSession \/ Answers \/ Polls \/ Tick
        \/ \E i \in DOMAIN polls : Fail(i)

List ==
  \/ Mount \/ \E s \in Sessions : select(s) \/ deleteSessionItem(s) \/ EndsDestroyed(s)
  \/ \E c \in calls : ServeRefresh(c) \/ Refreshed(c) \/ Destroy(c) \/ Deleted(c)

Drawer ==
  \/ handleSearchInput \/ handleSearchKeyDown
  \/ \E q \in searchTimers : SearchTimer(q)
  \/ \E x \in searches : searchSessions(x)
  \/ \E s \in Sessions : SelectResult(s)

PanelNext ==
  \/ (Hook \/ DrawerList) /\ UNCHANGED panelVars
  \/ List
  \/ Drawer

PanelSpec == PanelInit /\ [][PanelNext]_<<vars, panelVars>>

----------------------------------------------------------------------------
(* Properties.                                                             *)

(***************************************************************************)
(* A search by the timer is for the text that the field has when the timer *)
(* fires: of the texts typed meanwhile none is searched for, and a field   *)
(* that was emptied searches for nothing.                                  *)
(***************************************************************************)
SearchesWanted ==
  [][\A q \in searchTimers : SearchTimer(q) => q = searchQuery]_<<vars, panelVars>>
=============================================================================
