---------------------------- MODULE BoardClient ----------------------------
(***************************************************************************)
(* The board client in one tab: the copy of a workspace it shows and lets  *)
(* its user edit, the debounced PUT, the refresh after a change event or   *)
(* every 15 seconds, the reload after a 412, runs that answer late, the    *)
(* reset of the board, and switching workspaces.  Another device, in step  *)
(* with the server, edits the same workspaces, and another tab of the      *)
(* browser shares its localStorage.                                        *)
(*                                                                         *)
(* A tab remembers one tag for all its requests (lastETag) and one active  *)
(* workspace; every answer that arrives, of whichever workspace, sets the  *)
(* tag and changes the screen.  The server handles a PUT in one step here; *)
(* what may come between its check and its save is in WorkspaceServer.     *)
(***************************************************************************)
EXTENDS BoardContent, FiniteSets

CONSTANTS
    Home,         \* the workspace opened first
    FirstCard,    \* the card each workspace starts with
    Does,         \* what the user does in the tab
    DoneElsewhere,\* what is done on the other device and in the other tab
    Combined,     \* bound: what happens together with other events; the rest happens alone
    MaxEvents,    \* bound: events in all
    MaxFetches    \* bound: fetches in flight when another one starts

ASSUME ClientAssumption ==
    /\ Home \in Workspace /\ FirstCard \in [Workspace -> Card]
    /\ Does \subseteq EditKinds \cup {"start", "flow", "reset", "switch", "reload", "fail"}
    /\ DoneElsewhere \subseteq EditKinds \cup {"start", "switch"}
    /\ {MaxEvents, MaxFetches} \subseteq Nat

VARIABLES
    row,      \* what the server holds of each workspace; its hash is the ETag
    tab,      \* the tab
    stored,   \* localStorage floffi.activeWorkspace, shared by the tabs of a browser
    away,     \* runs the other device has asked for
    fresh,    \* IDs never used
    removed,  \* cards and columns some user removed by hand (history)
    fuel      \* what is left of the bounds

vars == <<row, tab, stored, away, fresh, removed, fuel>>

Nothing == [frame |-> "nothing"]   \* no tag, nothing persisted yet

(* A screen that shows content b of workspace w, loaded and saved once.    *)
(* base is history: the board the cards on the screen come from.           *)
Opened(w, b) ==
    [screen |-> b, active |-> w, tag |-> b, base |-> b, saved |-> b, dirty |-> FALSE,
     held |-> FALSE, ready |-> TRUE, listing |-> FALSE, gets |-> {}, puts |-> {}]

(* An event is something a user does or a request that fails.              *)
Happens(what) ==
    \/ what \in Combined /\ fuel > 0 /\ fuel' = fuel - 1
    \/ what \notin Combined /\ fuel = MaxEvents /\ fuel' = 0

(* A change of the screen; it is to be saved if the workspace is loaded.   *)
ShowUnready(t, b) == [t EXCEPT !.screen = b, !.dirty = TRUE]  \* mutant of Show
Show(t, b) == [t EXCEPT !.screen = b, !.dirty = t.ready]

Resetting(t) == \E p \in t.puts : p.kind = "reset"
Busy(t) == Cardinality(t.gets) >= MaxFetches

(* A request: what it is for, where it goes, and how far it is.            *)
Get(kind, w, c) == [kind |-> kind, ws |-> w, card |-> c, phase |-> "asked", body |-> Nothing]
Asking(t, kind, w, c) == [t EXCEPT !.gets = @ \cup {Get(kind, w, c)}]

(* torn: the tag is not that of the board the cards come from.             *)
Put(t, kind, b, c) ==
    [kind |-> kind, ws |-> t.active, card |-> c, phase |-> "sent", body |-> b,
     tag |-> IF kind = "reset" THEN Nothing ELSE t.tag,
     torn |-> t.tag # t.base, over |-> FALSE, result |-> Nothing]

---------------------------------------------------------------------------
(* Edits.  Each changes the screen at once and arms the debounce; the      *)
(* board stays editable while another workspace is being loaded.           *)

RemovedBy(b, c) == (Cards(b) \ Cards(c)) \cup (Sections(b) \ Sections(c))

Edit(kind) ==
    /\ kind \in Does
    /\ Happens(kind)
    /\ \E edited \in EditsOfKind(kind, tab.screen, fresh) :
        /\ edited # tab.screen
        /\ tab' = Show(tab, edited)
        /\ fresh' = fresh \ IdsOf(edited)
        /\ removed' = removed \cup RemovedBy(tab.screen, edited)
    /\ UNCHANGED <<row, stored, away>>

(* setTaskExecution(active): the screen at once, the server with its       *)
(* answer, which may take as long as the agent does.                       *)
Run(c) ==
    /\ "start" \in Does
    /\ c \in Live(tab.screen) /\ ~Running(tab.screen.cards[c])
    /\ ~Busy(tab)
    /\ Happens("start")
    /\ \E started \in StartTask(tab.screen, c) :
        tab' = Asking(Show(tab, started), "run", tab.active, c)
    /\ UNCHANGED <<row, stored, away, fresh, removed>>

(* createWorkflowTask: saves the new card at once, queued, with a PUT the  *)
(* debounce does not abort, and runs it when that PUT is answered; polling *)
(* rests for two minutes.                                                  *)
Launch(c) ==
    LET launched == NewFlowCard(tab.screen, c)
        queued == [launched EXCEPT !.cards[c].exec = "queued"]
    IN  /\ "flow" \in Does
        /\ c \in fresh
        /\ Happens("flow")
        /\ tab' = [Show(tab, launched) EXCEPT !.held = TRUE,
                                               !.puts = @ \cup {Put(tab, "flow", queued, c)}]
        /\ fresh' = fresh \ IdsOf(launched)
        /\ UNCHANGED <<row, stored, away, removed>>

(* resetBoard: its PUT goes out at once, to the workspace that is active   *)
(* now, and without a tag.  The bound of one reset at a time is ours.      *)
ResetBoard ==
    LET trashed == TrashAll(tab.screen)
    IN  /\ "reset" \in Does
        /\ ~Resetting(tab)
        /\ Happens("reset")
        /\ tab' = [Show(tab, trashed) EXCEPT
                        !.puts = {p \in @ : p.kind # "save"} \cup {Put(tab, "reset", trashed, Nobody)}]
        /\ removed' = removed \cup RemovedBy(tab.screen, trashed)
        /\ UNCHANGED <<row, stored, away, fresh>>

---------------------------------------------------------------------------
(* Saving.  The 250 ms debounce may end at any time.                       *)

(* A second save aborts the first; one the server has not seen by then is  *)
(* taken not to arrive any more (it would carry the same tag).             *)
Persist ==
    /\ tab.dirty /\ tab.ready /\ ~Resetting(tab)
    /\ tab' = [tab EXCEPT !.dirty = FALSE,
                           !.puts = {p \in @ : p.kind # "save"}
                                        \cup {Put(tab, "save", tab.screen, Nobody)}]
    /\ UNCHANGED <<row, stored, away, fresh, removed, fuel>>

(* Nothing is sent when nothing changed, or during a reset.  The session   *)
(* log, left out, makes a difference too, so a PUT may be sent even then.  *)
SkipPersist ==
    /\ tab.dirty
    /\ Resetting(tab) \/ tab.screen = tab.saved
    /\ tab' = [tab EXCEPT !.dirty = FALSE]
    /\ UNCHANGED <<row, stored, away, fresh, removed, fuel>>

Overtaken(puts) == {[p EXCEPT !.over = TRUE] : p \in puts}
Instead(t, p, q) == [t EXCEPT !.puts = (@ \ {p}) \cup {q}]
Without(t, p) == [t EXCEPT !.puts = @ \ {p}]

MatchesAnything(p) == TRUE  \* mutant of Matches
Matches(p) == p.kind = "reset" \/ p.tag = row[p.ws]

Saved(p) == Normalize(IF p.kind = "reset" THEN p.body ELSE MergeBoard(row[p.ws], p.body))

PutServe(p) ==
    /\ p.phase = "sent"
    /\ IF Matches(p)
       THEN /\ row' = [row EXCEPT ![p.ws] = Saved(p)]
            /\ tab' = Instead(tab, p, [p EXCEPT !.phase = "saved", !.result = Saved(p)])
       ELSE /\ tab' = Instead(tab, p, [p EXCEPT !.phase = "refused"])
            /\ UNCHANGED row
    /\ UNCHANGED <<stored, away, fresh, removed, fuel>>

(* The answer sets the tag; its body is only used after a reset.           *)
PutAnswer(p) ==
    LET t == Without(tab, p)
        tagged == [t EXCEPT !.tag = p.result, !.base = IF p.over THEN @ ELSE p.result]
    IN  /\ p.phase = "saved"
        /\ \/ /\ p.kind = "save"
              /\ tab' = [tagged EXCEPT !.saved = p.body]
           \/ /\ p.kind = "flow"
              /\ tab' = Asking(tagged, "run", t.active, p.card)
           \/ /\ p.kind = "reset"
              /\ tab' = [Show(tagged, [t.screen EXCEPT !.cards = p.result.cards,
                                                          !.sections = p.result.sections])
                            EXCEPT !.base = p.result, !.puts = Overtaken(@)]
        /\ UNCHANGED <<row, stored, away, fresh, removed, fuel>>

Requeued(t, c) ==
    IF t.screen.cards[c].exec = "absent" THEN t
    ELSE Show(t, [t.screen EXCEPT !.cards[c].exec = "queued"])

(* 412: the edits since the last save are given up for a fresh copy, only  *)
(* the PUT of a new workflow just requeues its card.                       *)
PutRefused(p) ==
    LET t == Without(tab, p)
    IN  /\ p.phase = "refused"
        /\ tab' = IF p.kind = "flow" THEN Requeued(t, p.card)
                     ELSE Asking(t, "full", t.active, Nobody)
        /\ UNCHANGED <<row, stored, away, fresh, removed, fuel>>

(* An error, or no answer: nothing is sent again until the next change.    *)
PutFails(p) ==
    LET t == Without(tab, p)
    IN  /\ p.phase \in {"sent", "saved"}
        /\ "fail" \in Does /\ Happens("fail")
        /\ tab' = IF p.kind = "flow" THEN Requeued(t, p.card) ELSE t
        /\ UNCHANGED <<row, stored, away, fresh, removed>>

---------------------------------------------------------------------------
(* Fetching.                                                               *)

(* A change event whose tag is not the tab's own, or the 15 s timer.       *)
Poll ==
    /\ tab.ready /\ ~tab.held /\ ~Resetting(tab)
    /\ ~Busy(tab)
    /\ tab' = Asking(tab, "poll", tab.active, Nobody)
    /\ UNCHANGED <<row, stored, away, fresh, removed, fuel>>

HoldEnds ==
    /\ tab.held
    /\ tab' = [tab EXCEPT !.held = FALSE]
    /\ UNCHANGED <<row, stored, away, fresh, removed, fuel>>

Replaced(t, g, h) == [t EXCEPT !.gets = (@ \ {g}) \cup {h}]
Served(g, b) == [g EXCEPT !.phase = "served", !.body = b]

Serve(g) ==
    /\ g.phase = "asked" /\ g.kind # "run"
    /\ tab' = Replaced(tab, g, Served(g, row[g.ws]))
    /\ UNCHANGED <<row, stored, away, fresh, removed, fuel>>

(* The card runs on the server until its agent is done, beside any other   *)
(* run of it; then it is completed, if it is still there, and the whole    *)
(* workspace answered.  A card that is not there is refused (404).         *)
RunStarts(g) ==
    /\ g.phase = "asked" /\ g.kind = "run"
    /\ g.card \in Cards(row[g.ws])
    /\ row' = [row EXCEPT ![g.ws].cards[g.card].exec = "active"]
    /\ tab' = Replaced(tab, g, [g EXCEPT !.phase = "running"])
    /\ UNCHANGED <<stored, away, fresh, removed, fuel>>

Ran(b, c) ==
    CASE c \notin Cards(b) -> b
      [] c \in Cards(b) /\ b.cards[c].flow -> [b EXCEPT !.cards[c].exec = "completed"]
      [] c \in Cards(b) /\ ~b.cards[c].flow -> CompleteTask(b, c)

Reverted(b, c) == IF c \in Cards(b) THEN [b EXCEPT !.cards[c].exec = "queued"] ELSE b

RunEnds(g) ==
    LET done == Ran(row[g.ws], g.card)
    IN  /\ g.phase = "running" /\ g.kind = "run"
        /\ row' = [row EXCEPT ![g.ws] = done]
        /\ tab' = Replaced(tab, g, Served(g, done))
        /\ UNCHANGED <<stored, away, fresh, removed, fuel>>

(* refresh merges the cards; applyWorkspace takes everything.              *)
Applied(t, g) ==
    LET shown == Show(t, IF g.kind = "poll" THEN Refresh(t.screen, g.body) ELSE g.body)
    IN  [shown EXCEPT !.ready = @ \/ g.kind = "load",
                      !.dirty = @ \/ g.kind = "load",
                      !.tag = g.body, !.base = g.body,
                      !.gets = @ \ {g},
                      !.puts = Overtaken(@)]

Answer(g) ==
    /\ g.phase = "served"
    /\ tab' = Applied(tab, g)
    /\ UNCHANGED <<row, stored, away, fresh, removed, fuel>>

(* A failed poll or copy after a 412 is ignored, a failed load disables    *)
(* saving; after a failed run the workspace is fetched, and when that      *)
(* fails too the card is requeued on the screen.                           *)
Failed(t, g) ==
    LET left == [t EXCEPT !.gets = @ \ {g}]
    IN  CASE g.kind \in {"poll", "full"} -> left
          [] g.kind = "load" -> [left EXCEPT !.ready = FALSE, !.dirty = FALSE]
          [] g.kind = "rescue" -> Requeued(left, g.card)

FetchFails(g) ==
    /\ g.phase = "asked" /\ g.kind # "run"
    /\ "fail" \in Does /\ Happens("fail")
    /\ tab' = Failed(tab, g)
    /\ UNCHANGED <<row, stored, away, fresh, removed>>

Rescued(t, g) == Asking([t EXCEPT !.gets = @ \ {g}], "rescue", t.active, g.card)

RunFails(g) ==
    /\ g.phase = "asked" /\ g.kind = "run"
    /\ g.card \notin Cards(row[g.ws])
    /\ tab' = Rescued(tab, g)
    /\ UNCHANGED <<row, stored, away, fresh, removed, fuel>>

(* The request or its answer is lost, or the agent fails, as it does when  *)
(* its request is cut off: then the server requeues the card.              *)
RunBreaks(g) ==
    /\ g.kind = "run"
    /\ "fail" \in Does /\ Happens("fail")
    /\ row' = [row EXCEPT ![g.ws] = IF g.phase = "running" THEN Reverted(@, g.card) ELSE @]
    /\ tab' = Rescued(tab, g)
    /\ UNCHANGED <<stored, away, fresh, removed>>

---------------------------------------------------------------------------
(* Switching.  The list of workspaces is fetched first; the one to open is *)
(* then read from localStorage.                                            *)

Switch(w) ==
    /\ "switch" \in Does
    /\ w # tab.active
    /\ ~tab.listing
    /\ Happens("switch")
    /\ stored' = w
    /\ tab' = [tab EXCEPT !.active = w, !.listing = TRUE]
    /\ UNCHANGED <<row, away, fresh, removed>>

Reload ==
    /\ "reload" \in Does
    /\ ~tab.listing
    /\ Happens("reload")
    /\ tab' = [tab EXCEPT !.listing = TRUE]
    /\ UNCHANGED <<row, stored, away, fresh, removed>>

Listed ==
    /\ tab.listing
    /\ tab' = Asking([tab EXCEPT !.listing = FALSE, !.active = stored],
                        "load", stored, Nobody)
    /\ UNCHANGED <<row, stored, away, fresh, removed, fuel>>

ListFails ==
    /\ tab.listing
    /\ "fail" \in Does /\ Happens("fail")
    /\ tab' = [tab EXCEPT !.listing = FALSE, !.ready = FALSE, !.dirty = FALSE]
    /\ UNCHANGED <<row, stored, away, fresh, removed>>

---------------------------------------------------------------------------
(* The other device saves an edit of the board as it is now, or has a card *)
(* run, which ends or fails some time later; the other tab of the browser  *)
(* switches.                                                               *)
EditElsewhere(w, kind) ==
    /\ kind \in DoneElsewhere
    /\ Happens(kind)
    /\ \E edited \in EditsOfKind(kind, row[w], fresh) :
        /\ row' = [row EXCEPT ![w] = Normalize(MergeBoard(row[w], edited))]
        /\ row' # row
        /\ fresh' = fresh \ IdsOf(edited)
        /\ removed' = removed \cup RemovedBy(row[w], edited)
    /\ UNCHANGED <<tab, stored, away>>

RunElsewhere(w, c) ==
    /\ "start" \in DoneElsewhere
    /\ c \in Live(row[w]) /\ ~Running(row[w].cards[c])
    /\ Happens("start")
    /\ row' = [row EXCEPT ![w].cards[c].exec = "active"]
    /\ away' = away \cup {<<w, c>>}
    /\ UNCHANGED <<tab, stored, fresh, removed>>

RunElsewhereEnds(w, c) ==
    /\ <<w, c>> \in away
    /\ \E b \in {Ran(row[w], c), Reverted(row[w], c)} : row' = [row EXCEPT ![w] = b]
    /\ away' = away \ {<<w, c>>}
    /\ UNCHANGED <<tab, stored, fresh, removed, fuel>>

SwitchElsewhere(w) ==
    /\ "switch" \in DoneElsewhere
    /\ w # stored
    /\ Happens("switch")
    /\ stored' = w
    /\ UNCHANGED <<row, tab, away, fresh, removed>>

---------------------------------------------------------------------------
(* A workspace that has been used: a card, a webhook, a target.            *)
Begun(w) ==
    [DefaultContent(w) EXCEPT !.cards[FirstCard[w]].exec = "queued",
                              !.frame = [@ EXCEPT !.webhook = TRUE, !.targets = 1]]

Init ==
    /\ row = [w \in Workspace |-> Begun(w)]
    /\ stored = Home
    /\ tab = Opened(stored, row[stored])
    /\ away = {}
    /\ fresh = (Section \cup Team \cup Agent \cup Card)
                  \ (ToSet(FlowSections) \cup UNION {IdsOf(row[w]) : w \in Workspace})
    /\ removed = {}
    /\ fuel = MaxEvents

UserStep ==
    \/ \E kind \in EditKinds : Edit(kind)
    \/ \E c \in Card : Run(c) \/ Launch(c)
    \/ ResetBoard
    \/ \E w \in Workspace : Switch(w)
    \/ Reload

Saves(kind) ==
    \E p \in tab.puts : p.kind = kind /\ (PutServe(p) \/ PutAnswer(p) \/ PutRefused(p))

Fetches(kind) ==
    \E g \in tab.gets :
        /\ g.kind = kind
        /\ \/ Serve(g) \/ RunStarts(g) \/ RunEnds(g) \/ RunFails(g)
           \/ Answer(g)

PutKinds == {"save", "flow", "reset"}
GetKinds == {"poll", "full", "load", "run", "rescue"}

FailStep ==
    \/ \E p \in tab.puts : PutFails(p)
    \/ \E g \in tab.gets : FetchFails(g) \/ RunBreaks(g)
    \/ ListFails

Elsewhere ==
    \/ \E w \in Workspace, kind \in EditKinds : EditElsewhere(w, kind)
    \/ \E w \in Workspace, c \in Card : RunElsewhere(w, c) \/ RunElsewhereEnds(w, c)
    \/ \E w \in Workspace : SwitchElsewhere(w)

Next ==
    \/ UserStep \/ FailStep \/ Elsewhere
    \/ Persist \/ SkipPersist \/ Poll \/ HoldEnds \/ Listed
    \/ \E kind \in PutKinds : Saves(kind)
    \/ \E kind \in GetKinds : Fetches(kind)

(* Timers end, requests are answered and answers are used; users need not  *)
(* do anything and nothing need fail.                                      *)
Fairness ==
    /\ WF_vars(Persist \/ SkipPersist)
    /\ WF_vars(Poll) /\ WF_vars(HoldEnds) /\ WF_vars(Listed)
    /\ \A kind \in PutKinds : WF_vars(Saves(kind))
    /\ \A kind \in GetKinds : WF_vars(Fetches(kind))

Spec == Init /\ [][Next]_vars /\ Fairness

---------------------------------------------------------------------------
(* Types: what is on a screen, in a request or in an answer is always a    *)
(* whole board with at least one column and one team and no ID twice, and  *)
(* a save is only ever due in a tab that has loaded its workspace.         *)
GetRecord ==
    [kind : GetKinds, ws : Workspace, card : Card \cup {Nobody},
     phase : {"asked", "running", "served"}, body : Content \cup {Nothing}]

PutRecord ==
    [kind : PutKinds, ws : Workspace, card : Card \cup {Nobody},
     phase : {"sent", "saved", "refused"}, body : Content, tag : Content \cup {Nothing},
     torn : BOOLEAN, over : BOOLEAN, result : Content \cup {Nothing}]

TabRecord ==
    [screen : Content, active : Workspace, tag : Content, base : Content, saved : Content,
     dirty : BOOLEAN, held : BOOLEAN, ready : BOOLEAN, listing : BOOLEAN,
     gets : SUBSET GetRecord, puts : SUBSET PutRecord]

TypeOK ==
    /\ row \in [Workspace -> Content]
    /\ tab \in TabRecord
    /\ tab.dirty => tab.ready
    /\ \A p \in tab.puts : (p.phase = "saved" => p.result \in Content)
                           /\ (p.kind = "flow" => p.card \in Card)
    /\ \A g \in tab.gets : (g.phase = "served" => g.body \in Content)
                           /\ (g.kind \in {"run", "rescue"} => g.card \in Card)
    /\ stored \in Workspace
    /\ away \subseteq Workspace \X Card
    /\ fresh \cup removed \subseteq Section \cup Team \cup Agent \cup Card
    /\ fuel \in 0..MaxEvents

(* On the server a card's column, team and agent and an agent's team are   *)
(* always there: whichever side of the merge of a PUT a card's column came *)
(* from, and whichever tab wrote the columns, teams and agents last        *)
(* (mergeTasksServerSide and normalizeWorkspaceState).                     *)
Whole(b) ==
    /\ \A c \in Cards(b) : /\ b.cards[c].at \in Sections(b)
                           /\ b.cards[c].team \in Teams(b)
                           /\ b.cards[c].agent \in Staff(b) \cup {Nobody}
    /\ \A a \in Staff(b) : b.staff[a] \in Teams(b)

NothingDangles == \A w \in Workspace : Whole(row[w])

(* A PUT whose tag is the board its cards come from takes no card off the  *)
(* server that no user removed: a card another tab or a run has put there  *)
(* since is not lost to a save that did not know it (If-Match in           *)
(* saveWorkspace).  A PUT made while two answers overtook each other has   *)
(* another tag than its board and is left out, a reset is meant to clobber.*)
ServedNow(p) == p.phase = "sent" /\ p \notin tab'.puts /\ row' # row

CardsLeaveOnlyByHand ==
    [][\A p \in tab.puts :
        ServedNow(p) /\ p.kind # "reset" /\ ~p.torn
            => Cards(row[p.ws]) \ Cards(row'[p.ws]) \subseteq removed]_vars

(* A save and a fetch that overtake each other again and again can swap an *)
(* old and a new board forever, so what follows is about tabs where that   *)
(* ends: a fetch takes less than the 250 ms debounce of a save.            *)
NoOverlap == tab.puts = {} \/ tab.gets = {}

(* A tab does not disagree for good with the server about which cards      *)
(* there are, their columns and how far their runs are (refresh, and the   *)
(* reload after a 412, against the late answers of runs and saves).        *)
Agrees(card, srv) == card.exec = srv.exec /\ card.at = srv.at

CardsAgree ==
    <>[]NoOverlap =>
        \A c \in Card :
            []<>(tab.ready => Agrees(tab.screen.cards[c], row[tab.active].cards[c]))

(* The rows of two workspaces never mix ("Workspace isolation is part of   *)
(* the product model").                                                    *)
WorkspacesStayApart == \A w \in Workspace : row[w].frame.of = w

(* A column leaves the server only when some user removed it, as a save    *)
(* over someone else's change is to be rejected.                           *)
ColumnsSurviveOthers ==
    [][\A w \in Workspace : Sections(row[w]) \ Sections(row'[w]) \subseteq removed]_vars
=============================================================================
