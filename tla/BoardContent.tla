---------------------------- MODULE BoardContent ----------------------------
(***************************************************************************)
(* What a user can do to the board on the screen, as operators from one    *)
(* content of a workspace to another: columns, teams, agents, cards, and   *)
(* the rest, its frame: title, choices, vault documents, provider, channel *)
(* and webhook switches, webhook token, notification targets.  The frame   *)
(* also says which workspace it was written for.  Reports are in Board.    *)
(***************************************************************************)
EXTENDS Naturals, SequencesExt

CONSTANTS
    Workspace,        \* workspaces of the user
    Section, Team, Agent, Card,
    DefaultSections,  \* the columns of defaultWorkspaceState
    DefaultTeam,      \* its only team
    FlowSections,     \* WORKFLOW_SECTIONS, one per step of a workflow
    FlowAgents,       \* makeWorkflowAgents, one per step
    Done,             \* the column titled Done
    Nobody            \* no agent, no team

(* Lists with at least one entry, and none twice: entries have IDs.        *)
Listing(S) == {q \in Seq(S) : q # <<>> /\ IsInjective(q)}

ASSUME BoardAssumption ==
    /\ {DefaultSections, FlowSections} \subseteq Listing(Section)
    /\ FlowAgents \in Seq(Agent) /\ Len(FlowAgents) = Len(FlowSections)
    /\ DefaultTeam \in Team
    /\ Nobody \notin Agent \cup Team

CardRecord ==
    [at : Section, team : Team, agent : Agent \cup {Nobody}, flow : BOOLEAN,
     exec : {"absent", "queued", "active", "completed"}, bin : BOOLEAN]

(* Texts are told apart by how often they were rewritten, lists by their   *)
(* length, and one provider, channel and choice stands for all.            *)
Frame ==
    [of : Workspace, title : Nat, choice : BOOLEAN, vault : Nat, provider : BOOLEAN,
     channel : BOOLEAN, webhook : BOOLEAN, token : Nat, targets : Nat]

Content ==
    [frame : Frame,
     sections : Listing(Section),
     teams : Listing(Team),
     staff : [Agent -> Team \cup {Nobody}],
     cards : [Card -> CardRecord]]

NoCard ==
    [at |-> DefaultSections[1], team |-> DefaultTeam, agent |-> Nobody, flow |-> FALSE,
     exec |-> "absent", bin |-> FALSE]

DefaultFrame(w) ==
    [of |-> w, title |-> 0, choice |-> FALSE, vault |-> 2, provider |-> TRUE,
     channel |-> FALSE, webhook |-> FALSE, token |-> 0, targets |-> 0]

DefaultContent(w) ==
    [frame |-> DefaultFrame(w),
     sections |-> DefaultSections,
     teams |-> <<DefaultTeam>>,
     staff |-> [a \in Agent |-> IF a \in ToSet(FlowAgents) THEN DefaultTeam ELSE Nobody],
     cards |-> [c \in Card |-> NoCard]]

Sections(b) == ToSet(b.sections)
Teams(b) == ToSet(b.teams)
Staff(b) == {a \in Agent : b.staff[a] # Nobody}
Cards(b) == {c \in Card : b.cards[c].exec # "absent"}
Live(b) == {c \in Cards(b) : ~b.cards[c].bin}
InBin(b) == Cards(b) \ Live(b)

(* A card is drawn in the column of its status and nowhere else.           *)
Hidden(b) == {c \in Live(b) : b.cards[c].at \notin Sections(b)}

(* SelectSeq, as a recursive function: the entries of seq that are kept.   *)
Only(seq, kept) ==
    LET upTo[n \in 0 .. Len(seq)] ==
            IF n = 0 THEN <<>>
            ELSE IF seq[n] \in kept THEN Append(upTo[n - 1], seq[n]) ELSE upTo[n - 1]
    IN  upTo[Len(seq)]

Position(seq, x) == CHOOSE n \in DOMAIN seq : seq[n] = x

---------------------------------------------------------------------------
(* Columns.                                                                *)

CreateSection(b, s) == [b EXCEPT !.sections = Append(@, s)]

(* The last column stays; the cards of a removed one, binned ones too, go  *)
(* to the first that is left.                                              *)
LastStays(seq) == Len(seq) <= 1

DeleteSection(b, s) ==
    LET left == Only(b.sections, Section \ {s})
    IN  IF LastStays(b.sections) THEN b
        ELSE [b EXCEPT !.sections = left,
                       !.cards = [c \in Card |-> IF @[c].exec # "absent" /\ @[c].at = s
                                                 THEN [@[c] EXCEPT !.at = left[1]] ELSE @[c]]]

MoveSection(b, s, target) ==
    [b EXCEPT !.sections = InsertAt(Only(@, Section \ {s}), Position(@, target), s)]

---------------------------------------------------------------------------
(* Teams and agents.                                                       *)

CreateTeam(b, t) == [b EXCEPT !.teams = Append(@, t)]

RemoveTeam(b, t) ==
    LET left == Only(b.teams, Team \ {t})
    IN  IF LastStays(b.teams) THEN b
        ELSE [b EXCEPT !.teams = left,
                       !.staff = [a \in Agent |-> IF @[a] = t THEN left[1] ELSE @[a]],
                       !.cards = [c \in Card |->
                            IF @[c].exec # "absent" /\ @[c].team = t
                            THEN [@[c] EXCEPT !.team = left[1], !.agent = Nobody] ELSE @[c]]]

AddTeamMember(b, a, t) == [b EXCEPT !.staff[a] = t]

RemoveTeamMember(b, a) ==
    [b EXCEPT !.staff[a] = Nobody,
              !.cards = [c \in Card |-> IF @[c].agent = a THEN [@[c] EXCEPT !.agent = Nobody]
                                                          ELSE @[c]]]

---------------------------------------------------------------------------
(* Cards.  What the form of a new card has selected falls back to the      *)
(* first column, team or agent when it is not on the board any more.       *)

Candidates(b, t) ==
    LET there == {a \in Agent : b.staff[a] = t} IN IF there = {} THEN {Nobody} ELSE there

NewCards(b, c) ==
    UNION {{[b EXCEPT !.cards[c] = [NoCard EXCEPT !.exec = "queued", !.at = s, !.team = t,
                                                  !.agent = a]]
                : s \in Sections(b), a \in Candidates(b, t)} : t \in Teams(b)}

(* createWorkflowTask puts the missing columns of the workflow before Done *)
(* and hires its missing agents.                                           *)
WithFlowSections(seq) ==
    LET missing == Only(FlowSections, Section \ ToSet(seq))
        before == Position(seq, Done)
    IN  IF Done \notin ToSet(seq) THEN seq \o missing
        ELSE SubSeq(seq, 1, before - 1) \o missing \o SubSeq(seq, before, Len(seq))

NewFlowCard(b, c) ==
    [b EXCEPT !.sections = WithFlowSections(@),
              !.staff = [a \in Agent |-> IF a \in ToSet(FlowAgents) /\ @[a] = Nobody
                                         THEN b.teams[1] ELSE @[a]],
              !.cards[c] = [NoCard EXCEPT !.exec = "active", !.flow = TRUE,
                                          !.at = FlowSections[1], !.team = b.teams[1],
                                          !.agent = FlowAgents[1]]]

MoveTask(b, c, s) == [b EXCEPT !.cards[c].at = s]
DeleteTask(b, c) == [b EXCEPT !.cards[c].bin = TRUE]
RestoreDeletedTask(b, c) == [b EXCEPT !.cards[c].bin = FALSE]
PurgeTask(b, c) == [b EXCEPT !.cards[c] = NoCard]

(* "Clear Done" also drops the binned cards that were in Done.             *)
ClearDone(b) ==
    [b EXCEPT !.cards = [c \in Card |-> IF Done \in Sections(b) /\ @[c].at = Done
                                        THEN NoCard ELSE @[c]]]

DoneSection(b) == IF Done \in Sections(b) THEN Done ELSE Last(b.sections)

CompleteTask(b, c) ==
    [b EXCEPT !.cards[c].exec = "completed", !.cards[c].at = DoneSection(b)]

(* A finished card started again leaves Done: a workflow's for its first   *)
(* column, without asking whether the board still has it, another's for    *)
(* the column that goes by its agent's name.                               *)
StartColumns(b, card) ==
    LET rerun == card.exec = "completed" /\ Done \in Sections(b) /\ card.at = Done
        others == Sections(b) \ {Done}
    IN  CASE rerun /\ card.flow -> {FlowSections[1]}
          [] rerun /\ ~card.flow /\ others # {} -> others
          [] OTHER -> {card.at}

StartTask(b, c) ==
    {[b EXCEPT !.cards[c].exec = "active", !.cards[c].at = s] : s \in StartColumns(b, b.cards[c])}

(* resetBoard: every card to the bin, and only the workflow's columns; the *)
(* cards keep the status they had.                                         *)
TrashAll(b) ==
    [b EXCEPT !.sections = FlowSections,
              !.cards = [c \in Card |-> IF @[c].exec = "absent" THEN @[c]
                                        ELSE [@[c] EXCEPT !.bin = TRUE]]]

(* The title, the drop-downs, the providers, the documents of the vault.   *)
HandleBoardTitleChange(b) == [b EXCEPT !.frame.title = @ + 1]
WorkspaceSettingsChange(b) == [b EXCEPT !.frame.choice = ~@]
ToggleProvider(b) == [b EXCEPT !.frame.provider = ~@]
AddVaultDoc(b) == [b EXCEPT !.frame.vault = @ + 1]
RemoveVaultDoc(b) == [b EXCEPT !.frame.vault = @ - 1]

(* Channels, the webhook (its token only while it is on) and the targets.  *)
ToggleChannel(b) == [b EXCEPT !.frame.channel = ~@]
UpdateWebhookConfig(b) == [b EXCEPT !.frame.webhook = ~@]
RegenerateWebhookToken(b) == [b EXCEPT !.frame.token = @ + 1]
AddNotification(b) == [b EXCEPT !.frame.targets = @ + 1]
RemoveNotification(b) == [b EXCEPT !.frame.targets = @ - 1]

---------------------------------------------------------------------------
EditKinds ==
    {"section", "unsection", "order", "team", "unteam", "agent", "unagent", "assign",
     "drag", "mouse", "bin", "unbin", "purge", "clear", "complete", "settings"}

(* The kanban columns: a card outside them can be neither dragged nor      *)
(* clicked.                                                                *)
Shown(b) == Live(b) \ Hidden(b)

AddedColumns(b, fresh) == {CreateSection(b, s) : s \in Section \cap fresh}
RemovedColumns(b) == {DeleteSection(b, s) : s \in Sections(b)}
OrderedColumns(b) ==
    UNION {{MoveSection(b, s, x) : x \in Sections(b) \ {s}} : s \in Sections(b)}

(* A finger drags the card alone.                                          *)
DroppedCards(b) == UNION {{MoveTask(b, c, s) : s \in Sections(b)} : c \in Shown(b)}

(* With a mouse the start of the drag and the drop bubble from the card to *)
(* the columns, and the column of the card moves too; onto a header, only  *)
(* the column does.                                                        *)
DroppedByMouse(b) ==
    LET from(c) == b.cards[c].at
        column(x, c, s) == MoveSection(x, from(c), s)
    IN  UNION {UNION {{column(MoveTask(b, c, s), c, s), column(b, c, s)} :
                        s \in Sections(b) \ {from(c)}} : c \in Shown(b)}

(* The buttons of a card; "complete" is disabled on a completed one.       *)
BinnedCards(b) == {DeleteTask(b, c) : c \in Shown(b)}
ClosedCards(b) == {CompleteTask(b, c) : c \in {x \in Shown(b) : b.cards[x].exec # "completed"}}

(* The left sidebar's two tabs, the trash, the settings.                   *)
TeamsTab(b, fresh) == {CreateTeam(b, t) : t \in Team \cap fresh}
TeamsTabRemoval(b) == {RemoveTeam(b, t) : t \in Teams(b)}
AgentsTab(b, fresh) == UNION {{AddTeamMember(b, a, t) : t \in Teams(b)} : a \in Agent \cap fresh}
AgentsTabRemoval(b) == {RemoveTeamMember(b, a) : a \in Staff(b)}
TrashRestored(b) == {RestoreDeletedTask(b, c) : c \in InBin(b)}
TrashPurged(b) == {PurgeTask(b, c) : c \in InBin(b)}

VaultPanel(b) == {AddVaultDoc(b)} \cup {RemoveVaultDoc(x) : x \in {y \in {b} : y.frame.vault > 0}}
WebhookSection(b) ==
    {UpdateWebhookConfig(b)}
        \cup {RegenerateWebhookToken(x) : x \in {y \in {b} : y.frame.webhook}}
NotificationSection(b) ==
    {AddNotification(b)} \cup {RemoveNotification(x) : x \in {y \in {b} : y.frame.targets > 0}}
EditedSettings(b) ==
    {HandleBoardTitleChange(b), WorkspaceSettingsChange(b), ToggleProvider(b), ToggleChannel(b)}
        \cup VaultPanel(b) \cup WebhookSection(b) \cup NotificationSection(b)

(* The contents one user operation turns b into; fresh: IDs never used.    *)
EditsOfKind(kind, b, fresh) ==
    CASE kind = "section"   -> AddedColumns(b, fresh)
      [] kind = "unsection" -> RemovedColumns(b)
      [] kind = "order"     -> OrderedColumns(b)
      [] kind = "team"      -> TeamsTab(b, fresh)
      [] kind = "unteam"    -> TeamsTabRemoval(b)
      [] kind = "agent"     -> AgentsTab(b, fresh)
      [] kind = "unagent"   -> AgentsTabRemoval(b)
      [] kind = "assign"    -> UNION {NewCards(b, c) : c \in Card \cap fresh}
      [] kind = "drag"      -> DroppedCards(b)
      [] kind = "mouse"     -> DroppedByMouse(b)
      [] kind = "bin"       -> BinnedCards(b)
      [] kind = "unbin"     -> TrashRestored(b)
      [] kind = "purge"     -> TrashPurged(b)
      [] kind = "clear"     -> {ClearDone(b)}
      [] kind = "complete"  -> ClosedCards(b)
      [] kind = "settings"  -> EditedSettings(b)

IdsOf(b) == Sections(b) \cup Teams(b) \cup Staff(b) \cup Cards(b)

---------------------------------------------------------------------------
(* The server's side.                                                      *)

Running(card) == card.exec = "active"

(* normalizeWorkspaceState: what does not refer to anything on the board   *)
(* goes to the first column or team, or to no agent; runs are requeued.    *)
Placed(card, b) == IF card.at \in Sections(b) THEN card.at ELSE b.sections[1]

NormalizeCardUnplaced(card, b) ==  \* mutant of NormalizeCard
    IF card.exec = "absent" THEN card
    ELSE [card EXCEPT !.team = IF @ \in Teams(b) THEN @ ELSE b.teams[1],
                      !.agent = IF @ \in Staff(b) THEN @ ELSE Nobody,
                      !.exec = IF Running(card) THEN "queued" ELSE @]

NormalizeCard(card, b) ==
    IF card.exec = "absent" THEN card
    ELSE [card EXCEPT !.at = Placed(card, b),
                      !.team = IF @ \in Teams(b) THEN @ ELSE b.teams[1],
                      !.agent = IF @ \in Staff(b) THEN @ ELSE Nobody,
                      !.exec = IF Running(card) THEN "queued" ELSE @]

Normalize(b) ==
    [b EXCEPT !.staff = [a \in Agent |-> IF @[a] \in Teams(b) \cup {Nobody} THEN @[a]
                                         ELSE b.teams[1]],
              !.cards = [c \in Card |-> NormalizeCard(@[c], b)]]

(* mergeTasksServerSide: a card's execution is the server's, its column    *)
(* while it runs too; cards the browser does not send are dropped unless   *)
(* they run.                                                               *)
MergeCard(srv, inc) ==
    CASE inc.exec = "absent" -> IF Running(srv) THEN srv ELSE inc
      [] inc.exec # "absent" /\ srv.exec = "absent" -> inc
      [] inc.exec # "absent" /\ srv.exec # "absent" ->
            [inc EXCEPT !.exec = srv.exec, !.at = IF Running(srv) THEN srv.at ELSE @]

MergeBoard(row, body) ==
    [body EXCEPT !.cards = [c \in Card |-> MergeCard(row.cards[c], @[c])]]

(* refresh(): the cards of the server with, of a card the browser has,     *)
(* only execution and column taken over.  Columns, teams, agents and       *)
(* settings stay those of the screen.                                      *)
RefreshKeepsRun(local, srv) ==  \* mutant of RefreshCard
    IF local.exec = "absent" \/ srv.exec = "absent" THEN srv ELSE [local EXCEPT !.at = srv.at]
RefreshCard(local, srv) ==
    IF local.exec = "absent" \/ srv.exec = "absent" THEN srv
    ELSE [local EXCEPT !.exec = srv.exec, !.at = srv.at]

Refresh(screen, body) ==
    [screen EXCEPT !.cards = [c \in Card |-> RefreshCard(@[c], body.cards[c])]]
=============================================================================
