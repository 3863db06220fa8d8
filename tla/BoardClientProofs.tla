------------------------- MODULE BoardClientProofs ------------------------
(***************************************************************************)
(* Theorems about BoardClient, for any number of workspaces, columns,      *)
(* teams, agents, cards, requests in flight and events: types,             *)
(* NothingDangles, CardsLeaveOnlyByHand, and that the rows stay apart      *)
(* while nobody switches.                                                  *)
(***************************************************************************)
EXTENDS BoardClient, BoardContentProofs

(* No column or team of b is an ID that has never been used.               *)
SpentOn(b, ids) == (Sections(b) \cup Teams(b)) \cap ids = {}
(* The cards of b that c does not have.                                    *)
Lost(b, c) == Cards(b) \ Cards(c)
(* Nothing runs.                                                           *)
Idle(b) == \A c \in Card : ~Running(b.cards[c])
(* The same columns and teams.                                             *)
SameIds(b, c) == Sections(b) = Sections(c) /\ Teams(b) = Teams(c)

(* normalizeWorkspaceState makes of any board one where nothing runs and   *)
(* nothing refers to what is not there, with the same columns, teams and   *)
(* cards.                                                                  *)
LEMMA NormalizeFacts ==
    ASSUME NEW b \in Content
    PROVE  /\ Normalize(b) \in Content
           /\ SameIds(Normalize(b), b) /\ Cards(Normalize(b)) = Cards(b)
           /\ Idle(Normalize(b)) /\ Whole(Normalize(b))
<1> DEFINE n == Normalize(b)
           staff == [a \in Agent |-> IF b.staff[a] \in Teams(b) \cup {Nobody} THEN b.staff[a]
                                     ELSE b.teams[1]]
           cards == [c \in Card |-> NormalizeCard(b.cards[c], b)]
           mid == [b EXCEPT !.staff = staff]
<1>1. /\ b.sections[1] \in Sections(b) /\ b.teams[1] \in Teams(b)
      /\ Sections(b) \subseteq Section /\ Teams(b) \subseteq Team
  BY ContentParts, ListingFacts DEF Sections, Teams
<1>2. staff \in [Agent -> Team \cup {Nobody}]
  BY <1>1, ContentParts
<1>3. ASSUME NEW c \in Card
      PROVE  /\ cards[c] \in CardRecord
             /\ cards[c].exec = "absent" <=> b.cards[c].exec = "absent"
             /\ ~Running(cards[c])
             /\ cards[c].exec # "absent" => /\ cards[c].at \in Sections(b)
                                            /\ cards[c].team \in Teams(b)
                                            /\ cards[c].agent \in Staff(b) \cup {Nobody}
  <2>1. b.cards[c] \in CardRecord
    BY ContentParts
  <2>2. cards[c] = NormalizeCard(b.cards[c], b)
    OBVIOUS
  <2>3. Staff(b) \subseteq Agent
    BY OnTheBoard
  <2> DEFINE k == b.cards[c]
             to == Placed(k, b)
             team == IF k.team \in Teams(b) THEN k.team ELSE b.teams[1]
             agent == IF k.agent \in Staff(b) THEN k.agent ELSE Nobody
             exec == IF k.exec = "active" THEN "queued" ELSE k.exec
  <2>4. to \in Sections(b) /\ team \in Teams(b) /\ agent \in Staff(b) \cup {Nobody}
    BY <1>1 DEF Placed
  <2>5. /\ exec \in {"absent", "queued", "active", "completed"} /\ exec # "active"
        /\ exec = "absent" <=> k.exec = "absent"
    BY <2>1 DEF CardRecord
  <2>6. cards[c] = IF k.exec = "absent" THEN k
                   ELSE [k EXCEPT !.at = to, !.team = team, !.agent = agent, !.exec = exec]
    BY <2>1, <2>2 DEF NormalizeCard, CardRecord, Running
  <2> HIDE DEF to, team, agent, exec, k, cards
  <2>7. k \in CardRecord
    BY <2>1 DEF k
  <2>8. CASE k.exec = "absent"
    BY <2>6, <2>7, <2>8 DEF Running, k
  <2>9. CASE k.exec # "absent"
    <3>1. cards[c] = [k EXCEPT !.at = to, !.team = team, !.agent = agent, !.exec = exec]
      BY <2>6, <2>9
    <3>2. /\ cards[c].at = to /\ cards[c].team = team /\ cards[c].agent = agent
          /\ cards[c].exec = exec
      BY <3>1, <2>7 DEF CardRecord
    <3>3. cards[c] \in CardRecord
      BY <1>1, <2>3, <2>4, <2>5, <2>7, <3>1 DEF CardRecord
    <3> QED
      BY <2>4, <2>5, <2>9, <3>2, <3>3 DEF Running, k
  <2> QED
    BY <2>8, <2>9
<1>4. n = [mid EXCEPT !.cards = cards]
  BY ContentParts DEF Normalize
<1>5. /\ n.sections = b.sections /\ n.teams = b.teams /\ n.staff = staff /\ n.cards = cards
  BY ContentParts DEF Normalize
<1>6. mid \in Content
  BY <1>2, StaffChange
<1>7. cards \in [Card -> CardRecord]
  BY <1>3
<1>8. Nobody \notin Team
  BY BoardAssumption
<1>9. \A a \in Agent : /\ staff[a] # Nobody <=> b.staff[a] # Nobody
                       /\ staff[a] # Nobody => staff[a] \in Teams(b)
  BY <1>1, <1>8
<1> HIDE DEF n, mid, staff, cards
<1>10. n \in Content
  BY <1>4, <1>6, <1>7, CardsChange
<1>11. SameIds(n, b)
  BY <1>5 DEF SameIds, Sections, Teams
<1>12. Cards(n) = Cards(b)
  BY <1>3, <1>5 DEF Cards
<1>13. Staff(n) = Staff(b)
  BY <1>5, <1>9 DEF Staff
<1>14. Idle(n)
  BY <1>3, <1>5 DEF Idle
<1>15. Whole(n)
  <2>1. ASSUME NEW c \in Cards(n)
        PROVE  /\ n.cards[c].at \in Sections(n)
               /\ n.cards[c].team \in Teams(n)
               /\ n.cards[c].agent \in Staff(n) \cup {Nobody}
    <3>1. c \in Card /\ cards[c].exec # "absent"
      BY <1>5 DEF Cards
    <3> QED
      BY <1>3, <1>5, <1>11, <1>13, <3>1 DEF SameIds
  <2>2. ASSUME NEW a \in Staff(n) PROVE n.staff[a] \in Teams(n)
    BY <1>5, <1>9, <1>11 DEF SameIds, Staff
  <2> QED
    BY <2>1, <2>2 DEF Whole
<1> QED
  BY <1>10, <1>11, <1>12, <1>14, <1>15 DEF n

(* The merge of a PUT: columns and teams are the body's. It loses no card  *)
(* but those the body lacks, and has none beside the body's but those that *)
(* run.                                                                    *)
LEMMA MergeFacts ==
    ASSUME NEW srv \in Content, NEW body \in Content
    PROVE  LET merged == MergeBoard(srv, body)
           IN  /\ merged \in Content /\ SameIds(merged, body)
               /\ Lost(srv, merged) \subseteq Lost(srv, body)
               /\ \A c \in Cards(merged) : c \in Cards(body) \/ Running(srv.cards[c])
<1> DEFINE cards == [c \in Card |-> MergeCard(srv.cards[c], body.cards[c])]
           merged == MergeBoard(srv, body)
<1>1. ASSUME NEW c \in Card
      PROVE  /\ cards[c] \in CardRecord
             /\ cards[c].exec = "absent" =>
                    body.cards[c].exec = "absent" /\ ~Running(srv.cards[c])
             /\ cards[c].exec # "absent" =>
                    body.cards[c].exec # "absent" \/ Running(srv.cards[c])
  <2> DEFINE s == srv.cards[c]
             i == body.cards[c]
  <2>1. s \in CardRecord /\ i \in CardRecord
    BY ContentParts
  <2>2. cards[c] = MergeCard(s, i)
    OBVIOUS
  <2> HIDE DEF s, i, cards
  <2>3. CASE i.exec = "absent"
    BY <2>1, <2>2, <2>3 DEF MergeCard, Running, s, i
  <2>4. CASE i.exec # "absent" /\ s.exec = "absent"
    BY <2>1, <2>2, <2>4 DEF MergeCard, Running, s, i
  <2>5. CASE i.exec # "absent" /\ s.exec # "absent"
    <3> DEFINE to == IF Running(s) THEN s.at ELSE i.at
    <3>1. cards[c] = [i EXCEPT !.exec = s.exec, !.at = to]
      BY <2>2, <2>5, <2>1 DEF MergeCard, CardRecord
    <3>2. to \in Section
      BY <2>1 DEF CardRecord
    <3> HIDE DEF to
    <3>3. cards[c] \in CardRecord /\ cards[c].exec = s.exec
      BY <2>1, <3>1, <3>2 DEF CardRecord
    <3> QED
      BY <2>5, <3>3 DEF i
  <2> QED
    BY <2>3, <2>4, <2>5
<1>2. cards \in [Card -> CardRecord]
  BY <1>1
<1>3. merged = [body EXCEPT !.cards = cards]
  BY ContentParts DEF MergeBoard
<1> HIDE DEF cards
<1>4. merged \in Content
  BY <1>2, <1>3, CardsChange
<1>5. merged.sections = body.sections /\ merged.teams = body.teams /\ merged.cards = cards
  BY <1>3, ContentParts
<1> HIDE DEF merged
<1>6. SameIds(merged, body)
  BY <1>5 DEF SameIds, Sections, Teams
<1>7. Lost(srv, merged) \subseteq Lost(srv, body)
  BY <1>1, <1>5 DEF Lost, Cards
<1>8. \A c \in Cards(merged) : c \in Cards(body) \/ Running(srv.cards[c])
  BY <1>1, <1>5 DEF Cards
<1> QED
  BY <1>4, <1>6, <1>7, <1>8 DEF merged

(* A refresh: columns and teams of the screen, cards of the answer.        *)
LEMMA RefreshFacts ==
    ASSUME NEW screen \in Content, NEW body \in Content
    PROVE  LET shown == Refresh(screen, body)
           IN  shown \in Content /\ SameIds(shown, screen) /\ Cards(shown) = Cards(body)
<1> DEFINE cards == [c \in Card |-> RefreshCard(screen.cards[c], body.cards[c])]
           shown == Refresh(screen, body)
<1>1. ASSUME NEW c \in Card
      PROVE  /\ cards[c] \in CardRecord
             /\ cards[c].exec = body.cards[c].exec
  <2> DEFINE k == screen.cards[c]
             s == body.cards[c]
  <2>1. k \in CardRecord /\ s \in CardRecord
    BY ContentParts
  <2>2. cards[c] = RefreshCard(k, s)
    OBVIOUS
  <2> HIDE DEF k, s, cards
  <2>3. cards[c] \in CardRecord /\ cards[c].exec = s.exec
    BY <2>1, <2>2 DEF RefreshCard, CardRecord
  <2> QED
    BY <2>3 DEF s
<1>2. cards \in [Card -> CardRecord]
  BY <1>1
<1>3. shown = [screen EXCEPT !.cards = cards]
  BY ContentParts DEF Refresh
<1> HIDE DEF cards
<1>4. shown \in Content
  BY <1>2, <1>3, CardsChange
<1>5. shown.sections = screen.sections /\ shown.teams = screen.teams /\ shown.cards = cards
  BY <1>3, ContentParts
<1> HIDE DEF shown
<1>6. SameIds(shown, screen)
  BY <1>5 DEF SameIds, Sections, Teams
<1>7. Cards(shown) = Cards(body)
  BY <1>1, <1>5 DEF Cards
<1> QED
  BY <1>4, <1>6, <1>7 DEF shown

(* A reset board has the columns of the workflow and all its cards, in the *)
(* bin.                                                                    *)
LEMMA TrashFacts ==
    ASSUME NEW b \in Content
    PROVE  LET trashed == TrashAll(b)
           IN  /\ Sections(trashed) = ToSet(FlowSections) /\ Teams(trashed) = Teams(b)
               /\ Cards(trashed) = Cards(b)
<1> DEFINE trashed == TrashAll(b)
           cards == [c \in Card |-> IF b.cards[c].exec = "absent" THEN b.cards[c]
                                    ELSE [b.cards[c] EXCEPT !.bin = TRUE]]
<1>1. trashed.sections = FlowSections /\ trashed.teams = b.teams /\ trashed.cards = cards
  BY ContentParts DEF TrashAll
<1>2. \A c \in Card : cards[c].exec = b.cards[c].exec
  BY ContentParts DEF CardRecord
<1> HIDE DEF trashed, cards
<1>3. Cards(trashed) = Cards(b)
  BY <1>1, <1>2 DEF Cards
<1>4. Sections(trashed) = ToSet(FlowSections) /\ Teams(trashed) = Teams(b)
  BY <1>1 DEF Sections, Teams
<1> QED
  BY <1>3, <1>4 DEF trashed

(* A card that changes its execution, or its column too, stays on the      *)
(* board; nothing is left dangling if the column is there.                 *)
LEMMA ExecFacts ==
    ASSUME NEW b \in Content, NEW c \in Cards(b), NEW exec \in {"queued", "active", "completed"},
           NEW s \in Section
    PROVE  LET x == [b EXCEPT !.cards[c].exec = exec]
               y == [b EXCEPT !.cards[c].exec = exec, !.cards[c].at = s]
           IN  /\ x \in Content /\ SameIds(x, b) /\ Cards(x) = Cards(b)
               /\ y \in Content /\ SameIds(y, b) /\ Cards(y) = Cards(b)
               /\ Whole(b) => Whole(x)
               /\ Whole(b) /\ s \in Sections(b) => Whole(y)
<1> DEFINE x == [b EXCEPT !.cards[c].exec = exec]
           y == [b EXCEPT !.cards[c].exec = exec, !.cards[c].at = s]
           kx == [b.cards[c] EXCEPT !.exec = exec]
           ky == [b.cards[c] EXCEPT !.exec = exec, !.at = s]
<1>1. c \in Card /\ b.cards[c] \in CardRecord /\ b.cards \in [Card -> CardRecord]
  BY ContentParts DEF Cards
<1>2. /\ kx \in CardRecord /\ kx.exec # "absent"
      /\ kx.at = b.cards[c].at /\ kx.team = b.cards[c].team /\ kx.agent = b.cards[c].agent
  BY <1>1 DEF CardRecord
<1>3. /\ ky \in CardRecord /\ ky.exec # "absent"
      /\ ky.at = s /\ ky.team = b.cards[c].team /\ ky.agent = b.cards[c].agent
  BY <1>1 DEF CardRecord
<1>4. x = [b EXCEPT !.cards[c] = kx] /\ y = [b EXCEPT !.cards[c] = ky]
  BY <1>1, ContentParts
<1> HIDE DEF kx, ky, x, y
<1>5. x \in Content /\ y \in Content
  BY <1>1, <1>2, <1>3, <1>4, CardChange
<1>6. /\ x.sections = b.sections /\ x.teams = b.teams /\ x.staff = b.staff
      /\ x.cards = [b.cards EXCEPT ![c] = kx]
      /\ y.sections = b.sections /\ y.teams = b.teams /\ y.staff = b.staff
      /\ y.cards = [b.cards EXCEPT ![c] = ky]
  BY <1>4, ContentParts
<1>7. /\ SameIds(x, b) /\ SameIds(y, b) /\ Staff(x) = Staff(b) /\ Staff(y) = Staff(b)
  BY <1>6 DEF SameIds, Sections, Teams, Staff
<1>8. /\ x.cards[c] = kx /\ y.cards[c] = ky
      /\ \A d \in Card \ {c} : x.cards[d] = b.cards[d] /\ y.cards[d] = b.cards[d]
  BY <1>1, <1>6
<1>9. Cards(x) = Cards(b) /\ Cards(y) = Cards(b)
  BY <1>1, <1>2, <1>3, <1>8 DEF Cards
<1>10. Whole(b) => Whole(x)
  BY <1>1, <1>2, <1>6, <1>7, <1>8, <1>9 DEF Whole, SameIds, Cards
<1>11. Whole(b) /\ s \in Sections(b) => Whole(y)
  BY <1>1, <1>3, <1>6, <1>7, <1>8, <1>9 DEF Whole, SameIds, Cards
<1> QED
  BY <1>5, <1>7, <1>9, <1>10, <1>11 DEF x, y

(* The same for the execution alone.                                       *)
LEMMA ExecKept ==
    ASSUME NEW b \in Content, NEW c \in Cards(b), NEW exec \in {"queued", "active", "completed"}
    PROVE  LET x == [b EXCEPT !.cards[c].exec = exec]
           IN  /\ x \in Content /\ SameIds(x, b) /\ Cards(x) = Cards(b)
               /\ Whole(b) => Whole(x)
<1>1. b.cards[c].at \in Section
  BY ContentParts DEF Cards, CardRecord
<1>2. PICK s \in Section : s = b.cards[c].at
  BY <1>1
<1> QED
  BY ExecFacts

---------------------------------------------------------------------------
(* The invariant, and how the changes of a tab keep it.                    *)

(* What is true of a request that is under way, with the screen the tab    *)
(* shows meanwhile: what it writes uses no new ID; what the server has     *)
(* saved of it is idle; and of the cards that its tag, body and result     *)
(* had, the body and the screen have lost only those in gone.              *)
PutOK(p, screen, ids, gone) ==
    /\ p \in PutRecord
    /\ p.kind = "flow" => p.card \in Card
    /\ SpentOn(p.body, ids)
    /\ p.phase = "saved" =>
        /\ p.result \in Content /\ SpentOn(p.result, ids) /\ Idle(p.result)
    /\ p.kind # "reset" /\ p.phase = "sent" =>
        /\ p.tag \in Content
        /\ p.torn => Idle(p.tag)
        /\ ~p.torn => Lost(p.tag, p.body) \subseteq gone
        /\ ~p.over => Lost(p.body, screen) \subseteq gone
    /\ p.kind # "reset" /\ p.phase = "saved" /\ ~p.over =>
        Lost(p.result, screen) \subseteq gone

(* What is true of a fetch.                                                *)
GetOK(g, ids) ==
    /\ g \in GetRecord
    /\ g.kind \in {"run", "rescue"} => g.card \in Card
    /\ g.phase = "served" => g.body \in Content /\ SpentOn(g.body, ids)

(* What is true of a tab: its cards come from base but for those in gone,  *)
(* and a tag other than base is a saved board, in which nothing runs.      *)
TabInv(t, ids, gone) ==
    /\ t \in TabRecord
    /\ t.dirty => t.ready
    /\ SpentOn(t.screen, ids)
    /\ Lost(t.base, t.screen) \subseteq gone
    /\ t.tag # t.base => Idle(t.tag)
    /\ \A p \in t.puts : PutOK(p, t.screen, ids, gone)
    /\ \A g \in t.gets : GetOK(g, ids)

(* What is true of the server's rows.                                      *)
RowInv ==
    /\ row \in [Workspace -> Content]
    /\ \A w \in Workspace : SpentOn(row[w], fresh) /\ Whole(row[w])

(* The invariant. IDs of the workflow's columns are not new, since a board *)
(* may get them at any time.                                               *)
IInv ==
    /\ RowInv
    /\ TabInv(tab, fresh, removed)
    /\ stored \in Workspace
    /\ ToSet(FlowSections) \cap fresh = {}
    /\ fresh \cup removed \subseteq Section \cup Team \cup Agent \cup Card
    /\ fuel \in 0 .. MaxEvents

(* What the other device has asked for are runs of cards.                  *)
AwayOK == away \subseteq Workspace \X Card

(* The invariant implies the two that the runs check.                      *)
LEMMA InvImplies == IInv => (AwayOK => TypeOK) /\ NothingDangles
<1> SUFFICES ASSUME IInv PROVE (AwayOK => TypeOK) /\ NothingDangles
  OBVIOUS
<1>1. /\ tab \in TabRecord
      /\ tab.dirty => tab.ready
      /\ \A p \in tab.puts : PutOK(p, tab.screen, fresh, removed)
      /\ \A g \in tab.gets : GetOK(g, fresh)
  BY DEF IInv, TabInv
<1>2. \A p \in tab.puts : /\ p.phase = "saved" => p.result \in Content
                          /\ p.kind = "flow" => p.card \in Card
  BY <1>1 DEF PutOK
<1>3. \A g \in tab.gets : /\ g.phase = "served" => g.body \in Content
                          /\ g.kind \in {"run", "rescue"} => g.card \in Card
  BY <1>1 DEF GetOK
<1>4. row \in [Workspace -> Content] /\ NothingDangles
  BY DEF IInv, RowInv, NothingDangles
<1> QED
  BY <1>1, <1>2, <1>3, <1>4 DEF IInv, TypeOK, AwayOK

(* A request stays sound when IDs are used up, cards are removed by hand,  *)
(* and the screen loses only such cards.                                   *)
LEMMA PutLater ==
    ASSUME NEW p, NEW screen, NEW ids, NEW gone, NEW screen2, NEW ids2, NEW gone2,
           PutOK(p, screen, ids, gone), ids2 \subseteq ids, gone \subseteq gone2,
           Lost(screen, screen2) \subseteq gone2
    PROVE  PutOK(p, screen2, ids2, gone2)
<1>1. \A b : SpentOn(b, ids) => SpentOn(b, ids2)
  BY DEF SpentOn
<1>2. \A b : Lost(b, screen) \subseteq gone => Lost(b, screen2) \subseteq gone2
  BY DEF Lost
<1>3. \A b, c : Lost(b, c) \subseteq gone => Lost(b, c) \subseteq gone2
  OBVIOUS
<1> QED
  BY <1>1, <1>2, <1>3 DEF PutOK

(* A fetch stays sound when IDs are used up.                               *)
LEMMA GetLater ==
    ASSUME NEW g, NEW ids, NEW ids2, GetOK(g, ids), ids2 \subseteq ids
    PROVE  GetOK(g, ids2)
BY DEF GetOK, SpentOn

(* Any change of the screen keeps the tab sound that uses new IDs for new  *)
(* things and counts as removed what it takes away.                        *)
LEMMA ShowInv ==
    ASSUME NEW t, NEW ids, NEW gone, NEW b \in Content, NEW ids2, NEW gone2,
           TabInv(t, ids, gone), ids2 \subseteq ids, gone \subseteq gone2,
           SpentOn(b, ids2), Lost(t.screen, b) \subseteq gone2
    PROVE  TabInv(Show(t, b), ids2, gone2)
<1> DEFINE u == Show(t, b)
<1>1. t \in TabRecord
  BY DEF TabInv
<1>2. /\ u \in TabRecord /\ u.screen = b /\ u.dirty = t.ready /\ u.ready = t.ready
      /\ u.base = t.base /\ u.tag = t.tag /\ u.puts = t.puts /\ u.gets = t.gets
  BY <1>1 DEF Show, TabRecord
<1>3. Lost(t.base, b) \subseteq gone2
  BY DEF TabInv, Lost
<1>4. \A p \in t.puts : PutOK(p, b, ids2, gone2)
  BY PutLater DEF TabInv
<1>5. \A g \in t.gets : GetOK(g, ids2)
  BY GetLater DEF TabInv
<1> HIDE DEF u
<1>6. t.tag # t.base => Idle(t.tag)
  BY DEF TabInv
<1> QED
  BY <1>2, <1>3, <1>4, <1>5, <1>6 DEF TabInv, u

(* The tab is sound with any sound requests.                               *)
LEMMA PutsInv ==
    ASSUME NEW t, NEW ids, NEW gone, TabInv(t, ids, gone), NEW puts,
           \A p \in puts : PutOK(p, t.screen, ids, gone)
    PROVE  TabInv([t EXCEPT !.puts = puts], ids, gone)
<1> DEFINE u == [t EXCEPT !.puts = puts]
<1>1. t \in TabRecord
  BY DEF TabInv
<1>2. puts \in SUBSET PutRecord
  BY DEF PutOK
<1>3. /\ u \in TabRecord /\ u.screen = t.screen /\ u.dirty = t.dirty /\ u.ready = t.ready
      /\ u.base = t.base /\ u.tag = t.tag /\ u.puts = puts /\ u.gets = t.gets
  BY <1>1, <1>2 DEF TabRecord
<1> HIDE DEF u
<1> QED
  BY <1>3 DEF TabInv, u

(* The tab is sound with any sound fetches.                                *)
LEMMA GetsInv ==
    ASSUME NEW t, NEW ids, NEW gone, TabInv(t, ids, gone), NEW gets,
           \A g \in gets : GetOK(g, ids)
    PROVE  TabInv([t EXCEPT !.gets = gets], ids, gone)
<1> DEFINE u == [t EXCEPT !.gets = gets]
<1>1. t \in TabRecord
  BY DEF TabInv
<1>2. gets \in SUBSET GetRecord
  BY DEF GetOK
<1>3. /\ u \in TabRecord /\ u.screen = t.screen /\ u.dirty = t.dirty /\ u.ready = t.ready
      /\ u.base = t.base /\ u.tag = t.tag /\ u.puts = t.puts /\ u.gets = gets
  BY <1>1, <1>2 DEF TabRecord
<1> HIDE DEF u
<1> QED
  BY <1>3 DEF TabInv, u

(* The tab is sound with one more fetch.                                   *)
LEMMA AskingInv ==
    ASSUME NEW t, NEW ids, NEW gone, TabInv(t, ids, gone),
           NEW kind \in GetKinds, NEW w \in Workspace, NEW c \in Card \cup {Nobody},
           kind \in {"run", "rescue"} => c \in Card
    PROVE  TabInv(Asking(t, kind, w, c), ids, gone)
<1> DEFINE g == Get(kind, w, c)
           gets == t.gets \cup {g}
<1>1. GetOK(g, ids)
  BY DEF GetOK, Get, GetRecord
<1>2. \A h \in gets : GetOK(h, ids)
  BY <1>1 DEF TabInv
<1>3. t \in TabRecord
  BY DEF TabInv
<1>4. Asking(t, kind, w, c) = [t EXCEPT !.gets = gets]
  BY <1>3 DEF Asking
<1> HIDE DEF gets
<1> QED
  BY <1>2, <1>4, GetsInv

(* A new request is sound: its tag is the board its cards come from, or a  *)
(* board in which nothing runs.                                            *)
LEMMA PutMade ==
    ASSUME NEW t, NEW ids, NEW gone, TabInv(t, ids, gone), NEW kind \in PutKinds,
           NEW b \in Content, NEW c \in Card \cup {Nobody},
           kind = "flow" => c \in Card,
           SpentOn(b, ids), Lost(t.screen, b) = {}, NEW screen, Lost(b, screen) = {}
    PROVE  PutOK(Put(t, kind, b, c), screen, ids, gone)
<1> DEFINE p == Put(t, kind, b, c)
<1>1. /\ t \in TabRecord
      /\ t.tag # t.base => Idle(t.tag)
      /\ Lost(t.base, t.screen) \subseteq gone
  BY DEF TabInv
<1>2. t.tag \in Content /\ t.base \in Content /\ t.active \in Workspace
  BY <1>1 DEF TabRecord
<1>3. Lost(t.base, b) \subseteq gone
  BY <1>1 DEF Lost
<1>4. /\ p.kind = kind /\ p.card = c /\ p.phase = "sent" /\ p.body = b /\ p.over = FALSE
      /\ p.torn = (t.tag # t.base) /\ p.tag = IF kind = "reset" THEN Nothing ELSE t.tag
  BY DEF Put
<1>5. p \in PutRecord
  BY <1>2 DEF Put, PutRecord
<1> HIDE DEF p
<1> QED
  BY <1>1, <1>2, <1>3, <1>4, <1>5 DEF PutOK, p

(* A board has lost nothing to itself.                                     *)
LEMMA QuietScreens ==
    ASSUME NEW b
    PROVE  Lost(b, b) = {}
BY DEF Lost

(* Requests that another answer has overtaken say nothing of the screen    *)
(* any more, and are sound whatever it shows.                              *)
LEMMA OvertakenInv ==
    ASSUME NEW t, NEW ids, NEW gone, TabInv(t, ids, gone), NEW screen
    PROVE  \A p \in Overtaken(t.puts) : PutOK(p, screen, ids, gone)
<1> TAKE q \in Overtaken(t.puts)
<1>1. PICK p \in t.puts : q = [p EXCEPT !.over = TRUE]
  BY DEF Overtaken
<1>2. PutOK(p, t.screen, ids, gone)
  BY DEF TabInv
<1>3. p \in PutRecord
  BY <1>2 DEF PutOK
<1>4. /\ q \in PutRecord /\ q.over = TRUE /\ q.kind = p.kind /\ q.card = p.card
      /\ q.body = p.body /\ q.phase = p.phase /\ q.result = p.result /\ q.tag = p.tag
      /\ q.torn = p.torn
  BY <1>1, <1>3 DEF PutRecord
<1> QED
  BY <1>2, <1>4 DEF PutOK

(* Putting a card back in the queue keeps the tab sound.                   *)
LEMMA RequeuedInv ==
    ASSUME NEW t, NEW ids, NEW gone, TabInv(t, ids, gone), NEW c \in Card
    PROVE  TabInv(Requeued(t, c), ids, gone)
<1>1. t.screen \in Content /\ SpentOn(t.screen, ids)
  BY DEF TabInv, TabRecord
<1>2. CASE t.screen.cards[c].exec = "absent"
  BY <1>2 DEF Requeued
<1>3. CASE t.screen.cards[c].exec # "absent"
  <2> DEFINE b == [t.screen EXCEPT !.cards[c].exec = "queued"]
             screen == t.screen
  <2>1. c \in Cards(screen) /\ screen \in Content
    BY <1>1, <1>3 DEF Cards
  <2>2. b \in Content /\ SameIds(b, screen) /\ Cards(b) = Cards(screen)
    <3> DEFINE x == [screen EXCEPT !.cards[c].exec = "queued"]
    <3> HIDE DEF screen
    <3>1. x \in Content /\ SameIds(x, screen) /\ Cards(x) = Cards(screen)
      BY <2>1, ExecKept
    <3> QED
      BY <3>1 DEF screen
  <2>5. Requeued(t, c) = Show(t, b)
    BY <1>3 DEF Requeued
  <2> HIDE DEF b
  <2>6. SpentOn(b, ids) /\ Lost(t.screen, b) = {}
    BY <1>1, <2>2 DEF SameIds, SpentOn, Lost
  <2> QED
    BY <2>2, <2>5, <2>6, ShowInv
<1> QED
  BY <1>2, <1>3

---------------------------------------------------------------------------
(* What the user does, and the debounce.                                   *)

(* An event takes fuel, and never more than there is.                      *)
LEMMA FuelLater ==
    ASSUME fuel \in 0 .. MaxEvents, NEW what, Happens(what)
    PROVE  fuel' \in 0 .. MaxEvents
<1>1. MaxEvents \in Nat
  BY ClientAssumption
<1> QED
  BY <1>1 DEF Happens

(* A step that changes the tab alone keeps the invariant if the tab stays  *)
(* sound.                                                                  *)
LEMMA TabChanges ==
    ASSUME IInv, UNCHANGED <<row, stored, fresh, removed>>, fuel' \in 0 .. MaxEvents,
           TabInv(tab', fresh, removed)
    PROVE  IInv'
<1>1. RowInv'
  BY DEF IInv, RowInv
<1>2. TabInv(tab, fresh, removed)'
  OBVIOUS
<1> QED
  BY <1>1, <1>2 DEF IInv

(* What the invariant says of the tab.                                     *)
LEMMA ScreenType ==
    ASSUME IInv
    PROVE  /\ tab.screen \in Content /\ tab.tag \in Content /\ tab.base \in Content
           /\ tab.active \in Workspace /\ SpentOn(tab.screen, fresh)
           /\ tab \in TabRecord
           /\ \A p \in tab.puts : PutOK(p, tab.screen, fresh, removed)
           /\ \A g \in tab.gets : GetOK(g, fresh)
<1>1. tab \in TabRecord
  BY DEF IInv, TabInv
<1>2. /\ tab.screen \in Content /\ tab.tag \in Content /\ tab.base \in Content
      /\ tab.active \in Workspace
  BY <1>1 DEF TabRecord
<1> QED
  BY <1>1, <1>2 DEF IInv, TabInv

(* What an edit takes away are columns and cards, with every card that     *)
(* goes.                                                                   *)
LEMMA RemovedIds ==
    ASSUME NEW b \in Content, NEW c \in Content
    PROVE  /\ RemovedBy(b, c) \subseteq Section \cup Card
           /\ Lost(b, c) \subseteq RemovedBy(b, c)
<1>1. Sections(b) \subseteq Section
  BY ContentParts
<1> QED
  BY <1>1 DEF RemovedBy, Lost, Cards

(* An edit keeps the invariant.                                            *)
LEMMA EditStep ==
    ASSUME IInv, NEW kind \in EditKinds, Edit(kind)
    PROVE  IInv'
<1>1. PICK edited \in EditsOfKind(kind, tab.screen, fresh) :
        /\ tab' = Show(tab, edited)
        /\ fresh' = fresh \ IdsOf(edited)
        /\ removed' = removed \cup RemovedBy(tab.screen, edited)
  BY DEF Edit
<1>2. tab.screen \in Content /\ SpentOn(tab.screen, fresh) /\ TabInv(tab, fresh, removed)
  BY ScreenType DEF IInv
<1>3. edited \in Content
  BY <1>2, EditType DEF SpentOn
<1>4. SpentOn(edited, fresh')
  BY <1>1 DEF SpentOn, IdsOf
<1>5. /\ Lost(tab.screen, edited) \subseteq removed'
      /\ RemovedBy(tab.screen, edited) \subseteq Section \cup Card
  BY <1>1, <1>2, <1>3, RemovedIds
<1>6. fresh' \subseteq fresh /\ removed \subseteq removed'
  BY <1>1
<1>7. TabInv(tab', fresh', removed')
  BY <1>1, <1>2, <1>3, <1>4, <1>5, <1>6, ShowInv
<1>8. RowInv'
  BY <1>6 DEF Edit, IInv, RowInv, SpentOn
<1>9. fuel' \in 0 .. MaxEvents
  BY FuelLater DEF Edit, IInv
<1>10. fresh' \cup removed' \subseteq Section \cup Team \cup Agent \cup Card
  BY <1>1, <1>5, <1>6 DEF IInv
<1>11. stored' \in Workspace /\ ToSet(FlowSections) \cap fresh' = {}
  BY <1>6 DEF Edit, IInv
<1> QED
  BY <1>7, <1>8, <1>9, <1>10, <1>11 DEF IInv

(* Starting a card keeps the invariant: the card stays on the screen.      *)
LEMMA RunStep ==
    ASSUME IInv, NEW c \in Card, Run(c)
    PROVE  IInv'
<1>1. PICK started \in StartTask(tab.screen, c) :
        tab' = Asking(Show(tab, started), "run", tab.active, c)
  BY DEF Run
<1>2. /\ tab.screen \in Content /\ tab.active \in Workspace
      /\ SpentOn(tab.screen, fresh) /\ TabInv(tab, fresh, removed)
  BY ScreenType DEF IInv
<1>3. c \in Cards(tab.screen)
  BY DEF Run, Live
<1>4. started \in Content
  BY <1>2, CardEdits
<1>5. SameIds(started, tab.screen) /\ Cards(started) = Cards(tab.screen)
  <2> DEFINE b == tab.screen
  <2>1. PICK s \in StartColumns(b, b.cards[c]) :
            started = [b EXCEPT !.cards[c].exec = "active", !.cards[c].at = s]
    BY <1>1 DEF StartTask
  <2> HIDE DEF b
  <2>2. b \in Content /\ c \in Cards(b)
    BY <1>2, <1>3 DEF b
  <2>3. s \in Section
    BY <2>2, ContentParts, NoCardType DEF StartColumns, CardRecord, Cards
  <2> DEFINE y == [b EXCEPT !.cards[c].exec = "active", !.cards[c].at = s]
  <2>4. SameIds(y, b) /\ Cards(y) = Cards(b)
    BY <2>2, <2>3, ExecFacts
  <2> QED
    BY <2>1, <2>4 DEF b
<1>6. SpentOn(started, fresh) /\ Lost(tab.screen, started) = {}
  BY <1>2, <1>5 DEF SameIds, SpentOn, Lost
<1>7. TabInv(Show(tab, started), fresh, removed)
  BY <1>2, <1>4, <1>6, ShowInv
<1>8. TabInv(tab', fresh, removed)
  BY <1>1, <1>2, <1>7, AskingInv DEF GetKinds
<1> QED
  BY <1>8, TabChanges, FuelLater DEF Run, IInv

(* The flags of a tab, its workspace and what it last saved do not matter, *)
(* as long as a save is due only in a loaded tab.                          *)
LEMMA SameBoards ==
    ASSUME NEW t, NEW ids, NEW gone, TabInv(t, ids, gone), NEW u \in TabRecord,
           u.screen = t.screen, u.base = t.base, u.tag = t.tag,
           u.puts = t.puts, u.gets = t.gets, u.dirty => u.ready
    PROVE  TabInv(u, ids, gone)
BY DEF TabInv

(* A new workflow keeps the invariant: the saved board and the one on the  *)
(* screen have the same cards, and the columns of the workflow were never  *)
(* new IDs.                                                                *)
LEMMA LaunchStep ==
    ASSUME IInv, NEW c \in Card, Launch(c)
    PROVE  IInv'
<1> DEFINE launched == NewFlowCard(tab.screen, c)
           queued == [launched EXCEPT !.cards[c].exec = "queued"]
           put == Put(tab, "flow", queued, c)
           shown == Show(tab, launched)
           puts == tab.puts \cup {put}
<1>1. /\ tab' = [shown EXCEPT !.held = TRUE, !.puts = @ \cup {put}]
      /\ fresh' = fresh \ IdsOf(launched)
      /\ row' = row /\ stored' = stored /\ removed' = removed
  BY DEF Launch
<1>2. /\ tab.screen \in Content /\ tab \in TabRecord
      /\ SpentOn(tab.screen, fresh) /\ TabInv(tab, fresh, removed)
      /\ \A p \in tab.puts : PutOK(p, tab.screen, fresh, removed)
  BY ScreenType DEF IInv
<1>3. /\ launched \in Content /\ queued \in Content
      /\ launched.cards[c].exec = "active"
      /\ \A d \in Card \ {c} : launched.cards[d] = tab.screen.cards[d]
  BY <1>2, NewFlowCardType
<1>4. launched.sections = WithFlowSections(tab.screen.sections)
      /\ launched.teams = tab.screen.teams
  BY <1>2, ContentParts DEF NewFlowCard
<1>5. SpentOn(launched, fresh)
  <2>1. Sections(launched) = Sections(tab.screen) \cup ToSet(FlowSections)
    BY <1>2, <1>4, ContentParts, WithFlowSectionsFacts DEF Sections
  <2>2. Teams(launched) = Teams(tab.screen)
    BY <1>4 DEF Teams
  <2>3. ToSet(FlowSections) \cap fresh = {}
    BY DEF IInv
  <2> HIDE DEF launched
  <2> QED
    BY <1>2, <2>1, <2>2, <2>3 DEF SpentOn
<1> HIDE DEF launched
<1>6. c \in Cards(launched) /\ Lost(tab.screen, launched) = {}
  BY <1>3 DEF Cards, Lost
<1>7. SameIds(queued, launched) /\ Cards(queued) = Cards(launched)
  BY <1>3, <1>6, ExecKept
<1> HIDE DEF queued
<1>8. /\ SpentOn(queued, fresh) /\ Lost(tab.screen, queued) = {} /\ Lost(queued, launched) = {}
  BY <1>5, <1>6, <1>7 DEF SameIds, SpentOn, Lost
<1>9. PutOK(put, launched, fresh, removed)
  BY <1>2, <1>3, <1>8, PutMade DEF PutKinds
<1>10. fresh' \subseteq fresh /\ SpentOn(launched, fresh')
  BY <1>1, <1>5 DEF SpentOn
<1> HIDE DEF put
<1>11. TabInv(shown, fresh', removed)
  BY <1>2, <1>3, <1>6, <1>10, ShowInv
<1>12. /\ shown \in TabRecord /\ shown.screen = launched /\ shown.puts = tab.puts
  BY <1>2, <1>3 DEF Show, TabRecord
<1> HIDE DEF shown
<1>13. \A p \in puts : PutOK(p, launched, fresh', removed)
  <2>1. Lost(launched, launched) \subseteq removed /\ Lost(tab.screen, launched) \subseteq removed
    BY <1>6, QuietScreens
  <2>2. PutOK(put, launched, fresh', removed)
    BY <1>9, <1>10, <2>1, PutLater
  <2>3. \A p \in tab.puts : PutOK(p, launched, fresh', removed)
    BY <1>2, <1>10, <2>1, PutLater
  <2> QED
    BY <2>2, <2>3
<1> HIDE DEF puts
<1>14. TabInv([shown EXCEPT !.puts = puts], fresh', removed)
  BY <1>11, <1>12, <1>13, PutsInv
<1>15. TabInv(tab', fresh', removed)
  <2> DEFINE t == [shown EXCEPT !.puts = puts]
  <2>1. tab' = [t EXCEPT !.held = TRUE]
    BY <1>1, <1>12 DEF TabRecord, puts
  <2>2. t \in TabRecord /\ (t.dirty => t.ready)
    BY <1>14 DEF TabInv
  <2> HIDE DEF t
  <2>3. /\ tab' \in TabRecord
        /\ tab'.screen = t.screen /\ tab'.base = t.base /\ tab'.tag = t.tag
        /\ tab'.puts = t.puts /\ tab'.gets = t.gets /\ (tab'.dirty => tab'.ready)
    BY <2>1, <2>2 DEF TabRecord
  <2>4. TabInv(t, fresh', removed)
    BY <1>14 DEF t
  <2> QED
    BY <2>3, <2>4, SameBoards
<1>16. RowInv'
  BY <1>1, <1>10 DEF IInv, RowInv, SpentOn
<1>17. fuel' \in 0 .. MaxEvents
  BY FuelLater DEF Launch, IInv
<1> QED
  BY <1>1, <1>10, <1>15, <1>16, <1>17 DEF IInv

(* Resetting the board keeps the invariant: no card goes, and saves not    *)
(* yet seen are dropped.                                                   *)
LEMMA ResetStep ==
    ASSUME IInv, ResetBoard
    PROVE  IInv'
<1> DEFINE trashed == TrashAll(tab.screen)
           put == Put(tab, "reset", trashed, Nobody)
           shown == Show(tab, trashed)
           puts == {p \in tab.puts : p.kind # "save"} \cup {put}
<1>1. /\ tab' = [shown EXCEPT !.puts = {p \in @ : p.kind # "save"} \cup {put}]
      /\ removed' = removed \cup RemovedBy(tab.screen, trashed)
      /\ row' = row /\ stored' = stored /\ fresh' = fresh
  BY DEF ResetBoard
<1>2. /\ tab.screen \in Content /\ tab \in TabRecord
      /\ SpentOn(tab.screen, fresh) /\ TabInv(tab, fresh, removed)
      /\ \A p \in tab.puts : PutOK(p, tab.screen, fresh, removed)
  BY ScreenType DEF IInv
<1>3. /\ trashed \in Content /\ Sections(trashed) = ToSet(FlowSections)
      /\ Teams(trashed) = Teams(tab.screen) /\ Cards(trashed) = Cards(tab.screen)
  BY <1>2, AllCardEdits, TrashFacts
<1>4. SpentOn(trashed, fresh) /\ Lost(tab.screen, trashed) = {} /\ Lost(trashed, trashed) = {}
  BY <1>2, <1>3 DEF IInv, SpentOn, Lost
<1>5. /\ removed \subseteq removed'
      /\ removed' \subseteq Section \cup Team \cup Agent \cup Card
  BY <1>1, <1>2, <1>3, RemovedIds DEF IInv
<1> HIDE DEF trashed
<1>6. PutOK(put, trashed, fresh, removed)
  BY <1>2, <1>3, <1>4, PutMade DEF PutKinds
<1> HIDE DEF put
<1>7. TabInv(shown, fresh, removed')
  BY <1>2, <1>3, <1>4, <1>5, ShowInv
<1>8. /\ shown \in TabRecord /\ shown.screen = trashed /\ shown.puts = tab.puts
  BY <1>2, <1>3 DEF Show, TabRecord
<1>9. \A p \in puts : PutOK(p, trashed, fresh, removed')
  <2>1. Lost(trashed, trashed) \subseteq removed' /\ Lost(tab.screen, trashed) \subseteq removed'
    BY <1>4
  <2>2. PutOK(put, trashed, fresh, removed')
    BY <1>5, <1>6, <2>1, PutLater
  <2>3. \A p \in tab.puts : PutOK(p, trashed, fresh, removed')
    BY <1>2, <1>5, <2>1, PutLater
  <2> QED
    BY <2>2, <2>3
<1>10. tab' = [shown EXCEPT !.puts = puts]
  BY <1>1, <1>8 DEF TabRecord
<1> HIDE DEF puts, shown
<1>11. TabInv(tab', fresh', removed')
  BY <1>1, <1>7, <1>8, <1>9, <1>10, PutsInv
<1>12. RowInv'
  BY <1>1 DEF IInv, RowInv
<1>13. fuel' \in 0 .. MaxEvents
  BY FuelLater DEF ResetBoard, IInv
<1> QED
  BY <1>1, <1>5, <1>11, <1>12, <1>13 DEF IInv

(* The end of the debounce keeps the invariant, whether a PUT goes out or  *)
(* not.                                                                    *)
LEMMA PersistStep ==
    ASSUME IInv, Persist \/ SkipPersist
    PROVE  IInv'
<1> DEFINE put == Put(tab, "save", tab.screen, Nobody)
           puts == {p \in tab.puts : p.kind # "save"} \cup {put}
           calm == [tab EXCEPT !.dirty = FALSE]
<1>1. /\ tab \in TabRecord /\ TabInv(tab, fresh, removed) /\ tab.screen \in Content
      /\ SpentOn(tab.screen, fresh)
      /\ \A p \in tab.puts : PutOK(p, tab.screen, fresh, removed)
  BY ScreenType DEF IInv
<1>2. PutOK(put, tab.screen, fresh, removed)
  BY <1>1, PutMade, QuietScreens DEF PutKinds
<1>3. TabInv(calm, fresh, removed)
  <2>1. /\ calm \in TabRecord /\ calm.screen = tab.screen /\ calm.base = tab.base
        /\ calm.tag = tab.tag /\ calm.puts = tab.puts /\ calm.gets = tab.gets
        /\ calm.dirty = FALSE
    BY <1>1 DEF TabRecord
  <2> HIDE DEF calm
  <2> QED
    BY <1>1, <2>1, SameBoards
<1>4. calm.screen = tab.screen /\ calm \in TabRecord
  BY <1>1 DEF TabRecord
<1> HIDE DEF put
<1>5. CASE SkipPersist
  BY <1>3, <1>5, TabChanges DEF SkipPersist, IInv
<1>6. CASE Persist
  <2>1. tab' = [calm EXCEPT !.puts = puts]
    BY <1>1, <1>6 DEF Persist, TabRecord, put
  <2>2. \A p \in puts : PutOK(p, calm.screen, fresh, removed)
    BY <1>1, <1>2, <1>4
  <2> HIDE DEF calm, puts
  <2>3. TabInv(tab', fresh, removed)
    BY <1>3, <2>1, <2>2, PutsInv
  <2> QED
    BY <1>6, <2>3, TabChanges DEF Persist, IInv
<1> QED
  BY <1>5, <1>6

---------------------------------------------------------------------------
(* Saving.                                                                 *)

(* What a PUT that the server accepts saves. A card beyond the body's ran  *)
(* on the server when the tag matched; the tag is the board the cards come *)
(* from, so somebody removed the card by hand, or a board in which nothing *)
(* runs.                                                                   *)
LEMMA SavedFacts ==
    ASSUME IInv, NEW p \in tab.puts, p.phase = "sent", Matches(p)
    PROVE  /\ p.ws \in Workspace /\ Saved(p) \in Content
           /\ SpentOn(Saved(p), fresh) /\ Idle(Saved(p)) /\ Whole(Saved(p))
           /\ p.kind # "reset" /\ ~p.over => Lost(Saved(p), tab.screen) \subseteq removed
           /\ p.kind # "reset" /\ ~p.torn => Lost(row[p.ws], Saved(p)) \subseteq removed
<1> DEFINE srv == row[p.ws]
<1>1. PutOK(p, tab.screen, fresh, removed)
  BY ScreenType
<1>2. p \in PutRecord /\ SpentOn(p.body, fresh)
  BY <1>1 DEF PutOK
<1>3. p.ws \in Workspace /\ p.body \in Content
  BY <1>2 DEF PutRecord
<1>4. srv \in Content
  BY <1>3 DEF IInv, RowInv
<1>5. CASE p.kind = "reset"
  <2>1. Saved(p) = Normalize(p.body)
    BY <1>5 DEF Saved
  <2>2. /\ Saved(p) \in Content /\ SameIds(Saved(p), p.body)
        /\ Idle(Saved(p)) /\ Whole(Saved(p))
    BY <1>3, <2>1, NormalizeFacts
  <2> QED
    BY <1>2, <1>3, <1>5, <2>2 DEF SameIds, SpentOn
<1>6. CASE p.kind # "reset"
  <2> DEFINE merged == MergeBoard(srv, p.body)
  <2>1. Saved(p) = Normalize(merged) /\ p.tag = srv
    BY <1>6 DEF Saved, Matches
  <2>2. /\ merged \in Content /\ SameIds(merged, p.body)
        /\ Lost(srv, merged) \subseteq Lost(srv, p.body)
        /\ \A c \in Cards(merged) : c \in Cards(p.body) \/ Running(srv.cards[c])
    BY <1>3, <1>4, MergeFacts
  <2> HIDE DEF merged
  <2>3. /\ Saved(p) \in Content /\ SameIds(Saved(p), merged)
        /\ Cards(Saved(p)) = Cards(merged) /\ Idle(Saved(p)) /\ Whole(Saved(p))
    BY <2>1, <2>2, NormalizeFacts
  <2>4. SpentOn(Saved(p), fresh)
    BY <1>2, <2>2, <2>3 DEF SameIds, SpentOn
  <2>5. /\ p.torn => Idle(srv)
        /\ ~p.torn => Lost(srv, p.body) \subseteq removed
        /\ ~p.over => Lost(p.body, tab.screen) \subseteq removed
    BY <1>1, <1>6, <2>1 DEF PutOK
  <2>6. ASSUME ~p.torn PROVE Lost(srv, Saved(p)) \subseteq removed
    BY <2>2, <2>3, <2>5, <2>6 DEF Lost
  <2>7. ASSUME ~p.over, NEW c \in Lost(Saved(p), tab.screen) PROVE c \in removed
    <3>1. c \in Card /\ c \in Cards(merged) /\ c \notin Cards(tab.screen)
      BY <2>3, <2>7 DEF Lost, Cards
    <3>2. CASE c \in Cards(p.body)
      BY <2>5, <2>7, <3>1, <3>2 DEF Lost
    <3>3. CASE c \notin Cards(p.body)
      <4>1. Running(srv.cards[c])
        BY <2>2, <3>1, <3>3
      <4>2. ~p.torn
        BY <2>5, <3>1, <4>1 DEF Idle
      <4>3. c \in Cards(srv)
        BY <3>1, <4>1 DEF Running, Cards
      <4> QED
        BY <2>5, <3>3, <4>2, <4>3 DEF Lost
    <3> QED
      BY <3>2, <3>3
  <2> QED
    BY <1>3, <2>3, <2>4, <2>6, <2>7
<1> QED
  BY <1>5, <1>6

(* A row that is replaced by a sound board.                                *)
LEMMA RowChanges ==
    ASSUME RowInv, NEW w \in Workspace, NEW b \in Content, row' = [row EXCEPT ![w] = b],
           fresh' \subseteq fresh, SpentOn(b, fresh'), Whole(b)
    PROVE  RowInv'
<1>1. row' \in [Workspace -> Content]
  BY DEF RowInv
<1>2. ASSUME NEW v \in Workspace PROVE SpentOn(row'[v], fresh') /\ Whole(row'[v])
  <2>1. row'[v] = IF v = w THEN b ELSE row[v]
    BY DEF RowInv
  <2>2. SpentOn(row[v], fresh') /\ Whole(row[v])
    BY DEF RowInv, SpentOn
  <2> QED
    BY <2>1, <2>2
<1> QED
  BY <1>1, <1>2 DEF RowInv

(* The server's answer to a PUT keeps the invariant.                       *)
LEMMA PutServeStep ==
    ASSUME IInv, NEW p \in tab.puts, PutServe(p)
    PROVE  IInv'
<1> DEFINE saved == [p EXCEPT !.phase = "saved", !.result = Saved(p)]
           refused == [p EXCEPT !.phase = "refused"]
<1>1. /\ TabInv(tab, fresh, removed) /\ p.phase = "sent"
      /\ tab \in TabRecord
      /\ \A q \in tab.puts : PutOK(q, tab.screen, fresh, removed)
      /\ PutOK(p, tab.screen, fresh, removed)
  BY ScreenType DEF IInv, PutServe
<1>2. p \in PutRecord
  BY <1>1 DEF PutOK
<1>3. /\ stored' = stored /\ fresh' = fresh /\ removed' = removed /\ fuel' = fuel
  BY DEF PutServe
<1>4. ASSUME NEW q, PutOK(q, tab.screen, fresh, removed), tab' = Instead(tab, p, q)
      PROVE  TabInv(tab', fresh, removed)
  <2> DEFINE puts == (tab.puts \ {p}) \cup {q}
  <2>1. tab' = [tab EXCEPT !.puts = puts]
    BY <1>1, <1>4 DEF Instead
  <2>2. \A r \in puts : PutOK(r, tab.screen, fresh, removed)
    BY <1>1, <1>4
  <2> HIDE DEF puts
  <2> QED
    BY <1>1, <2>1, <2>2, PutsInv
<1>5. CASE Matches(p)
  <2>1. row' = [row EXCEPT ![p.ws] = Saved(p)] /\ tab' = Instead(tab, p, saved)
    BY <1>5 DEF PutServe
  <2>2. /\ p.ws \in Workspace /\ Saved(p) \in Content
        /\ SpentOn(Saved(p), fresh) /\ Idle(Saved(p)) /\ Whole(Saved(p))
        /\ p.kind # "reset" /\ ~p.over => Lost(Saved(p), tab.screen) \subseteq removed
    BY <1>1, <1>5, SavedFacts
  <2>3. /\ saved \in PutRecord /\ saved.phase = "saved" /\ saved.result = Saved(p)
        /\ saved.kind = p.kind /\ saved.card = p.card /\ saved.body = p.body
        /\ saved.over = p.over
    BY <1>2, <2>2 DEF PutRecord
  <2> HIDE DEF saved
  <2>4. PutOK(saved, tab.screen, fresh, removed)
    BY <1>1, <2>2, <2>3 DEF PutOK
  <2>5. TabInv(tab', fresh, removed)
    BY <1>4, <2>1, <2>4
  <2>6. RowInv'
    BY <1>3, <2>1, <2>2, RowChanges DEF IInv
  <2> QED
    BY <1>3, <2>5, <2>6 DEF IInv
<1>6. CASE ~Matches(p)
  <2>1. row' = row /\ tab' = Instead(tab, p, refused)
    BY <1>6 DEF PutServe
  <2>2. /\ refused \in PutRecord /\ refused.phase = "refused"
        /\ refused.kind = p.kind /\ refused.card = p.card /\ refused.body = p.body
    BY <1>2 DEF PutRecord
  <2> HIDE DEF refused
  <2>3. PutOK(refused, tab.screen, fresh, removed)
    BY <1>1, <2>2 DEF PutOK
  <2>4. TabInv(tab', fresh, removed)
    BY <1>4, <2>1, <2>3
  <2> QED
    BY <1>3, <2>1, <2>4, TabChanges DEF IInv
<1> QED
  BY <1>5, <1>6

(* A tab with one request less is sound.                                   *)
LEMMA WithoutInv ==
    ASSUME NEW t, NEW ids, NEW gone, TabInv(t, ids, gone), NEW p
    PROVE  TabInv(Without(t, p), ids, gone)
<1> DEFINE puts == t.puts \ {p}
<1>1. t \in TabRecord /\ \A q \in puts : PutOK(q, t.screen, ids, gone)
  BY DEF TabInv
<1>2. Without(t, p) = [t EXCEPT !.puts = puts]
  BY <1>1 DEF Without
<1> HIDE DEF puts
<1> QED
  BY <1>1, <1>2, PutsInv

(* A tab that takes over tag and cards of an answer is sound, and all its  *)
(* requests are overtaken.                                                 *)
LEMMA AdoptedInv ==
    ASSUME NEW t, NEW ids, NEW gone, TabInv(t, ids, gone), NEW u \in TabRecord,
           u.tag = u.base, Cards(u.base) = Cards(u.screen), SpentOn(u.screen, ids),
           u.puts = Overtaken(t.puts), u.gets \subseteq t.gets, u.dirty => u.ready
    PROVE  TabInv(u, ids, gone)
<1>1. \A p \in u.puts : PutOK(p, u.screen, ids, gone)
  BY OvertakenInv
<1>2. Lost(u.base, u.screen) = {}
  BY DEF Lost
<1>3. \A g \in u.gets : GetOK(g, ids)
  BY DEF TabInv
<1> QED
  BY <1>1, <1>2, <1>3 DEF TabInv

(* The use of the answer to a PUT keeps the invariant: what the request    *)
(* was made from is what the screen comes from, unless another answer came *)
(* in between, and then nothing runs in the tag.                           *)
LEMMA PutAnswerStep ==
    ASSUME IInv, NEW p \in tab.puts, PutAnswer(p)
    PROVE  IInv'
<1> DEFINE t == Without(tab, p)
           tagged == [t EXCEPT !.tag = p.result, !.base = IF p.over THEN @ ELSE p.result]
<1>1. /\ TabInv(tab, fresh, removed) /\ tab \in TabRecord
      /\ PutOK(p, tab.screen, fresh, removed) /\ p.phase = "saved"
  BY ScreenType DEF IInv, PutAnswer
<1>2. /\ p \in PutRecord /\ p.result \in Content
      /\ SpentOn(p.result, fresh) /\ Idle(p.result)
      /\ p.kind = "flow" => p.card \in Card
      /\ p.kind # "reset" /\ ~p.over => Lost(p.result, tab.screen) \subseteq removed
  BY <1>1 DEF PutOK
<1>3. p.body \in Content /\ p.kind \in PutKinds
  BY <1>2 DEF PutRecord
<1>4. TabInv(t, fresh, removed)
  BY <1>1, WithoutInv
<1>5. /\ t \in TabRecord /\ t.screen = tab.screen /\ t.active = tab.active
      /\ t.screen \in Content /\ t.active \in Workspace
  <2>1. t \in TabRecord
    BY <1>4 DEF TabInv
  <2>2. t.screen = tab.screen /\ t.active = tab.active
    BY <1>1 DEF Without, TabRecord
  <2> QED
    BY <2>1, <2>2, ScreenType
<1> HIDE DEF t
<1>6. /\ tagged \in TabRecord /\ tagged.screen = t.screen /\ tagged.tag = p.result
      /\ tagged.base = IF p.over THEN t.base ELSE p.result
      /\ tagged.dirty = t.dirty /\ tagged.ready = t.ready
      /\ tagged.puts = t.puts /\ tagged.gets = t.gets
  BY <1>2, <1>5 DEF TabRecord
<1>7. \/ p.kind = "save" /\ tab' = [tagged EXCEPT !.saved = p.body]
      \/ p.kind = "flow" /\ tab' = Asking(tagged, "run", t.active, p.card)
      \/ /\ p.kind = "reset"
         /\ tab' = [Show(tagged, [t.screen EXCEPT !.cards = p.result.cards,
                                                  !.sections = p.result.sections])
                        EXCEPT !.base = p.result, !.puts = Overtaken(@)]
  BY DEF PutAnswer, t
<1> HIDE DEF tagged
<1>8. ASSUME p.kind # "reset" PROVE TabInv(tagged, fresh, removed)
  <2>1. Lost(tagged.base, tagged.screen) \subseteq removed
    BY <1>2, <1>4, <1>5, <1>6, <1>8 DEF TabInv
  <2>2. tagged.tag # tagged.base => Idle(tagged.tag)
    BY <1>2, <1>6
  <2> QED
    BY <1>4, <1>6, <2>1, <2>2 DEF TabInv
<1> SUFFICES TabInv(tab', fresh, removed)
  BY TabChanges DEF PutAnswer, IInv
<1>9. CASE p.kind = "save" /\ tab' = [tagged EXCEPT !.saved = p.body]
  <2>1. /\ tab' \in TabRecord
        /\ tab'.screen = tagged.screen /\ tab'.base = tagged.base /\ tab'.tag = tagged.tag
        /\ tab'.puts = tagged.puts /\ tab'.gets = tagged.gets
        /\ tab'.dirty = tagged.dirty /\ tab'.ready = tagged.ready
    BY <1>3, <1>6, <1>9 DEF TabRecord
  <2>2. tagged.dirty => tagged.ready
    BY <1>4, <1>6 DEF TabInv
  <2> QED
    BY <1>8, <1>9, <2>1, <2>2, SameBoards
<1>10. CASE p.kind = "flow" /\ tab' = Asking(tagged, "run", t.active, p.card)
  BY <1>2, <1>5, <1>8, <1>10, AskingInv DEF GetKinds
<1>11. CASE /\ p.kind = "reset"
            /\ tab' = [Show(tagged, [t.screen EXCEPT !.cards = p.result.cards,
                                                     !.sections = p.result.sections])
                           EXCEPT !.base = p.result, !.puts = Overtaken(@)]
  <2> DEFINE b == [t.screen EXCEPT !.cards = p.result.cards, !.sections = p.result.sections]
             mid == [t.screen EXCEPT !.cards = p.result.cards]
  <2>1. mid \in Content /\ b = [mid EXCEPT !.sections = p.result.sections]
    BY <1>2, <1>5, ContentParts, CardsChange
  <2>2. b.cards = p.result.cards /\ b.sections = p.result.sections /\ b.teams = t.screen.teams
    BY <1>5, ContentParts
  <2> HIDE DEF mid
  <2>3. b \in Content
    BY <1>2, <2>1, ContentParts, ColumnsChange
  <2>4. tab' = [Show(tagged, b) EXCEPT !.base = p.result, !.puts = Overtaken(@)]
    BY <1>11
  <2> HIDE DEF b
  <2>5. Cards(b) = Cards(p.result) /\ SpentOn(b, fresh)
    BY <1>2, <1>4, <2>2 DEF Cards, SpentOn, Sections, Teams, TabInv
  <2>6. Overtaken(t.puts) \in SUBSET PutRecord
    BY <1>4, OvertakenInv DEF PutOK
  <2>7. /\ tab' \in TabRecord
        /\ tab'.screen = b /\ tab'.base = p.result /\ tab'.tag = p.result
        /\ tab'.puts = Overtaken(t.puts) /\ tab'.gets = t.gets
        /\ tab'.dirty = t.ready /\ tab'.ready = t.ready
    BY <1>2, <1>6, <2>3, <2>4, <2>6 DEF Show, TabRecord
  <2> QED
    BY <1>4, <2>5, <2>7, AdoptedInv
<1> QED
  BY <1>7, <1>9, <1>10, <1>11

(* A 412 keeps the invariant.                                              *)
LEMMA PutRefusedStep ==
    ASSUME IInv, NEW p \in tab.puts, PutRefused(p)
    PROVE  IInv'
<1> DEFINE t == Without(tab, p)
<1>1. PutOK(p, tab.screen, fresh, removed) /\ TabInv(tab, fresh, removed)
  BY ScreenType DEF IInv
<1>2. TabInv(t, fresh, removed)
  BY <1>1, WithoutInv
<1>3. t.active \in Workspace
  BY <1>2 DEF TabInv, TabRecord
<1>4. tab' = IF p.kind = "flow" THEN Requeued(t, p.card) ELSE Asking(t, "full", t.active, Nobody)
  BY DEF PutRefused
<1> HIDE DEF t
<1>5. p.kind = "flow" => p.card \in Card
  BY <1>1 DEF PutOK
<1> SUFFICES TabInv(tab', fresh, removed)
  BY TabChanges DEF PutRefused, IInv
<1>6. CASE p.kind = "flow"
  BY <1>2, <1>4, <1>5, <1>6, RequeuedInv
<1>7. CASE p.kind # "flow"
  BY <1>2, <1>3, <1>4, <1>7, AskingInv DEF GetKinds
<1> QED
  BY <1>6, <1>7

(* A PUT that fails keeps the invariant.                                   *)
LEMMA PutFailsStep ==
    ASSUME IInv, NEW p \in tab.puts, PutFails(p)
    PROVE  IInv'
<1> DEFINE t == Without(tab, p)
<1>1. PutOK(p, tab.screen, fresh, removed) /\ TabInv(tab, fresh, removed)
  BY ScreenType DEF IInv
<1>2. TabInv(t, fresh, removed)
  BY <1>1, WithoutInv
<1>3. tab' = IF p.kind = "flow" THEN Requeued(t, p.card) ELSE t
  BY DEF PutFails
<1> HIDE DEF t
<1>4. p.kind = "flow" => p.card \in Card
  BY <1>1 DEF PutOK
<1>5. TabInv(tab', fresh, removed)
  BY <1>2, <1>3, <1>4, RequeuedInv
<1>6. fuel' \in 0 .. MaxEvents
  BY FuelLater DEF PutFails, IInv
<1> QED
  BY <1>5, <1>6, TabChanges DEF PutFails

---------------------------------------------------------------------------
(* Fetching and switching.                                                 *)

(* A refresh that is asked for keeps the invariant.                        *)
LEMMA PollStep ==
    ASSUME IInv, Poll
    PROVE  IInv'
<1>1. TabInv(tab, fresh, removed) /\ tab.active \in Workspace
  BY ScreenType DEF IInv
<1>2. TabInv(tab', fresh, removed)
  BY <1>1, AskingInv DEF Poll, GetKinds
<1> QED
  BY <1>2, TabChanges DEF Poll, IInv

(* The end of the polling pause, a reload, a failed list and a switch keep *)
(* the invariant: the requests stay where they were sent.                  *)
LEMMA FlagSteps ==
    ASSUME IInv, NEW w \in Workspace, HoldEnds \/ Reload \/ ListFails \/ Switch(w)
    PROVE  IInv'
<1>1. TabInv(tab, fresh, removed) /\ tab \in TabRecord /\ (tab.dirty => tab.ready)
  BY ScreenType DEF IInv, TabInv
<1>2. \/ tab' = [tab EXCEPT !.held = FALSE]
      \/ tab' = [tab EXCEPT !.listing = TRUE]
      \/ tab' = [tab EXCEPT !.listing = FALSE, !.ready = FALSE, !.dirty = FALSE]
      \/ tab' = [tab EXCEPT !.active = w, !.listing = TRUE]
  BY DEF HoldEnds, Reload, ListFails, Switch
<1>3. /\ tab' \in TabRecord
      /\ tab'.screen = tab.screen /\ tab'.base = tab.base /\ tab'.tag = tab.tag
      /\ tab'.puts = tab.puts /\ tab'.gets = tab.gets /\ (tab'.dirty => tab'.ready)
  BY <1>1, <1>2 DEF TabRecord
<1>4. TabInv(tab', fresh, removed)
  BY <1>1, <1>3, SameBoards
<1>5. /\ row' = row /\ fresh' = fresh /\ removed' = removed /\ stored' \in Workspace
  BY DEF HoldEnds, Reload, ListFails, Switch, IInv
<1>6. fuel' \in 0 .. MaxEvents
  BY FuelLater DEF HoldEnds, Reload, ListFails, Switch, IInv
<1>7. RowInv'
  BY <1>5 DEF IInv, RowInv
<1> QED
  BY <1>4, <1>5, <1>6, <1>7 DEF IInv

(* The list of workspaces keeps the invariant, whichever workspace another *)
(* tab has made the active one.                                            *)
LEMMA ListedStep ==
    ASSUME IInv, Listed
    PROVE  IInv'
<1> DEFINE t == [tab EXCEPT !.listing = FALSE, !.active = stored]
<1>1. TabInv(tab, fresh, removed) /\ tab \in TabRecord /\ (tab.dirty => tab.ready)
  BY ScreenType DEF IInv, TabInv
<1>2. stored \in Workspace
  BY DEF IInv
<1>3. /\ t \in TabRecord
      /\ t.screen = tab.screen /\ t.base = tab.base /\ t.tag = tab.tag
      /\ t.puts = tab.puts /\ t.gets = tab.gets /\ (t.dirty => t.ready)
  BY <1>1, <1>2 DEF TabRecord
<1>4. tab' = Asking(t, "load", stored, Nobody)
  BY DEF Listed
<1> HIDE DEF t
<1>5. TabInv(t, fresh, removed)
  BY <1>1, <1>3, SameBoards
<1>6. TabInv(tab', fresh, removed)
  BY <1>2, <1>4, <1>5, AskingInv DEF GetKinds
<1> QED
  BY <1>6, TabChanges DEF Listed, IInv

(* A tab with one fetch less is sound.                                     *)
LEMMA LeftInv ==
    ASSUME NEW t, NEW ids, NEW gone, TabInv(t, ids, gone), NEW g
    PROVE  TabInv([t EXCEPT !.gets = @ \ {g}], ids, gone)
<1> DEFINE gets == t.gets \ {g}
<1>1. t \in TabRecord /\ \A h \in gets : GetOK(h, ids)
  BY DEF TabInv
<1>2. [t EXCEPT !.gets = @ \ {g}] = [t EXCEPT !.gets = gets]
  BY <1>1 DEF TabRecord
<1> HIDE DEF gets
<1> QED
  BY <1>1, <1>2, GetsInv

(* A tab whose fetch has gone one phase further is sound.                  *)
LEMMA ReplacedInv ==
    ASSUME NEW t, NEW ids, NEW gone, TabInv(t, ids, gone), NEW g, NEW h, GetOK(h, ids)
    PROVE  TabInv(Replaced(t, g, h), ids, gone)
<1> DEFINE gets == (t.gets \ {g}) \cup {h}
<1>1. t \in TabRecord /\ \A i \in gets : GetOK(i, ids)
  BY DEF TabInv
<1>2. Replaced(t, g, h) = [t EXCEPT !.gets = gets]
  BY <1>1 DEF Replaced, TabRecord
<1> HIDE DEF gets
<1> QED
  BY <1>1, <1>2, GetsInv

(* A fetch that is answered with a sound board is sound.                   *)
LEMMA ServedOK ==
    ASSUME NEW g, NEW ids, GetOK(g, ids), NEW b \in Content, SpentOn(b, ids)
    PROVE  GetOK(Served(g, b), ids)
<1> DEFINE h == Served(g, b)
<1>1. g \in GetRecord
  BY DEF GetOK
<1>2. h \in GetRecord /\ h.kind = g.kind /\ h.card = g.card /\ h.phase = "served" /\ h.body = b
  BY <1>1 DEF Served, GetRecord
<1> HIDE DEF h
<1> QED
  BY <1>2 DEF GetOK, h

(* What the invariant says of a fetch and of the row it goes to.           *)
LEMMA GetTypes ==
    ASSUME IInv, NEW g \in tab.gets
    PROVE  /\ TabInv(tab, fresh, removed) /\ GetOK(g, fresh) /\ g \in GetRecord
           /\ g.ws \in Workspace /\ row[g.ws] \in Content
           /\ SpentOn(row[g.ws], fresh) /\ Whole(row[g.ws])
<1>1. TabInv(tab, fresh, removed) /\ GetOK(g, fresh)
  BY ScreenType DEF IInv
<1>2. g \in GetRecord
  BY <1>1 DEF GetOK
<1>3. g.ws \in Workspace
  BY <1>2 DEF GetRecord
<1> QED
  BY <1>1, <1>2, <1>3 DEF IInv, RowInv

(* The server's answer to a fetch keeps the invariant.                     *)
LEMMA ServeStep ==
    ASSUME IInv, NEW g \in tab.gets, Serve(g)
    PROVE  IInv'
<1>1. TabInv(Replaced(tab, g, Served(g, row[g.ws])), fresh, removed)
  BY GetTypes, ServedOK, ReplacedInv
<1> QED
  BY <1>1, TabChanges DEF Serve, IInv

(* A run that starts keeps the invariant.                                  *)
LEMMA RunStartsStep ==
    ASSUME IInv, NEW g \in tab.gets, RunStarts(g)
    PROVE  IInv'
<1> DEFINE srv == row[g.ws]
           b == [srv EXCEPT !.cards[g.card].exec = "active"]
           h == [g EXCEPT !.phase = "running"]
<1>1. /\ TabInv(tab, fresh, removed) /\ GetOK(g, fresh) /\ g \in GetRecord
      /\ g.ws \in Workspace /\ srv \in Content /\ SpentOn(srv, fresh) /\ Whole(srv)
  BY GetTypes
<1>2. /\ row' = [row EXCEPT ![g.ws].cards[g.card].exec = "active"]
      /\ tab' = Replaced(tab, g, h) /\ g.card \in Cards(srv)
      /\ stored' = stored /\ fresh' = fresh /\ removed' = removed /\ fuel' = fuel
  BY DEF RunStarts
<1>3. row' = [row EXCEPT ![g.ws] = b]
  BY <1>2
<1>4. h \in GetRecord /\ h.kind = g.kind /\ h.card = g.card /\ h.phase = "running"
  BY <1>1 DEF GetRecord
<1> HIDE DEF srv, h
<1>5. b \in Content /\ SameIds(b, srv) /\ Whole(b)
  BY <1>1, <1>2, ExecKept
<1>6. GetOK(h, fresh)
  BY <1>1, <1>4 DEF GetOK
<1>7. TabInv(tab', fresh, removed)
  BY <1>1, <1>2, <1>6, ReplacedInv
<1> HIDE DEF b
<1>8. SpentOn(b, fresh')
  BY <1>1, <1>2, <1>5 DEF SameIds, SpentOn
<1>9. RowInv'
  BY <1>1, <1>2, <1>3, <1>5, <1>8, RowChanges DEF IInv
<1> QED
  BY <1>2, <1>7, <1>9 DEF IInv

(* A card that has run is completed where it was, or in the column of      *)
(* finished cards, which is there; one that is gone stays away.            *)
LEMMA RanFacts ==
    ASSUME NEW b \in Content, NEW c \in Card
    PROVE  /\ Ran(b, c) \in Content /\ SameIds(Ran(b, c), b) /\ Cards(Ran(b, c)) = Cards(b)
           /\ Whole(b) => Whole(Ran(b, c))
<1>1. DoneSection(b) \in Sections(b) /\ Sections(b) \subseteq Section
  BY ContentParts, ListingFacts DEF DoneSection, Sections
<1>2. CASE c \in Cards(b) /\ b.cards[c].flow
  <2> DEFINE x == [b EXCEPT !.cards[c].exec = "completed"]
  <2>1. /\ x \in Content /\ SameIds(x, b) /\ Cards(x) = Cards(b)
        /\ Whole(b) => Whole(x)
    BY <1>2, ExecKept
  <2>2. Ran(b, c) = x
    BY <1>2 DEF Ran
  <2> HIDE DEF x
  <2> QED
    BY <2>1, <2>2
<1>3. CASE c \in Cards(b) /\ ~b.cards[c].flow
  <2> DEFINE s == DoneSection(b)
             y == [b EXCEPT !.cards[c].exec = "completed", !.cards[c].at = s]
  <2>1. Ran(b, c) = y
    BY <1>3 DEF Ran, CompleteTask
  <2> HIDE DEF s
  <2>2. s \in Section /\ s \in Sections(b)
    BY <1>1 DEF s
  <2>3. /\ y \in Content /\ SameIds(y, b) /\ Cards(y) = Cards(b)
        /\ Whole(b) => Whole(y)
    BY <1>3, <2>2, ExecFacts
  <2> HIDE DEF y
  <2> QED
    BY <2>1, <2>3
<1>4. CASE c \notin Cards(b)
  BY <1>4 DEF Ran, SameIds
<1> QED
  BY <1>2, <1>3, <1>4

(* A card whose run failed is queued, if it is there.                      *)
LEMMA RevertedFacts ==
    ASSUME NEW b \in Content, NEW c \in Card
    PROVE  /\ Reverted(b, c) \in Content /\ SameIds(Reverted(b, c), b)
           /\ Whole(b) => Whole(Reverted(b, c))
<1>1. CASE c \in Cards(b)
  BY <1>1, ExecKept DEF Reverted
<1>2. CASE c \notin Cards(b)
  BY <1>2 DEF Reverted, SameIds
<1> QED
  BY <1>1, <1>2

(* A run that ends keeps the invariant, however the board changed while    *)
(* its agent worked.                                                       *)
LEMMA RunEndsStep ==
    ASSUME IInv, NEW g \in tab.gets, RunEnds(g)
    PROVE  IInv'
<1> DEFINE done == Ran(row[g.ws], g.card)
<1>1. /\ TabInv(tab, fresh, removed) /\ GetOK(g, fresh)
      /\ g.ws \in Workspace /\ row[g.ws] \in Content
      /\ SpentOn(row[g.ws], fresh) /\ Whole(row[g.ws])
  BY GetTypes
<1>2. /\ row' = [row EXCEPT ![g.ws] = done]
      /\ tab' = Replaced(tab, g, Served(g, done)) /\ g.card \in Card
      /\ stored' = stored /\ fresh' = fresh /\ removed' = removed /\ fuel' = fuel
  BY <1>1 DEF RunEnds, GetOK
<1>3. done \in Content /\ SameIds(done, row[g.ws]) /\ Whole(done)
  BY <1>1, <1>2, RanFacts
<1> HIDE DEF done
<1>4. SpentOn(done, fresh)
  BY <1>1, <1>3 DEF SameIds, SpentOn
<1>5. TabInv(tab', fresh, removed)
  BY <1>1, <1>2, <1>3, <1>4, ServedOK, ReplacedInv
<1>6. RowInv'
  BY <1>1, <1>2, <1>3, <1>4, RowChanges DEF IInv
<1> QED
  BY <1>2, <1>5, <1>6 DEF IInv

(* The use of the answer to a fetch keeps the invariant.                   *)
LEMMA AnswerStep ==
    ASSUME IInv, NEW g \in tab.gets, Answer(g)
    PROVE  IInv'
<1> DEFINE b == IF g.kind = "poll" THEN Refresh(tab.screen, g.body) ELSE g.body
<1>1. /\ TabInv(tab, fresh, removed) /\ tab \in TabRecord
      /\ GetOK(g, fresh) /\ tab.screen \in Content /\ SpentOn(tab.screen, fresh)
  BY ScreenType DEF IInv
<1>2. g.body \in Content /\ SpentOn(g.body, fresh)
  BY <1>1 DEF Answer, GetOK
<1>3. b \in Content /\ SpentOn(b, fresh) /\ Cards(b) = Cards(g.body)
  <2>1. CASE g.kind = "poll"
    <3>1. LET shown == Refresh(tab.screen, g.body)
          IN  shown \in Content /\ SameIds(shown, tab.screen) /\ Cards(shown) = Cards(g.body)
      BY <1>1, <1>2, RefreshFacts
    <3> QED
      BY <1>1, <2>1, <3>1 DEF SameIds, SpentOn
  <2>2. CASE g.kind # "poll"
    BY <1>2, <2>2
  <2> QED
    BY <2>1, <2>2
<1>4. Overtaken(tab.puts) \in SUBSET PutRecord
  BY <1>1, OvertakenInv DEF PutOK
<1>5. tab' = [Show(tab, b) EXCEPT !.ready = @ \/ g.kind = "load",
                                  !.dirty = @ \/ g.kind = "load",
                                  !.tag = g.body, !.base = g.body,
                                  !.gets = @ \ {g},
                                  !.puts = Overtaken(@)]
  BY DEF Answer, Applied
<1> HIDE DEF b
<1>6. /\ tab' \in TabRecord
      /\ tab'.screen = b /\ tab'.base = g.body /\ tab'.tag = g.body
      /\ tab'.puts = Overtaken(tab.puts) /\ tab'.gets = tab.gets \ {g}
      /\ tab'.dirty = (tab.ready \/ g.kind = "load")
      /\ tab'.ready = (tab.ready \/ g.kind = "load")
  <2> DEFINE shown == Show(tab, b)
             loads == g.kind = "load"
  <2>1. /\ shown \in TabRecord /\ shown.screen = b /\ shown.gets = tab.gets
        /\ shown.puts = tab.puts /\ shown.dirty = tab.ready /\ shown.ready = tab.ready
    BY <1>1, <1>3 DEF Show, TabRecord
  <2>2. shown.gets \ {g} \in SUBSET GetRecord
    BY <2>1 DEF TabRecord
  <2>3. tab' = [shown EXCEPT !.ready = shown.ready \/ loads,
                             !.dirty = shown.dirty \/ loads,
                             !.tag = g.body, !.base = g.body,
                             !.gets = shown.gets \ {g},
                             !.puts = Overtaken(shown.puts)]
    BY <1>5, <2>1 DEF TabRecord
  <2>4. loads \in BOOLEAN
    OBVIOUS
  <2> HIDE DEF shown, loads
  <2>5. /\ tab' \in TabRecord
        /\ tab'.screen = shown.screen /\ tab'.base = g.body /\ tab'.tag = g.body
        /\ tab'.puts = Overtaken(shown.puts) /\ tab'.gets = shown.gets \ {g}
        /\ tab'.dirty = (shown.dirty \/ loads) /\ tab'.ready = (shown.ready \/ loads)
    BY <1>2, <1>4, <2>1, <2>2, <2>3, <2>4 DEF TabRecord
  <2> QED
    BY <2>1, <2>5 DEF loads
<1>7. TabInv(tab', fresh, removed)
  <2>1. tab'.gets \subseteq tab.gets /\ (tab'.dirty => tab'.ready) /\ tab'.tag = tab'.base
    BY <1>6
  <2>2. Cards(tab'.base) = Cards(tab'.screen) /\ SpentOn(tab'.screen, fresh)
    BY <1>3, <1>6
  <2>3. tab' \in TabRecord /\ tab'.puts = Overtaken(tab.puts)
    BY <1>6
  <2> QED
    BY <1>1, <2>1, <2>2, <2>3, AdoptedInv
<1> QED
  BY <1>7, TabChanges DEF Answer, IInv

(* A fetch that fails keeps the invariant.                                 *)
LEMMA FetchFailsStep ==
    ASSUME IInv, NEW g \in tab.gets, FetchFails(g)
    PROVE  IInv'
<1> DEFINE left == [tab EXCEPT !.gets = @ \ {g}]
<1>1. TabInv(tab, fresh, removed) /\ GetOK(g, fresh) /\ g \in GetRecord
  BY GetTypes
<1>2. TabInv(left, fresh, removed)
  BY <1>1, LeftInv
<1>3. g.kind \in {"poll", "full", "load", "rescue"}
  BY <1>1 DEF FetchFails, GetRecord, GetKinds
<1>4. tab' = CASE g.kind \in {"poll", "full"} -> left
              [] g.kind = "load" -> [left EXCEPT !.ready = FALSE, !.dirty = FALSE]
              [] g.kind = "rescue" -> Requeued(left, g.card)
  BY DEF FetchFails, Failed
<1> HIDE DEF left
<1>5. TabInv([left EXCEPT !.ready = FALSE, !.dirty = FALSE], fresh, removed)
  <2> DEFINE u == [left EXCEPT !.ready = FALSE, !.dirty = FALSE]
  <2>1. left \in TabRecord
    BY <1>2 DEF TabInv
  <2>2. /\ u \in TabRecord
        /\ u.screen = left.screen /\ u.base = left.base /\ u.tag = left.tag
        /\ u.puts = left.puts /\ u.gets = left.gets /\ u.dirty = FALSE
    BY <2>1 DEF TabRecord
  <2> HIDE DEF u
  <2>3. TabInv(u, fresh, removed)
    BY <1>2, <2>2, SameBoards
  <2> QED
    BY <2>3 DEF u
<1>6. g.kind = "rescue" => g.card \in Card
  BY <1>1 DEF GetOK
<1>7. g.kind = "rescue" => TabInv(Requeued(left, g.card), fresh, removed)
  BY <1>2, <1>6, RequeuedInv
<1>8. TabInv(tab', fresh, removed)
  BY <1>2, <1>3, <1>4, <1>5, <1>7
<1>9. fuel' \in 0 .. MaxEvents
  BY FuelLater DEF FetchFails, IInv
<1> QED
  BY <1>8, <1>9, TabChanges DEF FetchFails

(* The fetch after a run that failed keeps the tab sound.                  *)
LEMMA RescuedInv ==
    ASSUME IInv, NEW g \in tab.gets, g.kind = "run"
    PROVE  TabInv(Rescued(tab, g), fresh, removed)
<1> DEFINE left == [tab EXCEPT !.gets = @ \ {g}]
<1>1. TabInv(tab, fresh, removed) /\ GetOK(g, fresh) /\ tab.active \in Workspace
  BY GetTypes, ScreenType
<1>2. TabInv(left, fresh, removed)
  BY <1>1, LeftInv
<1>3. Rescued(tab, g) = Asking(left, "rescue", tab.active, g.card) /\ g.card \in Card
  BY <1>1 DEF Rescued, GetOK
<1> HIDE DEF left
<1> QED
  BY <1>1, <1>2, <1>3, AskingInv DEF GetKinds

(* A run that is refused keeps the invariant.                              *)
LEMMA RunFailsStep ==
    ASSUME IInv, NEW g \in tab.gets, RunFails(g)
    PROVE  IInv'
<1>1. TabInv(tab', fresh, removed)
  BY RescuedInv DEF RunFails
<1> QED
  BY <1>1, TabChanges DEF RunFails, IInv

(* A run whose request, answer or agent fails keeps the invariant.         *)
LEMMA RunBreaksStep ==
    ASSUME IInv, NEW g \in tab.gets, RunBreaks(g)
    PROVE  IInv'
<1> DEFINE srv == row[g.ws]
           b == IF g.phase = "running" THEN Reverted(srv, g.card) ELSE srv
<1>1. /\ GetOK(g, fresh) /\ g.ws \in Workspace /\ srv \in Content
      /\ SpentOn(srv, fresh) /\ Whole(srv)
  BY GetTypes
<1>2. /\ row' = [row EXCEPT ![g.ws] = b] /\ g.card \in Card
      /\ stored' = stored /\ fresh' = fresh /\ removed' = removed
  BY <1>1 DEF RunBreaks, GetOK
<1>3. TabInv(tab', fresh, removed)
  BY RescuedInv DEF RunBreaks
<1>4. b \in Content /\ SameIds(b, srv) /\ Whole(b)
  BY <1>1, <1>2, RevertedFacts DEF SameIds
<1>5. fuel' \in 0 .. MaxEvents
  BY FuelLater DEF RunBreaks, IInv
<1> HIDE DEF b, srv
<1>6. SpentOn(b, fresh')
  BY <1>1, <1>2, <1>4 DEF SameIds, SpentOn
<1>7. RowInv'
  BY <1>1, <1>2, <1>4, <1>6, RowChanges DEF IInv
<1> QED
  BY <1>2, <1>3, <1>5, <1>7 DEF IInv

---------------------------------------------------------------------------
(* The other device and the other tab.                                     *)

(* The tab stays sound while others use up IDs and remove cards.           *)
LEMMA LaterInv ==
    ASSUME NEW t, NEW ids, NEW gone, NEW ids2, NEW gone2, TabInv(t, ids, gone),
           ids2 \subseteq ids, gone \subseteq gone2
    PROVE  TabInv(t, ids2, gone2)
<1>1. Lost(t.screen, t.screen) \subseteq gone2
  BY QuietScreens
<1>2. \A p \in t.puts : PutOK(p, t.screen, ids2, gone2)
  BY <1>1, PutLater DEF TabInv
<1>3. \A g \in t.gets : GetOK(g, ids2)
  BY GetLater DEF TabInv
<1>4. SpentOn(t.screen, ids2) /\ Lost(t.base, t.screen) \subseteq gone2
  BY DEF TabInv, SpentOn
<1> QED
  BY <1>2, <1>3, <1>4 DEF TabInv

(* An edit on another device keeps the invariant.                          *)
LEMMA EditElsewhereStep ==
    ASSUME IInv, NEW w \in Workspace, NEW kind \in EditKinds, EditElsewhere(w, kind)
    PROVE  IInv'
<1>1. PICK edited \in EditsOfKind(kind, row[w], fresh) :
        /\ row' = [row EXCEPT ![w] = Normalize(MergeBoard(row[w], edited))]
        /\ fresh' = fresh \ IdsOf(edited)
        /\ removed' = removed \cup RemovedBy(row[w], edited)
  BY DEF EditElsewhere
<1>2. row[w] \in Content /\ SpentOn(row[w], fresh)
  BY DEF IInv, RowInv
<1>3. edited \in Content
  BY <1>2, EditType DEF SpentOn
<1> DEFINE merged == MergeBoard(row[w], edited)
           b == Normalize(merged)
<1>4. merged \in Content /\ SameIds(merged, edited)
  BY <1>2, <1>3, MergeFacts
<1> HIDE DEF merged
<1>5. b \in Content /\ SameIds(b, merged) /\ Whole(b)
  BY <1>4, NormalizeFacts
<1>6. row' = [row EXCEPT ![w] = b]
  BY <1>1 DEF merged
<1> HIDE DEF b
<1>7. fresh' \subseteq fresh /\ removed \subseteq removed' /\ SpentOn(b, fresh')
  BY <1>1, <1>4, <1>5 DEF SameIds, SpentOn, IdsOf
<1>8. RowInv'
  BY <1>5, <1>6, <1>7, RowChanges DEF IInv
<1>9. TabInv(tab', fresh', removed')
  BY <1>7, LaterInv DEF IInv, EditElsewhere
<1>10. fuel' \in 0 .. MaxEvents
  BY FuelLater DEF EditElsewhere, IInv
<1>11. fresh' \cup removed' \subseteq Section \cup Team \cup Agent \cup Card
  BY <1>1, <1>2, <1>3, RemovedIds DEF IInv
<1>12. stored' \in Workspace /\ ToSet(FlowSections) \cap fresh' = {}
  BY <1>7 DEF EditElsewhere, IInv
<1> QED
  BY <1>8, <1>9, <1>10, <1>11, <1>12 DEF IInv

(* Another device's run, when it begins and when it ends or fails.         *)
LEMMA RunElsewhereStep ==
    ASSUME IInv, NEW w \in Workspace, NEW c \in Card,
           RunElsewhere(w, c) \/ RunElsewhereEnds(w, c)
    PROVE  IInv'
<1> DEFINE begun == [row[w] EXCEPT !.cards[c].exec = "active"]
<1>1. row[w] \in Content /\ SpentOn(row[w], fresh) /\ Whole(row[w])
  BY DEF IInv, RowInv
<1>2. RunElsewhere(w, c) => /\ row' = [row EXCEPT ![w] = begun]
                            /\ begun \in Content /\ SameIds(begun, row[w]) /\ Whole(begun)
  <2> SUFFICES ASSUME RunElsewhere(w, c)
               PROVE  /\ row' = [row EXCEPT ![w] = begun]
                      /\ begun \in Content /\ SameIds(begun, row[w]) /\ Whole(begun)
    OBVIOUS
  <2>1. c \in Cards(row[w]) /\ row' = [row EXCEPT ![w].cards[c].exec = "active"]
    BY DEF RunElsewhere, Live
  <2>2. row' = [row EXCEPT ![w] = begun]
    BY <2>1
  <2> QED
    BY <1>1, <2>1, <2>2, ExecKept
<1>3. PICK b : /\ row' = [row EXCEPT ![w] = b]
               /\ b \in Content /\ SameIds(b, row[w]) /\ Whole(b)
  <2>1. CASE RunElsewhere(w, c)
    BY <1>2, <2>1
  <2>2. CASE RunElsewhereEnds(w, c)
    BY <1>1, <2>2, RanFacts, RevertedFacts DEF RunElsewhereEnds
  <2> QED
    BY <2>1, <2>2
<1>4. tab' = tab /\ stored' = stored /\ fresh' = fresh /\ removed' = removed
  BY DEF RunElsewhere, RunElsewhereEnds
<1>5. SpentOn(b, fresh')
  BY <1>1, <1>3, <1>4 DEF SameIds, SpentOn
<1>6. RowInv'
  BY <1>3, <1>4, <1>5, RowChanges DEF IInv
<1>7. fuel' \in 0 .. MaxEvents
  BY FuelLater DEF RunElsewhere, RunElsewhereEnds, IInv
<1> QED
  BY <1>4, <1>6, <1>7 DEF IInv

(* A switch in another tab keeps the invariant.                            *)
LEMMA SwitchElsewhereStep ==
    ASSUME IInv, NEW w \in Workspace, SwitchElsewhere(w)
    PROVE  IInv'
<1>1. fuel' \in 0 .. MaxEvents
  BY FuelLater DEF SwitchElsewhere, IInv
<1>2. RowInv'
  BY DEF SwitchElsewhere, IInv, RowInv
<1> QED
  BY <1>1, <1>2 DEF SwitchElsewhere, IInv

---------------------------------------------------------------------------
(* The theorems.                                                           *)

(* Every step keeps the invariant.                                         *)
LEMMA InvStep == IInv /\ [Next]_vars => IInv'
<1> SUFFICES ASSUME IInv, [Next]_vars PROVE IInv'
  OBVIOUS
<1>1. CASE UserStep
  BY <1>1, EditStep, RunStep, LaunchStep, ResetStep, FlagSteps, ClientAssumption DEF UserStep
<1>2. CASE FailStep
  BY <1>2, PutFailsStep, FetchFailsStep, RunBreaksStep, FlagSteps, ClientAssumption DEF FailStep
<1>3. CASE Elsewhere
  BY <1>3, EditElsewhereStep, RunElsewhereStep, SwitchElsewhereStep DEF Elsewhere
<1>4. CASE Persist \/ SkipPersist \/ Poll \/ HoldEnds \/ Listed
  BY <1>4, PersistStep, PollStep, FlagSteps, ListedStep, ClientAssumption
<1>5. ASSUME NEW kind \in PutKinds, Saves(kind) PROVE IInv'
  BY <1>5, PutServeStep, PutAnswerStep, PutRefusedStep DEF Saves
<1>6. ASSUME NEW kind \in GetKinds, Fetches(kind) PROVE IInv'
  BY <1>6, ServeStep, RunStartsStep, RunEndsStep, RunFailsStep, AnswerStep DEF Fetches
<1>7. CASE UNCHANGED vars
  BY <1>7, TabChanges DEF vars, IInv
<1> QED
  BY <1>1, <1>2, <1>3, <1>4, <1>5, <1>6, <1>7 DEF Next

(* A workspace that has been used is a board with nothing dangling.        *)
LEMMA BegunFacts ==
    ASSUME NEW w \in Workspace
    PROVE  Begun(w) \in Content /\ Whole(Begun(w))
<1> DEFINE card == FirstCard[w]
           b == DefaultContent(w)
           first == [NoCard EXCEPT !.exec = "queued"]
           frame == [b.frame EXCEPT !.webhook = TRUE, !.targets = 1]
           cards == [b.cards EXCEPT ![card] = first]
           mid == [b EXCEPT !.cards = cards]
<1>1. card \in Card
  BY ClientAssumption
<1>2. /\ NoCard \in CardRecord /\ DefaultTeam \in Team /\ DefaultSections \in Listing(Section)
      /\ DefaultSections[1] \in ToSet(DefaultSections)
  BY NoCardType, BoardAssumption, ListingFacts
<1>3. <<DefaultTeam>> \in Listing(Team) /\ ToSet(<<DefaultTeam>>) = {DefaultTeam}
  BY <1>2, OneEntry DEF Listing
<1>4. b \in Content
  <2>1. DefaultFrame(w) \in Frame
    BY DEF DefaultFrame, Frame
  <2> QED
    BY <1>2, <1>3, <2>1 DEF DefaultContent, Content
<1>5. /\ b.cards = [c \in Card |-> NoCard] /\ b.sections = DefaultSections
      /\ b.teams = <<DefaultTeam>>
      /\ b.staff = [a \in Agent |-> IF a \in ToSet(FlowAgents) THEN DefaultTeam ELSE Nobody]
  BY DEF DefaultContent
<1> HIDE DEF b
<1>6. first \in CardRecord /\ first.at = DefaultSections[1] /\ first.team = DefaultTeam
      /\ first.agent = Nobody
  BY <1>2 DEF NoCard, CardRecord
<1>7. frame \in Frame
  <2>1. b.frame \in Frame
    BY <1>4, ContentParts
  <2> QED
    BY <2>1 DEF Frame
<1>8. Begun(w) = [mid EXCEPT !.frame = frame]
  <2>1. [b EXCEPT !.cards[card].exec = "queued"] = mid
    BY <1>1, <1>4, <1>5, ContentParts
  <2>2. Begun(w) = [b EXCEPT !.cards[card].exec = "queued",
                             !.frame = [@ EXCEPT !.webhook = TRUE, !.targets = 1]]
    BY DEF Begun, b
  <2> QED
    BY <1>4, <2>1, <2>2, ContentParts
<1> HIDE DEF first, frame
<1>9. cards \in [Card -> CardRecord] /\ cards[card] = first
      /\ \A c \in Card \ {card} : cards[c] = NoCard
  BY <1>1, <1>2, <1>5, <1>6
<1> HIDE DEF cards
<1>10. mid \in Content
  BY <1>4, <1>9, CardsChange
<1>11. /\ mid.cards = cards /\ mid.sections = b.sections /\ mid.teams = b.teams
       /\ mid.staff = b.staff
  BY <1>4, ContentParts
<1> HIDE DEF mid
<1>12. Begun(w) \in Content
  BY <1>7, <1>8, <1>10, FrameChange
<1>13. /\ Begun(w).cards = cards /\ Begun(w).sections = DefaultSections
       /\ Begun(w).teams = <<DefaultTeam>> /\ Begun(w).staff = b.staff
  BY <1>5, <1>8, <1>10, <1>11, ContentParts
<1>14. Whole(Begun(w))
  <2>1. ASSUME NEW c \in Cards(Begun(w)) PROVE c \in Card /\ cards[c] = first
    BY <1>9, <1>13, <2>1 DEF Cards, NoCard
  <2>2. ASSUME NEW a \in Staff(Begun(w)) PROVE Begun(w).staff[a] = DefaultTeam
    BY <1>5, <1>13, <2>2 DEF Staff
  <2> QED
    BY <1>2, <1>3, <1>6, <1>13, <2>1, <2>2 DEF Whole, Sections, Teams
<1> QED
  BY <1>12, <1>14

(* The invariant holds at first.                                           *)
LEMMA InvInit == Init => IInv
<1> SUFFICES ASSUME Init PROVE IInv
  OBVIOUS
<1>1. /\ row = [w \in Workspace |-> Begun(w)] /\ stored = Home
      /\ tab = Opened(stored, row[stored]) /\ removed = {} /\ fuel = MaxEvents
      /\ fresh = (Section \cup Team \cup Agent \cup Card)
                    \ (ToSet(FlowSections) \cup UNION {IdsOf(row[w]) : w \in Workspace})
  BY DEF Init
<1>2. Home \in Workspace /\ MaxEvents \in Nat
  BY ClientAssumption
<1>3. \A w \in Workspace : row[w] \in Content /\ Whole(row[w])
  BY <1>1, BegunFacts
<1>4. \A w \in Workspace : SpentOn(row[w], fresh)
  BY <1>1 DEF SpentOn, IdsOf
<1>5. RowInv
  BY <1>1, <1>3, <1>4 DEF RowInv
<1> DEFINE b == row[Home]
<1>6. b \in Content /\ SpentOn(b, fresh) /\ tab = Opened(Home, b)
  BY <1>1, <1>2, <1>3, <1>4
<1> HIDE DEF b
<1>7. TabInv(tab, fresh, removed)
  <2>1. /\ tab \in TabRecord /\ tab.screen = b /\ tab.base = b /\ tab.tag = b
        /\ tab.puts = {} /\ tab.gets = {} /\ tab.dirty = FALSE
    BY <1>2, <1>6 DEF Opened, TabRecord
  <2> QED
    BY <1>6, <2>1, QuietScreens DEF TabInv
<1>8. ToSet(FlowSections) \cap fresh = {} /\ fresh \subseteq Section \cup Team \cup Agent \cup Card
  BY <1>1
<1>9. fuel \in 0 .. MaxEvents
  BY <1>1, <1>2
<1> QED
  BY <1>1, <1>2, <1>5, <1>7, <1>8, <1>9 DEF IInv

(* The invariant always holds.                                             *)
THEOREM Invariance == Spec => []IInv
BY InvInit, InvStep, PTL DEF Spec

(* Only the other device's own steps change what it has asked for.         *)
LEMMA AwayStep == AwayOK /\ [Next]_vars => AwayOK'
<1> SUFFICES ASSUME AwayOK, [Next]_vars PROVE AwayOK'
  BY DEF AwayOK
<1>1. CASE UserStep
  BY <1>1 DEF AwayOK, UserStep, Edit, Run, Launch, ResetBoard, Switch, Reload
<1>2. CASE FailStep
  BY <1>2 DEF AwayOK, FailStep, PutFails, FetchFails, RunBreaks, ListFails
<1>3. CASE Elsewhere
  <2>1. ASSUME NEW w \in Workspace, NEW c \in Card, RunElsewhere(w, c) PROVE AwayOK'
    <3>1. away' = away \cup {<<w, c>>} /\ <<w, c>> \in Workspace \X Card
      BY <2>1 DEF RunElsewhere
    <3> QED
      BY <3>1 DEF AwayOK
  <2>2. ASSUME NEW w \in Workspace, NEW c \in Card, RunElsewhereEnds(w, c) PROVE AwayOK'
    <3>1. away' = away \ {<<w, c>>}
      BY <2>2 DEF RunElsewhereEnds
    <3> QED
      BY <3>1 DEF AwayOK
  <2>3. ASSUME NEW w \in Workspace, NEW kind, EditElsewhere(w, kind) \/ SwitchElsewhere(w)
        PROVE  AwayOK'
    BY <2>3 DEF AwayOK, EditElsewhere, SwitchElsewhere
  <2> QED
    BY <1>3, <2>1, <2>2, <2>3 DEF Elsewhere
<1>4. CASE Persist \/ SkipPersist \/ Poll \/ HoldEnds \/ Listed
  BY <1>4 DEF AwayOK, Persist, SkipPersist, Poll, HoldEnds, Listed
<1>5. ASSUME NEW kind \in PutKinds, Saves(kind) PROVE AwayOK'
  BY <1>5 DEF AwayOK, Saves, PutServe, PutAnswer, PutRefused
<1>6. ASSUME NEW kind \in GetKinds, Fetches(kind) PROVE AwayOK'
  BY <1>6 DEF AwayOK, Fetches, Serve, RunStarts, RunEnds, RunFails, Answer
<1>7. CASE UNCHANGED vars
  BY <1>7 DEF AwayOK, vars
<1> QED
  BY <1>1, <1>2, <1>3, <1>4, <1>5, <1>6, <1>7 DEF Next

(* Whatever the users, the timers and the network do, every screen,        *)
(* request and answer is a whole board with at least one column and one    *)
(* team and no ID twice, and a save is only ever due in a tab that has     *)
(* loaded its workspace.                                                   *)
THEOREM ClientTypes == Spec => []TypeOK
<1>1. IInv /\ AwayOK => TypeOK
  BY InvImplies
<1>2. Init => AwayOK
  BY DEF Init, AwayOK
<1> QED
  BY <1>1, <1>2, AwayStep, Invariance, PTL DEF Spec

(* On the server a card's column, team and agent and an agent's team are   *)
(* always on the board, whatever was merged from which tab.                *)
THEOREM NothingIsLeftDangling == Spec => []NothingDangles
<1>1. IInv => NothingDangles
  BY InvImplies
<1> QED
  BY <1>1, Invariance, PTL

(* A step of the server with a PUT that takes no card off but by hand.     *)
KeepsCards(p) ==
    ServedNow(p) /\ p.kind # "reset" /\ ~p.torn
        => Cards(row[p.ws]) \ Cards(row'[p.ws]) \subseteq removed

(* Only the server's own step with a PUT changes a row and that request.   *)
LEMMA OnlyServed ==
    ASSUME IInv, [Next]_vars, NEW p \in tab.puts, ServedNow(p)
    PROVE  PutServe(p)
<1>1. p \notin tab'.puts /\ row' # row
  BY DEF ServedNow
<1>2. tab \in TabRecord
  BY ScreenType
<1>3. ~(UserStep \/ Persist \/ SkipPersist \/ Poll \/ HoldEnds \/ Listed \/ UNCHANGED vars)
  BY <1>1 DEF UserStep, Edit, Run, Launch, ResetBoard, Switch, Reload, Persist, SkipPersist,
              Poll, HoldEnds, Listed, vars
<1>4. ~(FailStep \/ Elsewhere)
  <2>1. ASSUME NEW g \in tab.gets, RunBreaks(g) PROVE FALSE
    <3>1. tab' = [tab EXCEPT !.gets = tab'.gets]
      BY <1>2, <2>1 DEF RunBreaks, Rescued, Asking, TabRecord
    <3> QED
      BY <1>1, <1>2, <3>1 DEF TabRecord
  <2> QED
    BY <1>1, <2>1 DEF FailStep, PutFails, FetchFails, ListFails, Elsewhere, EditElsewhere,
                      RunElsewhere, RunElsewhereEnds, SwitchElsewhere
<1>5. ASSUME NEW kind \in GetKinds, Fetches(kind) PROVE FALSE
  <2>1. PICK g \in tab.gets : RunStarts(g) \/ RunEnds(g)
    BY <1>1, <1>5 DEF Fetches, Serve, RunFails, Answer
  <2>2. PICK h : tab' = Replaced(tab, g, h)
    BY <2>1 DEF RunStarts, RunEnds
  <2>3. tab'.puts = tab.puts
    BY <1>2, <2>2 DEF Replaced, TabRecord
  <2> QED
    BY <1>1, <2>3
<1>6. PICK kind \in PutKinds : Saves(kind)
  BY <1>3, <1>4, <1>5 DEF Next
<1>7. PICK q \in tab.puts : PutServe(q)
  BY <1>1, <1>6 DEF Saves, PutAnswer, PutRefused
<1>8. \E r : tab' = Instead(tab, q, r)
  BY <1>7 DEF PutServe
<1>9. p = q
  BY <1>1, <1>2, <1>8 DEF Instead, TabRecord
<1> QED
  BY <1>7, <1>9

(* A step that serves a PUT takes no card off the row but those removed by *)
(* hand.                                                                   *)
LEMMA CardsStep == IInv /\ [Next]_vars => [\A p \in tab.puts : KeepsCards(p)]_vars
<1> SUFFICES ASSUME IInv, [Next]_vars, NEW p \in tab.puts,
                    ServedNow(p), p.kind # "reset", ~p.torn
             PROVE  Cards(row[p.ws]) \ Cards(row'[p.ws]) \subseteq removed
  BY DEF KeepsCards
<1>1. PutServe(p)
  BY OnlyServed
<1>2. p.phase = "sent" /\ row' # row
  BY DEF ServedNow
<1>3. Matches(p) /\ row' = [row EXCEPT ![p.ws] = Saved(p)]
  BY <1>1, <1>2 DEF PutServe
<1>4. p.ws \in Workspace /\ Lost(row[p.ws], Saved(p)) \subseteq removed
  BY <1>2, <1>3, SavedFacts
<1>5. row'[p.ws] = Saved(p)
  BY <1>3, <1>4 DEF IInv, RowInv
<1> QED
  BY <1>4, <1>5 DEF Lost

(* However many requests are in flight and whatever the other device does, *)
(* a PUT whose tag is the board its cards come from takes no card off the  *)
(* server that no user removed.                                            *)
THEOREM CardsStay == Spec => CardsLeaveOnlyByHand
<1>1. [\A p \in tab.puts : KeepsCards(p)]_vars
        => [\A p \in tab.puts :
              ServedNow(p) /\ p.kind # "reset" /\ ~p.torn
                => Cards(row[p.ws]) \ Cards(row'[p.ws]) \subseteq removed]_vars
  BY DEF KeepsCards
<1> QED
  BY <1>1, Invariance, CardsStep, PTL DEF Spec, CardsLeaveOnlyByHand

---------------------------------------------------------------------------
(* One workspace at a time.                                                *)

(* The workspace a board was written for.                                  *)
NameOf(b) == b.frame.of

(* No operation on a board, merge or refresh changes the workspace that    *)
(* the frame was written for.                                              *)
LEMMA BoardEditsKeepName ==
    ASSUME NEW b \in Content, NEW x, NEW y, NEW z
    PROVE  /\ NameOf(CreateSection(b, x)) = NameOf(b)
           /\ NameOf(DeleteSection(b, x)) = NameOf(b)
           /\ NameOf(MoveSection(b, x, y)) = NameOf(b)
           /\ NameOf(CreateTeam(b, x)) = NameOf(b)
           /\ NameOf(RemoveTeam(b, x)) = NameOf(b)
           /\ NameOf(AddTeamMember(b, x, y)) = NameOf(b)
           /\ NameOf(RemoveTeamMember(b, x)) = NameOf(b)
           /\ NameOf(MoveTask(b, x, y)) = NameOf(b)
           /\ NameOf(DeleteTask(b, x)) = NameOf(b)
           /\ NameOf(RestoreDeletedTask(b, x)) = NameOf(b)
           /\ NameOf(PurgeTask(b, x)) = NameOf(b)
           /\ NameOf(CompleteTask(b, x)) = NameOf(b)
           /\ NameOf(ClearDone(b)) = NameOf(b)
           /\ NameOf(TrashAll(b)) = NameOf(b)
           /\ NameOf(NewFlowCard(b, x)) = NameOf(b)
           /\ NameOf(Normalize(b)) = NameOf(b)
           /\ NameOf(MergeBoard(z, b)) = NameOf(b)
           /\ NameOf(Refresh(b, z)) = NameOf(b)
           /\ NameOf(Ran(b, x)) = NameOf(b) /\ NameOf(Reverted(b, x)) = NameOf(b)
<1>1. b = [frame |-> b.frame, sections |-> b.sections, teams |-> b.teams,
           staff |-> b.staff, cards |-> b.cards]
  BY ContentParts
<1>6. /\ NameOf(CreateSection(b, x)) = NameOf(b) /\ NameOf(MoveSection(b, x, y)) = NameOf(b)
  BY <1>1 DEF NameOf, CreateSection, MoveSection
<1>7. NameOf(DeleteSection(b, x)) = NameOf(b)
  BY <1>1 DEF NameOf, DeleteSection
<1>8. NameOf(CreateTeam(b, x)) = NameOf(b)
  BY <1>1 DEF NameOf, CreateTeam
<1>9. NameOf(RemoveTeam(b, x)) = NameOf(b)
  BY <1>1 DEF NameOf, RemoveTeam
<1>10. NameOf(AddTeamMember(b, x, y)) = NameOf(b)
  BY <1>1 DEF NameOf, AddTeamMember
<1>11. NameOf(RemoveTeamMember(b, x)) = NameOf(b)
  BY <1>1 DEF NameOf, RemoveTeamMember
<1>12. /\ NameOf(MoveTask(b, x, y)) = NameOf(b) /\ NameOf(DeleteTask(b, x)) = NameOf(b)
       /\ NameOf(RestoreDeletedTask(b, x)) = NameOf(b)
  BY <1>1 DEF NameOf, MoveTask, DeleteTask, RestoreDeletedTask
<1>13. NameOf(PurgeTask(b, x)) = NameOf(b)
  BY <1>1 DEF NameOf, PurgeTask
<1>14. NameOf(CompleteTask(b, x)) = NameOf(b)
  BY <1>1 DEF NameOf, CompleteTask
<1>15. NameOf(ClearDone(b)) = NameOf(b) /\ NameOf(TrashAll(b)) = NameOf(b)
  BY <1>1 DEF NameOf, ClearDone, TrashAll
<1>16. NameOf(NewFlowCard(b, x)) = NameOf(b)
  BY <1>1 DEF NameOf, NewFlowCard
<1>17. NameOf(Normalize(b)) = NameOf(b)
  BY <1>1 DEF NameOf, Normalize
<1>18. NameOf(MergeBoard(z, b)) = NameOf(b) /\ NameOf(Refresh(b, z)) = NameOf(b)
  BY <1>1 DEF NameOf, MergeBoard, Refresh
<1>19. NameOf(Ran(b, x)) = NameOf(b)
  BY <1>1, <1>14 DEF NameOf, Ran
<1>20. NameOf(Reverted(b, x)) = NameOf(b)
  BY <1>1 DEF NameOf, Reverted
<1> QED
  BY <1>20, <1>6, <1>7, <1>8, <1>9, <1>10, <1>11, <1>12, <1>13, <1>14, <1>15, <1>16, <1>17, <1>18, <1>19

(* Nor do the settings.                                                    *)
LEMMA SettingsKeepName ==
    ASSUME NEW b \in Content, NEW edited \in EditedSettings(b)
    PROVE  NameOf(edited) = NameOf(b)
<1>1. /\ b = [frame |-> b.frame, sections |-> b.sections, teams |-> b.teams,
              staff |-> b.staff, cards |-> b.cards]
      /\ b.frame \in Frame
  BY ContentParts
<1>2. /\ NameOf(HandleBoardTitleChange(b)) = NameOf(b)
      /\ NameOf(WorkspaceSettingsChange(b)) = NameOf(b)
  BY <1>1 DEF NameOf, HandleBoardTitleChange, WorkspaceSettingsChange, Frame
<1>3. NameOf(ToggleProvider(b)) = NameOf(b) /\ NameOf(ToggleChannel(b)) = NameOf(b)
  BY <1>1 DEF NameOf, ToggleProvider, ToggleChannel, Frame
<1>4. NameOf(AddVaultDoc(b)) = NameOf(b) /\ NameOf(RemoveVaultDoc(b)) = NameOf(b)
  BY <1>1 DEF NameOf, AddVaultDoc, RemoveVaultDoc, Frame
<1>5. /\ NameOf(UpdateWebhookConfig(b)) = NameOf(b)
      /\ NameOf(RegenerateWebhookToken(b)) = NameOf(b)
  BY <1>1 DEF NameOf, UpdateWebhookConfig, RegenerateWebhookToken, Frame
<1>6. NameOf(AddNotification(b)) = NameOf(b) /\ NameOf(RemoveNotification(b)) = NameOf(b)
  BY <1>1 DEF NameOf, AddNotification, RemoveNotification, Frame
<1> QED
  BY <1>2, <1>3, <1>4, <1>5, <1>6
  DEF EditedSettings, VaultPanel, WebhookSection, NotificationSection

(* No user operation changes the workspace a board was written for.        *)
LEMMA EditsKeepName ==
    ASSUME NEW b \in Content, NEW kind \in EditKinds, NEW ids,
           NEW edited \in EditsOfKind(kind, b, ids)
    PROVE  NameOf(edited) = NameOf(b)
<1>1. edited \in AddedColumns(b, ids) \cup RemovedColumns(b) \cup OrderedColumns(b)
        => NameOf(edited) = NameOf(b)
  BY BoardEditsKeepName DEF AddedColumns, RemovedColumns, OrderedColumns
<1>2. edited \in TeamsTab(b, ids) \cup TeamsTabRemoval(b) => NameOf(edited) = NameOf(b)
  BY BoardEditsKeepName DEF TeamsTab, TeamsTabRemoval
<1>3. edited \in AgentsTab(b, ids) \cup AgentsTabRemoval(b) => NameOf(edited) = NameOf(b)
  BY BoardEditsKeepName DEF AgentsTab, AgentsTabRemoval
<1>4. ASSUME NEW c \in Card, edited \in NewCards(b, c) PROVE NameOf(edited) = NameOf(b)
  <2> DEFINE card(s, t, a) == [NoCard EXCEPT !.exec = "queued", !.at = s, !.team = t, !.agent = a]
             new(s, t, a) == [b EXCEPT !.cards[c] = card(s, t, a)]
             ofTeam(t) == {new(s, t, a) : s \in Sections(b), a \in Candidates(b, t)}
  <2>1. NewCards(b, c) = UNION {ofTeam(t) : t \in Teams(b)}
    BY DEF NewCards
  <2> HIDE DEF card
  <2>2. \A s, t, a : NameOf(new(s, t, a)) = NameOf(b)
    BY ContentParts DEF NameOf
  <2> HIDE DEF new
  <2>3. \A t \in Teams(b) : \A x \in ofTeam(t) : NameOf(x) = NameOf(b)
    BY <2>2
  <2> HIDE DEF ofTeam
  <2> QED
    BY <1>4, <2>1, <2>3
<1>5. edited \in DroppedCards(b) => NameOf(edited) = NameOf(b)
  BY BoardEditsKeepName DEF DroppedCards
<1>6. ASSUME edited \in DroppedByMouse(b) PROVE NameOf(edited) = NameOf(b)
  <2>1. PICK c \in Shown(b) : \E s \in Sections(b) :
            \/ edited = MoveSection(MoveTask(b, c, s), b.cards[c].at, s)
            \/ edited = MoveSection(b, b.cards[c].at, s)
    BY <1>6 DEF DroppedByMouse
  <2>2. PICK s \in Sections(b) :
            \/ edited = MoveSection(MoveTask(b, c, s), b.cards[c].at, s)
            \/ edited = MoveSection(b, b.cards[c].at, s)
    BY <2>1
  <2>3. MoveTask(b, c, s) \in Content
    BY ContentParts, CardEdits, OnTheBoard
  <2> QED
    BY <2>2, <2>3, BoardEditsKeepName
<1>7. edited \in BinnedCards(b) \cup ClosedCards(b) => NameOf(edited) = NameOf(b)
  BY BoardEditsKeepName DEF BinnedCards, ClosedCards
<1>8. edited \in TrashRestored(b) \cup TrashPurged(b) \cup {ClearDone(b)}
        => NameOf(edited) = NameOf(b)
  BY BoardEditsKeepName DEF TrashRestored, TrashPurged
<1>9. edited \in UNION {NewCards(b, c) : c \in Card \cap ids} => NameOf(edited) = NameOf(b)
  BY <1>4
<1> QED
  BY <1>1, <1>2, <1>3, <1>5, <1>6, <1>7, <1>8, <1>9, SettingsKeepName DEF EditKinds, EditsOfKind

(* A tab that has only ever seen Home.                                     *)
AtHome(t) ==
    /\ t.active = Home /\ NameOf(t.screen) = Home
    /\ \A p \in t.puts : p.ws = Home /\ NameOf(p.body) = Home
    /\ \A g \in t.gets : g.ws = Home /\ (g.phase = "served" => NameOf(g.body) = Home)

(* The rows are apart, and the tab is at Home.                             *)
Apart == WorkspacesStayApart /\ stored = Home /\ AtHome(tab)

(* Nobody switches workspaces.                                             *)
NoSwitching == "switch" \notin Does \cup DoneElsewhere

(* A change of the screen to another board of Home.                        *)
LEMMA ShowHome ==
    ASSUME NEW t \in TabRecord, AtHome(t), NEW b \in Content, NameOf(b) = Home
    PROVE  AtHome(Show(t, b))
BY DEF AtHome, Show, TabRecord

(* Other requests to Home with boards of Home.                             *)
LEMMA PutsHome ==
    ASSUME NEW t \in TabRecord, AtHome(t), NEW puts,
           \A p \in puts : p.ws = Home /\ NameOf(p.body) = Home
    PROVE  AtHome([t EXCEPT !.puts = puts])
BY DEF AtHome, TabRecord

(* One more fetch from Home.                                               *)
LEMMA AskingHome ==
    ASSUME NEW t \in TabRecord, AtHome(t), NEW kind, NEW c
    PROVE  AtHome(Asking(t, kind, Home, c))
BY DEF AtHome, Asking, Get, TabRecord

(* A card put back in the queue.                                           *)
LEMMA RequeuedHome ==
    ASSUME NEW t \in TabRecord, AtHome(t), NEW c
    PROVE  AtHome(Requeued(t, c))
<1> DEFINE b == [t.screen EXCEPT !.cards[c].exec = "queued"]
<1>1. t.screen \in Content
  BY DEF TabRecord
<1>2. NameOf(b) = Home
  BY <1>1, ContentParts DEF AtHome, NameOf
<1>3. AtHome(Show(t, b))
  BY <1>2 DEF AtHome, Show, TabRecord
<1> QED
  BY <1>3 DEF Requeued

(* Overtaken requests go where they went.                                  *)
LEMMA OvertakenHome ==
    ASSUME NEW t \in TabRecord, AtHome(t)
    PROVE  \A p \in Overtaken(t.puts) : p.ws = Home /\ NameOf(p.body) = Home
<1> TAKE q \in Overtaken(t.puts)
<1>1. PICK p \in t.puts : q = [p EXCEPT !.over = TRUE]
  BY DEF Overtaken
<1>2. p \in PutRecord
  BY DEF TabRecord
<1>3. q.ws = p.ws /\ q.body = p.body
  BY <1>1, <1>2 DEF PutRecord
<1> QED
  BY <1>3 DEF AtHome

(* While nobody switches, every step leaves each row to its own workspace  *)
(* and the tab at Home.                                                    *)
LEMMA ApartStep == IInv /\ NoSwitching /\ Apart /\ [Next]_vars => Apart'
<1> SUFFICES ASSUME IInv, NoSwitching, Apart, [Next]_vars PROVE Apart'
  OBVIOUS
<1>1. /\ tab \in TabRecord /\ tab.screen \in Content /\ tab.active = Home
      /\ NameOf(tab.screen) = Home /\ AtHome(tab) /\ stored = Home
      /\ row \in [Workspace -> Content] /\ \A w \in Workspace : NameOf(row[w]) = w
      /\ Home \in Workspace
  BY ScreenType, ClientAssumption DEF IInv, RowInv, Apart, AtHome, WorkspacesStayApart, NameOf
<1>2. ASSUME UNCHANGED <<row, stored>>, AtHome(tab') PROVE Apart'
  BY <1>2 DEF Apart, WorkspacesStayApart
<1>3. ASSUME UNCHANGED stored, AtHome(tab'), NEW w \in Workspace, NEW b, NameOf(b) = w,
             row' = [row EXCEPT ![w] = b]
      PROVE  Apart'
  <2>1. \A v \in Workspace : NameOf(row'[v]) = v
    BY <1>1, <1>3
  <2> QED
    BY <1>1, <1>3, <2>1 DEF Apart, WorkspacesStayApart, NameOf
<1>4. CASE UserStep
  <2>1. ASSUME NEW kind \in EditKinds, Edit(kind) PROVE Apart'
    <3>1. PICK edited \in EditsOfKind(kind, tab.screen, fresh) : tab' = Show(tab, edited)
      BY <2>1 DEF Edit
    <3>2. NameOf(edited) = Home
      BY <1>1, EditsKeepName
    <3>3. edited \in Content
      BY <1>1, EditType, ScreenType DEF SpentOn
    <3> QED
      BY <1>1, <1>2, <2>1, <3>1, <3>2, <3>3, ShowHome DEF Edit
  <2>2. ASSUME NEW c \in Card, Run(c) PROVE Apart'
    <3>1. PICK started \in StartTask(tab.screen, c) :
            tab' = Asking(Show(tab, started), "run", Home, c)
      BY <1>1, <2>2 DEF Run
    <3>2. started \in Content
      BY <1>1, CardEdits
    <3>3. NameOf(started) = Home
      BY <1>1, ContentParts DEF StartTask, NameOf
    <3>4. AtHome(Show(tab, started)) /\ Show(tab, started) \in TabRecord
      BY <1>1, <3>2, <3>3, ShowHome DEF Show, TabRecord
    <3> QED
      BY <1>2, <2>2, <3>1, <3>4, AskingHome DEF Run
  <2>3. ASSUME NEW c \in Card, Launch(c) PROVE Apart'
    <3> DEFINE launched == NewFlowCard(tab.screen, c)
               queued == [launched EXCEPT !.cards[c].exec = "queued"]
               put == Put(tab, "flow", queued, c)
               shown == Show(tab, launched)
    <3>1. tab' = [shown EXCEPT !.held = TRUE, !.puts = @ \cup {put}]
      BY <2>3 DEF Launch
    <3>2. launched \in Content /\ queued \in Content
      BY <1>1, NewFlowCardType
    <3>3. NameOf(launched) = Home
      BY <1>1, BoardEditsKeepName
    <3> HIDE DEF launched
    <3>4. NameOf(queued) = Home
      BY <3>2, <3>3, ContentParts DEF NameOf
    <3> HIDE DEF queued
    <3>5. put.ws = Home /\ NameOf(put.body) = Home
      BY <1>1, <3>4 DEF Put
    <3> HIDE DEF put
    <3>6. shown \in TabRecord /\ shown.puts = tab.puts /\ AtHome(shown)
      BY <1>1, <3>2, <3>3, ShowHome DEF Show, TabRecord
    <3> HIDE DEF shown
    <3>7. AtHome(tab')
      BY <3>1, <3>5, <3>6 DEF AtHome, TabRecord
    <3> QED
      BY <1>2, <2>3, <3>7 DEF Launch
  <2>4. ASSUME ResetBoard PROVE Apart'
    <3> DEFINE trashed == TrashAll(tab.screen)
               put == Put(tab, "reset", trashed, Nobody)
               shown == Show(tab, trashed)
    <3>1. tab' = [shown EXCEPT !.puts = {p \in @ : p.kind # "save"} \cup {put}]
      BY <2>4 DEF ResetBoard
    <3>2. trashed \in Content /\ NameOf(trashed) = Home
      BY <1>1, AllCardEdits, BoardEditsKeepName
    <3> HIDE DEF trashed
    <3>3. put.ws = Home /\ NameOf(put.body) = Home
      BY <1>1, <3>2 DEF Put
    <3> HIDE DEF put
    <3>4. shown \in TabRecord /\ shown.puts = tab.puts /\ AtHome(shown)
      BY <1>1, <3>2, ShowHome DEF Show, TabRecord
    <3> HIDE DEF shown
    <3>5. AtHome(tab')
      BY <3>1, <3>3, <3>4 DEF AtHome, TabRecord
    <3> QED
      BY <1>2, <2>4, <3>5 DEF ResetBoard
  <2>5. ASSUME NEW w \in Workspace, Switch(w) PROVE FALSE
    BY <2>5 DEF Switch, NoSwitching
  <2>6. ASSUME Reload PROVE Apart'
    <3>1. AtHome(tab')
      BY <1>1, <2>6 DEF Reload, AtHome, TabRecord
    <3> QED
      BY <1>2, <2>6, <3>1 DEF Reload
  <2> QED
    BY <1>4, <2>1, <2>2, <2>3, <2>4, <2>5, <2>6 DEF UserStep
<1>5. CASE Persist \/ SkipPersist \/ Poll \/ HoldEnds
  <2>1. ASSUME Persist PROVE Apart'
    <3> DEFINE put == Put(tab, "save", tab.screen, Nobody)
    <3>1. put.ws = Home /\ NameOf(put.body) = Home
      BY <1>1 DEF Put
    <3>2. tab' = [tab EXCEPT !.dirty = FALSE, !.puts = {p \in @ : p.kind # "save"} \cup {put}]
      BY <2>1 DEF Persist
    <3> HIDE DEF put
    <3>3. AtHome(tab')
      BY <1>1, <3>1, <3>2 DEF AtHome, TabRecord
    <3> QED
      BY <1>2, <2>1, <3>3 DEF Persist
  <2>2. ASSUME SkipPersist \/ HoldEnds PROVE Apart'
    <3>1. AtHome(tab')
      BY <1>1, <2>2 DEF SkipPersist, HoldEnds, AtHome, TabRecord
    <3> QED
      BY <1>2, <2>2, <3>1 DEF SkipPersist, HoldEnds
  <2>3. ASSUME Poll PROVE Apart'
    BY <1>1, <1>2, <2>3, AskingHome DEF Poll
  <2> QED
    BY <1>5, <2>1, <2>2, <2>3
<1>6. CASE Listed
  <2> DEFINE t == [tab EXCEPT !.listing = FALSE, !.active = stored]
  <2>1. t \in TabRecord /\ AtHome(t)
    BY <1>1 DEF AtHome, TabRecord
  <2>2. tab' = Asking(t, "load", Home, Nobody)
    BY <1>1, <1>6 DEF Listed
  <2> HIDE DEF t
  <2> QED
    BY <1>2, <1>6, <2>1, <2>2, AskingHome DEF Listed
<1>7. ASSUME NEW p \in tab.puts, NEW q, q.ws = Home /\ NameOf(q.body) = Home
      PROVE  AtHome(Instead(tab, p, q)) /\ AtHome(Without(tab, p)) /\ Without(tab, p) \in TabRecord
  <2>1. Without(tab, p) \in TabRecord
    BY <1>1 DEF Without, TabRecord
  <2> QED
    BY <1>1, <1>7, <2>1 DEF Instead, Without, AtHome, TabRecord
<1>8. ASSUME NEW p \in tab.puts
      PROVE  /\ p \in PutRecord /\ p.ws = Home /\ NameOf(p.body) = Home
             /\ AtHome(Without(tab, p)) /\ Without(tab, p) \in TabRecord
  BY <1>1, <1>7 DEF AtHome, TabRecord
<1>9. ASSUME NEW p \in tab.puts, PutServe(p) PROVE Apart'
  <2>1. CASE Matches(p)
    <3> DEFINE q == [p EXCEPT !.phase = "saved", !.result = Saved(p)]
    <3>1. q.ws = Home /\ NameOf(q.body) = Home
      BY <1>8 DEF PutRecord
    <3>2. NameOf(Saved(p)) = Home
      <4>1. p.body \in Content /\ row[Home] \in Content
        BY <1>1, <1>8 DEF PutRecord
      <4>2. MergeBoard(row[Home], p.body) \in Content
        BY <4>1, MergeFacts
      <4> QED
        BY <1>8, <4>1, <4>2, BoardEditsKeepName DEF Saved
    <3>3. tab' = Instead(tab, p, q) /\ row' = [row EXCEPT ![Home] = Saved(p)] /\ stored' = stored
      BY <1>8, <1>9, <2>1 DEF PutServe
    <3> HIDE DEF q
    <3> QED
      BY <1>1, <1>3, <1>7, <3>1, <3>2, <3>3
  <2>2. CASE ~Matches(p)
    <3> DEFINE q == [p EXCEPT !.phase = "refused"]
    <3>1. q.ws = Home /\ NameOf(q.body) = Home
      BY <1>8 DEF PutRecord
    <3>2. tab' = Instead(tab, p, q) /\ UNCHANGED <<row, stored>>
      BY <1>9, <2>2 DEF PutServe
    <3> HIDE DEF q
    <3> QED
      BY <1>2, <1>7, <3>1, <3>2
  <2> QED
    BY <2>1, <2>2
<1>10. ASSUME NEW p \in tab.puts, PutAnswer(p) PROVE Apart'
  <2> DEFINE t == Without(tab, p)
             tagged == [t EXCEPT !.tag = p.result, !.base = IF p.over THEN @ ELSE p.result]
  <2>1. t \in TabRecord /\ AtHome(t) /\ t.active = Home
    BY <1>8 DEF AtHome
  <2>2. p.result \in Content /\ p.body \in Content
    BY <1>8, <1>10, ScreenType DEF PutAnswer, PutOK, PutRecord
  <2>3. \/ p.kind = "save" /\ tab' = [tagged EXCEPT !.saved = p.body]
        \/ p.kind = "flow" /\ tab' = Asking(tagged, "run", t.active, p.card)
        \/ /\ p.kind = "reset"
           /\ tab' = [Show(tagged, [t.screen EXCEPT !.cards = p.result.cards,
                                                    !.sections = p.result.sections])
                          EXCEPT !.base = p.result, !.puts = Overtaken(@)]
    BY <1>10 DEF PutAnswer
  <2> HIDE DEF t
  <2>4. tagged \in TabRecord /\ AtHome(tagged) /\ tagged.puts = t.puts
    BY <2>1, <2>2 DEF AtHome, TabRecord
  <2> HIDE DEF tagged
  <2>5. AtHome([tagged EXCEPT !.saved = p.body])
    BY <2>4 DEF AtHome, TabRecord
  <2>6. AtHome(Asking(tagged, "run", t.active, p.card))
    BY <2>1, <2>4, AskingHome
  <2>7. AtHome([Show(tagged, [t.screen EXCEPT !.cards = p.result.cards,
                                              !.sections = p.result.sections])
                    EXCEPT !.base = p.result, !.puts = Overtaken(@)])
    <3> DEFINE b == [t.screen EXCEPT !.cards = p.result.cards, !.sections = p.result.sections]
    <3>1. NameOf(b) = Home
      <4>1. t.screen \in Content
        BY <2>1 DEF TabRecord
      <4> QED
        BY <2>1, <4>1, ContentParts DEF AtHome, NameOf
    <3> HIDE DEF b
    <3>2. AtHome([Show(tagged, b) EXCEPT !.base = p.result, !.puts = Overtaken(@)])
      BY <2>4, <3>1, OvertakenHome DEF Show, AtHome, TabRecord
    <3> QED
      BY <3>2 DEF b
  <2>8. AtHome(tab')
    BY <2>3, <2>5, <2>6, <2>7
  <2> QED
    BY <1>2, <1>10, <2>8 DEF PutAnswer
<1>11. ASSUME NEW p \in tab.puts, PutRefused(p) \/ PutFails(p) PROVE Apart'
  <2> DEFINE t == Without(tab, p)
  <2>1. t \in TabRecord /\ AtHome(t) /\ t.active = Home
    BY <1>8 DEF AtHome
  <2>2. tab' \in {Requeued(t, p.card), Asking(t, "full", t.active, Nobody), t}
    BY <1>11 DEF PutRefused, PutFails
  <2> HIDE DEF t
  <2>3. AtHome(tab')
    BY <2>1, <2>2, RequeuedHome, AskingHome
  <2> QED
    BY <1>2, <1>11, <2>3 DEF PutRefused, PutFails
<1>12. ASSUME NEW g \in tab.gets
       PROVE  /\ g \in GetRecord /\ g.ws = Home
              /\ g.phase = "served" => NameOf(g.body) = Home
  BY <1>1 DEF AtHome, TabRecord
<1>13. ASSUME NEW g, NEW h, h.ws = Home, h.phase = "served" => NameOf(h.body) = Home
       PROVE  AtHome(Replaced(tab, g, h))
  BY <1>1, <1>13 DEF Replaced, AtHome, TabRecord
<1>14. ASSUME NEW g \in tab.gets, NEW b, NameOf(b) = Home
       PROVE  AtHome(Replaced(tab, g, Served(g, b)))
  <2> DEFINE h == Served(g, b)
  <2>1. h.ws = Home /\ h.body = b
    BY <1>12 DEF Served, GetRecord
  <2> HIDE DEF h
  <2>2. AtHome(Replaced(tab, g, h))
    BY <1>13, <1>14, <2>1
  <2> QED
    BY <2>2 DEF h
<1>15. ASSUME NEW g \in tab.gets, Serve(g) PROVE Apart'
  BY <1>1, <1>2, <1>12, <1>14, <1>15 DEF Serve
<1>16. ASSUME NEW g \in tab.gets, RunStarts(g) PROVE Apart'
  <2> DEFINE h == [g EXCEPT !.phase = "running"]
             srv == row[Home]
             b == [srv EXCEPT !.cards[g.card].exec = "active"]
  <2>1. h.ws = Home /\ h.phase = "running"
    BY <1>12 DEF GetRecord
  <2>2. NameOf(b) = Home
    BY <1>1, ContentParts DEF NameOf
  <2>3. tab' = Replaced(tab, g, h) /\ row' = [row EXCEPT ![Home] = b] /\ stored' = stored
    BY <1>12, <1>16 DEF RunStarts
  <2> HIDE DEF h, b
  <2>4. AtHome(tab')
    BY <1>13, <2>1, <2>3
  <2> QED
    BY <1>1, <1>3, <2>2, <2>3, <2>4
<1>17. ASSUME NEW g \in tab.gets, RunEnds(g) PROVE Apart'
  <2> DEFINE done == Ran(row[Home], g.card)
  <2>1. NameOf(done) = Home
    BY <1>1, BoardEditsKeepName
  <2>2. /\ tab' = Replaced(tab, g, Served(g, done)) /\ row' = [row EXCEPT ![Home] = done]
        /\ stored' = stored
    BY <1>12, <1>17 DEF RunEnds
  <2> HIDE DEF done
  <2> QED
    BY <1>1, <1>3, <1>14, <2>1, <2>2
<1>18. ASSUME NEW g PROVE /\ AtHome([tab EXCEPT !.gets = @ \ {g}])
                          /\ [tab EXCEPT !.gets = @ \ {g}] \in TabRecord
  BY <1>1 DEF AtHome, TabRecord
<1>19. ASSUME NEW g \in tab.gets, RunFails(g) PROVE Apart'
  BY <1>1, <1>2, <1>18, <1>19, AskingHome DEF RunFails, Rescued
<1>28. ASSUME NEW g \in tab.gets, RunBreaks(g) PROVE Apart'
  <2> DEFINE b == IF g.phase = "running" THEN Reverted(row[Home], g.card) ELSE row[Home]
  <2>1. row' = [row EXCEPT ![Home] = b] /\ tab' = Rescued(tab, g) /\ stored' = stored
    BY <1>12, <1>28 DEF RunBreaks
  <2>2. NameOf(b) = Home
    BY <1>1, BoardEditsKeepName
  <2>3. AtHome(tab')
    <3> DEFINE left == [tab EXCEPT !.gets = @ \ {g}]
    <3>1. AtHome(left) /\ left \in TabRecord
      BY <1>18
    <3>2. tab' = Asking(left, "rescue", Home, g.card)
      BY <1>1, <2>1 DEF Rescued
    <3> HIDE DEF left
    <3> QED
      BY <3>1, <3>2, AskingHome
  <2> HIDE DEF b
  <2> QED
    BY <1>1, <1>3, <2>1, <2>2, <2>3
<1>20. ASSUME NEW g \in tab.gets, FetchFails(g) PROVE Apart'
  <2> DEFINE left == [tab EXCEPT !.gets = @ \ {g}]
  <2>1. AtHome(left) /\ left \in TabRecord
    BY <1>18
  <2>2. g.kind \in {"poll", "full", "load", "rescue"}
    BY <1>12, <1>20 DEF FetchFails, GetRecord, GetKinds
  <2>3. tab' \in {left, [left EXCEPT !.ready = FALSE, !.dirty = FALSE], Requeued(left, g.card)}
    BY <1>20, <2>2 DEF FetchFails, Failed
  <2> HIDE DEF left
  <2>4. AtHome([left EXCEPT !.ready = FALSE, !.dirty = FALSE])
    BY <2>1 DEF AtHome, TabRecord
  <2>5. AtHome(tab')
    BY <2>1, <2>3, <2>4, RequeuedHome
  <2> QED
    BY <1>2, <1>20, <2>5 DEF FetchFails
<1>21. ASSUME NEW g \in tab.gets, Answer(g) PROVE Apart'
  <2> DEFINE b == IF g.kind = "poll" THEN Refresh(tab.screen, g.body) ELSE g.body
  <2>1. NameOf(b) = Home
    BY <1>1, <1>12, <1>21, BoardEditsKeepName DEF Answer
  <2>2. tab' = [Show(tab, b) EXCEPT !.ready = @ \/ g.kind = "load",
                                    !.dirty = @ \/ g.kind = "load",
                                    !.tag = g.body, !.base = g.body,
                                    !.gets = @ \ {g},
                                    !.puts = Overtaken(@)]
    BY <1>21 DEF Answer, Applied
  <2> HIDE DEF b
  <2>3. /\ tab'.screen = b /\ tab'.active = tab.active
        /\ tab'.gets = tab.gets \ {g} /\ tab'.puts = Overtaken(tab.puts)
    BY <1>1, <2>2 DEF Show, TabRecord
  <2>4. AtHome(tab')
    BY <1>1, <2>1, <2>3, OvertakenHome DEF AtHome
  <2> QED
    BY <1>2, <1>21, <2>4 DEF Answer
<1>22. ASSUME ListFails PROVE Apart'
  <2>1. AtHome(tab')
    BY <1>1, <1>22 DEF ListFails, AtHome, TabRecord
  <2> QED
    BY <1>2, <1>22, <2>1 DEF ListFails
<1>23. CASE Elsewhere
  <2>1. ASSUME NEW w \in Workspace, NEW kind \in EditKinds, EditElsewhere(w, kind) PROVE Apart'
    <3>1. PICK edited \in EditsOfKind(kind, row[w], fresh) :
            row' = [row EXCEPT ![w] = Normalize(MergeBoard(row[w], edited))]
      BY <2>1 DEF EditElsewhere
    <3>2. row[w] \in Content /\ NameOf(row[w]) = w /\ SpentOn(row[w], fresh)
      BY <1>1 DEF IInv, RowInv
    <3>3. edited \in Content /\ NameOf(edited) = w
      BY <3>2, EditType, EditsKeepName DEF SpentOn
    <3>4. MergeBoard(row[w], edited) \in Content
      BY <3>2, <3>3, MergeFacts
    <3>5. NameOf(Normalize(MergeBoard(row[w], edited))) = w
      BY <3>2, <3>3, <3>4, BoardEditsKeepName
    <3>6. AtHome(tab') /\ stored' = stored
      BY <1>1, <2>1 DEF EditElsewhere
    <3> QED
      BY <1>3, <3>1, <3>5, <3>6
  <2>2. ASSUME NEW w \in Workspace, NEW c \in Card, RunElsewhere(w, c) PROVE Apart'
    <3> DEFINE b == [row[w] EXCEPT !.cards[c].exec = "active"]
    <3>1. NameOf(b) = w
      BY <1>1, ContentParts DEF NameOf
    <3>2. row' = [row EXCEPT ![w] = b] /\ AtHome(tab') /\ stored' = stored
      BY <1>1, <2>2 DEF RunElsewhere
    <3> HIDE DEF b
    <3> QED
      BY <1>3, <3>1, <3>2
  <2>4. ASSUME NEW w \in Workspace, NEW c \in Card, RunElsewhereEnds(w, c) PROVE Apart'
    <3>1. NameOf(Ran(row[w], c)) = w /\ NameOf(Reverted(row[w], c)) = w
      BY <1>1, BoardEditsKeepName
    <3>2. PICK b : row' = [row EXCEPT ![w] = b] /\ NameOf(b) = w
      BY <2>4, <3>1 DEF RunElsewhereEnds
    <3>3. AtHome(tab') /\ stored' = stored
      BY <1>1, <2>4 DEF RunElsewhereEnds
    <3> QED
      BY <1>3, <3>2, <3>3
  <2>3. ASSUME NEW w \in Workspace, SwitchElsewhere(w) PROVE FALSE
    BY <2>3 DEF SwitchElsewhere, NoSwitching
  <2> QED
    BY <1>23, <2>1, <2>2, <2>3, <2>4 DEF Elsewhere
<1>24. CASE UNCHANGED vars
  BY <1>1, <1>2, <1>24 DEF vars
<1>25. FailStep => Apart'
  BY <1>11, <1>20, <1>22, <1>28 DEF FailStep
<1>26. ASSUME NEW kind \in PutKinds, Saves(kind) PROVE Apart'
  BY <1>9, <1>10, <1>11, <1>26 DEF Saves
<1>27. ASSUME NEW kind \in GetKinds, Fetches(kind) PROVE Apart'
  BY <1>15, <1>16, <1>17, <1>19, <1>21, <1>27 DEF Fetches
<1> QED
  BY <1>4, <1>5, <1>6, <1>23, <1>24, <1>25, <1>26, <1>27 DEF Next

(* At first each row is its own workspace's.                               *)
LEMMA ApartAtFirst == Init => Apart
<1> SUFFICES ASSUME Init PROVE Apart
  OBVIOUS
<1>1. ASSUME NEW w \in Workspace PROVE NameOf(Begun(w)) = w
  BY DEF NameOf, Begun, DefaultContent, DefaultFrame
<1>2. /\ row = [w \in Workspace |-> Begun(w)] /\ stored = Home /\ Home \in Workspace
      /\ tab = Opened(Home, row[Home])
  BY ClientAssumption DEF Init
<1>3. AtHome(tab)
  BY <1>1, <1>2 DEF AtHome, Opened
<1> QED
  BY <1>1, <1>2, <1>3 DEF Apart, WorkspacesStayApart, NameOf

(* While nobody switches workspaces, on this tab or another one, the rows  *)
(* of two workspaces never mix, whatever is saved, reset, reloaded, run or *)
(* answered late.  What the run workspaces_mix shows is therefore due to   *)
(* switching alone.                                                        *)
THEOREM RowsStayApartWithoutSwitching ==
    NoSwitching => (Spec => []WorkspacesStayApart)
<1> SUFFICES ASSUME NoSwitching PROVE Spec => []WorkspacesStayApart
  OBVIOUS
<1>1. Apart => WorkspacesStayApart
  BY DEF Apart
<1>2. IInv /\ IInv' /\ Apart /\ [Next]_vars => Apart'
  BY ApartStep
<1> QED
  BY <1>1, <1>2, ApartAtFirst, Invariance, PTL DEF Spec
=============================================================================
