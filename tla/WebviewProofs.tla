---------------------------- MODULE WebviewProofs ----------------------------
(***************************************************************************)
(* For every graph, every set of tabs and hops, and every order of answers *)
(* no gesture leads to a view without the focus it needs, what is on       *)
(* screen when nothing is awaited is the present answer (Followed), and    *)
(* the directories open on it are those that were clicked (Clicked).       *)
(*                                                                         *)
(* A tab is enabled by what was last rendered (screen.nav), and what it    *)
(* does is decided by the navigation as it is (nav).  The two agree on     *)
(* there being a focus only because whatever takes a focus away is a       *)
(* gesture, and React commits a gesture before it handles the next one:    *)
(* FocusStands says so of the moments when a gesture can happen.           *)
(***************************************************************************)
EXTENDS Webview, FiniteSetTheorems, WellFoundedInduction, TLAPS

Foci == Ids \cup {None}

(* What the argument needs of the type of a navigation state.                *)
Shaped(n) ==
  n \in [view : Views, focus : Foci, hops : {n.hops}, expand : {n.expand}, auto : {n.auto}]

FocusStands == ~flush /\ screen.nav.focus # None => nav.focus # None

IInv == /\ Shaped(nav)
        /\ flush \in BOOLEAN
        /\ NeverADeadEnd
        /\ FocusStands

-----------------------------------------------------------------------------
(* What the reducer returns. *)

LEMMA ArriveShape ==
  ASSUME NEW n, Shaped(n), NEW v \in Views, NEW f \in Foci
  PROVE  /\ Shaped(Arrive(n, v, f))
         /\ Arrive(n, v, f).view = v /\ Arrive(n, v, f).focus = f
BY DEF Shaped, Arrive

LEMMA OpenShape ==
  ASSUME NEW n, Shaped(n), NEW v \in Views, NEW id \in Ids
  PROVE  /\ Shaped(Open(n, v, id))
         /\ Open(n, v, id).focus = id
         /\ Ready(Open(n, v, id))
<1>1. id \in Foci /\ id # None
  BY NavigationAssumption DEF Foci
<1>. QED
  BY <1>1, ArriveShape DEF Open, Ready

(* A pick of a node keeps a focus where there is one. *)
LEMMA PickShape ==
  ASSUME NEW n, Shaped(n), Ready(n), NEW kind, NEW id \in Ids
  PROVE  /\ Shaped(PickNode(n, kind, id)) /\ Ready(PickNode(n, kind, id))
         /\ n.focus # None => PickNode(n, kind, id).focus # None
<1>1. id # None /\ "contract" \in Views /\ "call" \in Views
  BY NavigationAssumption DEF Views
<1>2. PickNode(n, kind, id) \in {n, Open(n, "contract", id), Open(n, "call", id)}
  BY DEF PickNode
<1>. QED
  BY <1>1, <1>2, OpenShape

LEMMA ClusterShape ==
  ASSUME NEW n, Shaped(n), NEW path, NEW expanded, NEW open
  PROVE  /\ Shaped(PickCluster(n, path, expanded, open))
         /\ PickCluster(n, path, expanded, open).view = n.view
         /\ PickCluster(n, path, expanded, open).focus = n.focus
BY DEF Shaped, PickCluster

LEMMA HopsShape ==
  ASSUME NEW n, Shaped(n), NEW h
  PROVE  Shaped(OnHops(n, h)) /\ OnHops(n, h).view = n.view /\ OnHops(n, h).focus = n.focus
BY DEF Shaped, OnHops

LEMMA FocusShape ==
  ASSUME NEW n, Shaped(n), NEW f \in Foci
  PROVE  /\ Shaped(OnFocus(n, f)) /\ Ready(OnFocus(n, f))
         /\ OnFocus(n, f).focus = f
<1>1. CASE f = None /\ n.view \in NeedsFocus
  <2>1. "protocol" \in Views /\ "protocol" \notin NeedsFocus
    BY DEF Views, NeedsFocus
  <2>. QED
    BY <1>1, <2>1, ArriveShape DEF OnFocus, Ready, Foci
<1>2. CASE ~(f = None /\ n.view \in NeedsFocus)
  BY <1>2 DEF OnFocus, Ready, Shaped
<1>. QED
  BY <1>1, <1>2

LEMMA ViewShape ==
  ASSUME NEW n, Shaped(n), NEW v \in Views
  PROVE  /\ Shaped(OnView(n, v)) /\ OnView(n, v).view = v /\ OnView(n, v).focus = n.focus
BY ArriveShape DEF OnView, Shaped

-----------------------------------------------------------------------------
LEMMA Initially == Init => IInv
<1>. SUFFICES ASSUME Init PROVE IInv
  OBVIOUS
<1>1. nav = InitialNav /\ flush = FALSE /\ screen.nav = InitialNav
  BY DEF Init, NoScreen
<1>2. Shaped(InitialNav)
  BY DEF InitialNav, Shaped, Views, Foci
<1>3. InitialNav.view = "protocol" /\ InitialNav.focus = None
  BY DEF InitialNav
<1>. QED
  BY <1>1, <1>2, <1>3 DEF IInv, NeverADeadEnd, Ready, NeedsFocus, FocusStands

(* The steps that leave the navigation and the rendered screen alone. *)
LEMMA Elsewhere ==
  ASSUME IInv, UNCHANGED <<nav, screen, flush>>
  PROVE  IInv'
BY DEF IInv, NeverADeadEnd, FocusStands

(* A gesture that leaves a shaped navigation with what it needs: the next    *)
(* thing to happen is the Commit.                                            *)
LEMMA AfterGesture ==
  ASSUME IInv, Gesture, Shaped(nav'), Ready(nav')
  PROVE  IInv'
BY DEF IInv, Gesture, NeverADeadEnd, FocusStands

(* A message is not committed at once, so it must leave a focus there.       *)
LEMMA AfterMessage ==
  ASSUME IInv, Message, Shaped(nav'), Ready(nav'), nav.focus # None => nav'.focus # None
  PROVE  IInv'
BY DEF IInv, Message, Handled, drawing, NeverADeadEnd, FocusStands

LEMMA CommitStep == IInv /\ Commit => IInv'
<1>. SUFFICES ASSUME IInv, Commit PROVE IInv'
  OBVIOUS
<1>1. nav' = nav /\ flush' = FALSE /\ screen' = Rendered
  BY DEF Commit
<1>2. screen'.nav = nav
  BY <1>1 DEF Rendered
<1>. QED
  BY <1>1, <1>2 DEF IInv, NeverADeadEnd, FocusStands

LEMMA GestureStep ==
  ASSUME IInv, ~flush,
         \/ \E path \in Paths : ClickDirectory(path)
         \/ \E id \in Ids : ClickNode(id) \/ DoubleClick(id) \/ GoTo(id) \/ ShowInContract(id)
         \/ \E id \in Ids \cup {None} : Select(id)
         \/ \E view \in Tabs : ChooseView(view)
         \/ ClearFocus
         \/ \E hops \in Hops : StepHops(hops)
  PROVE  IInv'
<1>1. Shaped(nav) /\ Ready(nav)
  BY DEF IInv, NeverADeadEnd
<1>2. ASSUME NEW path \in Paths, ClickDirectory(path) PROVE IInv'
  <2>1. Gesture /\ Shaped(nav') /\ nav'.view = nav.view /\ nav'.focus = nav.focus
    BY <1>1, <1>2, ClusterShape DEF ClickDirectory
  <2>. QED
    BY <1>1, <2>1, AfterGesture DEF Ready
<1>3. ASSUME NEW id \in Ids, ClickNode(id) PROVE IInv'
  <2>1. nav' \in {nav, OnFocus(nav, id), PickNode(nav, Kind[id], id)}
    BY <1>3 DEF ClickNode
  <2>2. Shaped(nav') /\ Ready(nav')
    BY <1>1, <2>1, FocusShape, PickShape DEF Foci
  <2>. QED
    BY <1>3, <2>2, AfterGesture DEF ClickNode
<1>4. ASSUME NEW id \in Ids, DoubleClick(id) PROVE IInv'
  BY <1>1, <1>4, PickShape, AfterGesture DEF DoubleClick
<1>5. ASSUME NEW id \in Ids, GoTo(id) PROVE IInv'
  BY <1>1, <1>5, PickShape, AfterMessage DEF GoTo
<1>6. ASSUME NEW id \in Ids, ShowInContract(id) PROVE IInv'
  <2>1. "contract" \in Views
    BY DEF Views
  <2>. QED
    BY <1>1, <1>6, <2>1, OpenShape, AfterGesture DEF ShowInContract
<1>7. ASSUME NEW id \in Ids \cup {None}, Select(id) PROVE IInv'
  BY <1>1, <1>7, AfterGesture, AfterMessage DEF Select
<1>8. ASSUME NEW view \in Tabs, ChooseView(view) PROVE IInv'
  <2>1. view \in Views
    BY WebviewAssumption
  <2>2. view \in NeedsFocus => nav.focus # None
    BY <1>8 DEF ChooseView, TabEnabled, IInv, FocusStands
  <2>3. Gesture /\ nav' = OnView(nav, view)
    BY <1>8 DEF ChooseView
  <2>4. Shaped(nav') /\ Ready(nav')
    BY <1>1, <2>1, <2>2, <2>3, ViewShape DEF Ready
  <2>. QED
    BY <2>3, <2>4, AfterGesture
<1>9. CASE ClearFocus
  BY <1>1, <1>9, FocusShape, AfterGesture DEF ClearFocus, Foci
<1>10. ASSUME NEW hops \in Hops, StepHops(hops) PROVE IInv'
  <2>1. Gesture /\ Shaped(nav') /\ nav'.view = nav.view /\ nav'.focus = nav.focus
    BY <1>1, <1>10, HopsShape DEF StepHops
  <2>. QED
    BY <1>1, <2>1, AfterGesture DEF Ready
<1>. QED
  BY <1>2, <1>3, <1>4, <1>5, <1>6, <1>7, <1>8, <1>9, <1>10

(* The host, the transport and the canvas: only the first meta touches the   *)
(* navigation, and it sets the hops.                                         *)
LEMMA HostStep ==
  ASSUME IInv,
         \/ HostRefreshes \/ OnRefresh \/ ThemeChanges
         \/ \E c \in Channels : Transport(c) \/ \E i \in 1 .. Len(flight[c]) : Fails(c, i)
         \/ \E i \in 1 .. Len(layouts) : LaidOut(i) \/ LayoutFails(i)
  PROVE  IInv'
<1>1. CASE HostRefreshes \/ OnRefresh \/ ThemeChanges
  BY <1>1, Elsewhere DEF HostRefreshes, OnRefresh, ThemeChanges, drawing
<1>2. ASSUME NEW c \in Channels, NEW i \in 1 .. Len(flight[c]), HostAnswers(c, i) \/ Fails(c, i)
      PROVE  IInv'
  BY <1>2, Elsewhere DEF HostAnswers, Fails, drawing
<1>3. ASSUME NEW c \in Channels, NEW i \in 1 .. Len(flight[c]), Arrives(c, i) PROVE IInv'
  <2>1. UNCHANGED <<screen, flush>> /\ nav' \in {nav, OnHops(nav, DefaultHops)}
    BY <1>3 DEF Arrives, drawing
  <2>2. Shaped(nav') /\ nav'.view = nav.view /\ nav'.focus = nav.focus
    BY <2>1, HopsShape DEF IInv
  <2>. QED
    BY <2>1, <2>2 DEF IInv, NeverADeadEnd, Ready, FocusStands
<1>4. ASSUME NEW i \in 1 .. Len(layouts), LaidOut(i) \/ LayoutFails(i) PROVE IInv'
  BY <1>4, Elsewhere DEF LaidOut, LayoutFails
<1>. QED
  BY <1>1, <1>2, <1>3, <1>4 DEF Transport

LEMMA Inductive == IInv /\ [Next]_vars => IInv'
<1>1. IInv /\ UNCHANGED vars => IInv'
  BY Elsewhere DEF vars
<1>. QED
  BY <1>1, CommitStep, GestureStep, HostStep DEF Next, Step

-----------------------------------------------------------------------------
(* What is on screen is what was asked for last.  Only one request of each   *)
(* channel is followed, that of the last run of its effect; so an answer is  *)
(* always one to the dependencies of that run, whatever was overtaken.       *)

(* The counters agree, and what is kept for each channel is kept for all.    *)
Keeping ==
  /\ unseen \in Nat /\ generation \in Nat /\ graph = generation + unseen
  /\ DOMAIN flight = Channels /\ DOMAIN asked = Channels
  /\ DOMAIN held = Channels /\ DOMAIN busy = Channels
  /\ canvas = [elements |-> canvas.elements, key |-> canvas.key, theme |-> canvas.theme,
               at |-> canvas.at, arranged |-> canvas.arranged, hidden |-> canvas.hidden,
               memory |-> canvas.memory]

(* The graphs that can answer a request sent at asked[c].at.                  *)
Versions(c) == IF c \in Files THEN {0} ELSE asked[c].at .. graph

(* At most one request of a channel is followed: that of its effect's last    *)
(* run, which every earlier one is cancelled for.                             *)
OneRequest(c) ==
  /\ asked[c] = [what |-> asked[c].what, at |-> asked[c].at]
  /\ asked[c].at \in Nat \cup {None}
  /\ asked[c].at # None => asked[c].at <= generation
  /\ flight[c] # <<>> =>
       /\ asked[c].at # None
       /\ flight[c] = <<[what |-> asked[c].what, version |-> flight[c][1].version]>>
       /\ \/ c \notin Files /\ flight[c][1].version = None
          \/ flight[c][1].version \in Versions(c)

(* A view that is no longer awaited has been answered or refused.             *)
ViewAnswered ==
  asked["view"].at # None /\ flight["view"] = <<>> =>
    /\ error = NoError => /\ held["view"].req = asked["view"].what
                          /\ held["view"].version \in Versions("view")
    /\ error.channel = "view" => error.what = asked["view"].what

DetailAnswered(c) ==
  flight[c] = <<>> => \/ held[c] = None
                      \/ /\ asked[c].at # None
                         /\ held[c].what = asked[c].what
                         /\ held[c].version \in Versions(c)

BusyWhileWaiting ==
  /\ busy["view"] \in BOOLEAN
  /\ busy["view"] <=> asked["view"].at = None \/ flight["view"] # <<>>

(* What the canvas holds is what the last Commit rendered, under its request. *)
DrawnIsRendered ==
  asked["view"].at # None => /\ canvas.elements = screen.elements
                             /\ canvas.key = ToRequest(screen.nav)

Followed ==
  /\ Keeping
  /\ \A c \in Channels : OneRequest(c)
  /\ ViewAnswered
  /\ \A c \in Details : DetailAnswered(c)
  /\ BusyWhileWaiting
  /\ DrawnIsRendered

-----------------------------------------------------------------------------
(* One request of a channel, and its answer. *)

LEMMA ChannelsDiffer ==
  /\ "view" \in Channels /\ "view" \notin Files /\ "view" \notin Details
  /\ Files \cap Details = {} /\ Files \subseteq Channels /\ Details \subseteq Channels
BY WebviewAssumption DEF Channels

LEMMA NoErrorNamesNone == NoError.channel = None /\ None # "view" /\ None # "meta"
BY WebviewAssumption DEF NoError

LEMMA RemoveTheOnly == \A r : RemoveAt(<<r>>, 1) = <<>>
BY DEF RemoveAt

LEMMA AnswerTheOnly ==
  ASSUME NEW w, NEW v, NEW g, NEW s, s = <<[what |-> w, version |-> v]>>
  PROVE  [s EXCEPT ![1].version = g] = <<[what |-> w, version |-> g]>>
OBVIOUS

LEMMA IndexOfTheOnly ==
  ASSUME NEW s, NEW r, s = <<r>>, NEW i \in 1 .. Len(s)
  PROVE  i = 1
OBVIOUS

(* What an answer or a failure finds.                                         *)
LEMMA TheRequest ==
  ASSUME Followed, NEW c \in Channels, NEW i \in 1 .. Len(flight[c])
  PROVE  /\ i = 1 /\ flight[c] # <<>> /\ asked[c].at # None
         /\ flight[c] = <<[what |-> asked[c].what, version |-> flight[c][1].version]>>
         /\ flight[c][1].what = asked[c].what
         /\ \/ c \notin Files /\ flight[c][1].version = None
            \/ flight[c][1].version \in Versions(c)
         /\ RemoveAt(flight[c], i) = <<>>
<1>1. OneRequest(c)
  BY DEF Followed
<1>2. flight[c] # <<>>
  OBVIOUS
<1>3. flight[c] = <<[what |-> asked[c].what, version |-> flight[c][1].version]>>
  BY <1>1, <1>2 DEF OneRequest
<1>4. i = 1
  BY <1>3, IndexOfTheOnly
<1>5. RemoveAt(flight[c], 1) = <<>>
  BY <1>3, RemoveTheOnly
<1>6. flight[c][1].what = asked[c].what
  BY <1>3
<1>. QED
  BY <1>1, <1>2, <1>3, <1>4, <1>5, <1>6 DEF OneRequest

-----------------------------------------------------------------------------
(* Each step keeps what is followed. *)

LEMMA FollowedAtFirst == Init => Followed
<1>. SUFFICES ASSUME Init PROVE Followed
  OBVIOUS
<1>1. Keeping
  BY DEF Init, Keeping
<1>2. ASSUME NEW c \in Channels
      PROVE  asked[c] = NeverRun /\ flight[c] = <<>> /\ held[c] = None /\ busy[c] = (c = "view")
  BY DEF Init
<1>3. ASSUME NEW c \in Channels PROVE OneRequest(c)
  BY <1>2 DEF OneRequest, NeverRun
<1>4. ViewAnswered /\ DrawnIsRendered
  BY <1>2, ChannelsDiffer DEF ViewAnswered, DrawnIsRendered, NeverRun
<1>5. \A c \in Details : DetailAnswered(c)
  BY <1>2, ChannelsDiffer DEF DetailAnswered
<1>6. BusyWhileWaiting
  <2>1. busy["view"] = TRUE
    BY <1>2, ChannelsDiffer
  <2>2. asked["view"].at = None
    BY <1>2, ChannelsDiffer DEF NeverRun
  <2>. QED
    BY <2>1, <2>2 DEF BusyWhileWaiting
<1>. QED
  BY <1>1, <1>3, <1>4, <1>5, <1>6 DEF Followed

(* Gestures, messages and themes touch none of it. *)
LEMMA FollowedElsewhere ==
  ASSUME Followed, UNCHANGED <<graph, unseen, generation, requesting, drawing>>
  PROVE  Followed'
<1>. USE DEF requesting, drawing
<1>1. Keeping' /\ ViewAnswered' /\ BusyWhileWaiting' /\ DrawnIsRendered'
  BY DEF Followed, Keeping, ViewAnswered, Versions, BusyWhileWaiting, DrawnIsRendered
<1>2. ASSUME NEW c \in Channels PROVE OneRequest(c)'
  BY DEF Followed, OneRequest, Versions
<1>3. ASSUME NEW c \in Details PROVE DetailAnswered(c)'
  BY DEF Followed, DetailAnswered, Versions
<1>. QED
  BY <1>1, <1>2, <1>3 DEF Followed

(* A graph more can only answer more; receiving the refresh asks nothing.     *)
LEMMA FollowedRefresh ==
  ASSUME Followed, HostRefreshes \/ OnRefresh
  PROVE  Followed'
<1>. USE DEF requesting, drawing
<1>0. UNCHANGED <<requesting, drawing>>
  BY DEF HostRefreshes, OnRefresh
<1>1. Keeping
  BY DEF Followed
<1>2. graph' \in {graph, graph + 1} /\ generation' \in {generation, generation + 1}
  BY DEF HostRefreshes, OnRefresh
<1>3. Keeping'
  <2>1. unseen' \in Nat /\ generation' \in Nat /\ graph' = generation' + unseen'
    BY <1>1 DEF Keeping, HostRefreshes, OnRefresh
  <2>. QED
    BY <1>0, <1>1, <2>1 DEF Keeping
<1>4. ASSUME NEW c \in Channels PROVE OneRequest(c) /\ OneRequest(c)' /\ Versions(c) \subseteq Versions(c)'
  <2>1. OneRequest(c)
    BY DEF Followed
  <2>2. Versions(c) \subseteq Versions(c)'
    BY <1>0, <1>1, <1>2 DEF Versions, Keeping
  <2>3. (asked[c].at # None => asked[c].at <= generation)'
    BY <1>0, <1>1, <1>2, <2>1 DEF OneRequest, Keeping
  <2>. QED
    BY <1>0, <2>1, <2>2, <2>3 DEF OneRequest
<1>5. ViewAnswered'
  BY <1>0, <1>4, ChannelsDiffer DEF Followed, ViewAnswered
<1>6. ASSUME NEW c \in Details PROVE DetailAnswered(c)'
  BY <1>0, <1>4, ChannelsDiffer DEF Followed, DetailAnswered
<1>7. BusyWhileWaiting' /\ DrawnIsRendered'
  BY <1>0 DEF Followed, BusyWhileWaiting, DrawnIsRendered
<1>. QED
  BY <1>3, <1>4, <1>5, <1>6, <1>7 DEF Followed

LEMMA FollowedAnswering ==
  ASSUME Followed, NEW c \in Channels, NEW i \in 1 .. Len(flight[c]), HostAnswers(c, i)
  PROVE  Followed'
<1>. DEFINE w == asked[c].what
<1>1. Keeping /\ OneRequest(c) /\ i = 1 /\ flight[c] # <<>>
      /\ flight[c] = <<[what |-> w, version |-> flight[c][1].version]>>
  BY TheRequest DEF Followed
<1>2. UNCHANGED <<graph, unseen, generation, held, error, busy, asked, screen, canvas, layouts>>
  BY DEF HostAnswers, drawing
<1>3. flight' = [flight EXCEPT ![c] = [flight[c] EXCEPT ![1].version = graph]]
  BY <1>1 DEF HostAnswers
<1>4. DOMAIN flight = Channels
  BY <1>1 DEF Keeping
<1>5. flight'[c] = <<[what |-> w, version |-> graph]>> /\ DOMAIN flight' = Channels
      /\ \A d \in Channels : d # c => flight'[d] = flight[d]
  BY <1>1, <1>3, <1>4, AnswerTheOnly
<1>6. c \notin Files
  <2>1. flight[c][1].version = None
    BY <1>1 DEF HostAnswers
  <2>. QED
    BY <1>1, <2>1, TheRequest, WebviewAssumption DEF OneRequest, Versions
<1>7. graph \in Versions(c)
  BY <1>1, <1>6 DEF Versions, OneRequest, Keeping
<1>8. flight'[c] # <<>> /\ flight'[c][1].version = graph
  BY <1>5
<1>9. Keeping'
  BY <1>1, <1>2, <1>5 DEF Keeping
<1>10. ASSUME NEW d \in Channels PROVE OneRequest(d)' /\ (flight'[d] = <<>> <=> flight[d] = <<>>)
  <2>1. OneRequest(d) /\ (Versions(d)' = Versions(d))
    BY <1>2 DEF Followed, Versions
  <2>2. CASE d = c
    BY <1>1, <1>2, <1>5, <1>7, <1>8, <2>1, <2>2 DEF OneRequest
  <2>3. CASE d # c
    BY <1>2, <1>5, <2>1, <2>3 DEF OneRequest
  <2>. QED
    BY <2>2, <2>3
<1>11. ViewAnswered' /\ BusyWhileWaiting' /\ DrawnIsRendered'
  BY <1>2, <1>10, ChannelsDiffer
  DEF Followed, ViewAnswered, Versions, BusyWhileWaiting, DrawnIsRendered
<1>12. ASSUME NEW d \in Details PROVE DetailAnswered(d)'
  BY <1>2, <1>10, ChannelsDiffer DEF Followed, DetailAnswered, Versions
<1>. QED
  BY <1>9, <1>10, <1>11, <1>12 DEF Followed

(* What an answer and a failure have in common: the request is followed no    *)
(* further.                                                                   *)
LEMMA FollowedOver ==
  ASSUME Followed, NEW c \in Channels, NEW i \in 1 .. Len(flight[c]),
         flight' = [flight EXCEPT ![c] = RemoveAt(@, i)],
         busy' = [busy EXCEPT ![c] = FALSE],
         DOMAIN held' = Channels,
         UNCHANGED <<graph, unseen, generation, asked, screen, canvas, layouts>>
  PROVE  /\ Keeping' /\ BusyWhileWaiting' /\ DrawnIsRendered'
         /\ \A d \in Channels : OneRequest(d)' /\ Versions(d)' = Versions(d)
         /\ \A d \in Channels : d # c => flight'[d] = flight[d]
<1>1. Keeping /\ RemoveAt(flight[c], i) = <<>> /\ asked[c].at # None
  BY TheRequest DEF Followed
<1>2. flight'[c] = <<>> /\ \A d \in Channels : d # c => flight'[d] = flight[d]
  BY <1>1 DEF Keeping
<1>3. busy'[c] = FALSE /\ \A d \in Channels : d # c => busy'[d] = busy[d]
  BY <1>1 DEF Keeping
<1>4. Keeping'
  BY <1>1 DEF Keeping
<1>5. ASSUME NEW d \in Channels PROVE OneRequest(d)' /\ Versions(d)' = Versions(d)
  BY <1>2 DEF Followed, OneRequest, Versions
<1>6. BusyWhileWaiting'
  <2>1. CASE c = "view"
    BY <1>1, <1>2, <1>3, <2>1 DEF BusyWhileWaiting
  <2>2. CASE c # "view"
    <3>1. busy'["view"] = busy["view"] /\ flight'["view"] = flight["view"] /\ BusyWhileWaiting
      BY <1>2, <1>3, <2>2, ChannelsDiffer DEF Followed
    <3>. QED
      BY <3>1 DEF BusyWhileWaiting
  <2>. QED
    BY <2>1, <2>2
<1>7. DrawnIsRendered'
  BY DEF Followed, DrawnIsRendered
<1>. QED
  BY <1>2, <1>4, <1>5, <1>6, <1>7

LEMMA FollowedArrival ==
  ASSUME Followed, NEW c \in Channels, NEW i \in 1 .. Len(flight[c]), Arrives(c, i)
  PROVE  Followed'
<1>. DEFINE r == flight[c][i]
<1>1. /\ r.what = asked[c].what /\ asked[c].at # None
      /\ r.version \in Versions(c)
  BY TheRequest DEF Arrives
<1>2. /\ flight' = [flight EXCEPT ![c] = RemoveAt(@, i)]
      /\ busy' = [busy EXCEPT ![c] = FALSE]
      /\ held' = [held EXCEPT ![c] = Answer(c, r)]
      /\ error' = IF c = "view" THEN NoError ELSE error
      /\ UNCHANGED <<graph, unseen, generation, asked, screen, canvas, layouts>>
  BY DEF Arrives, drawing
<1>. HIDE DEF r
<1>3. DOMAIN held = Channels
  BY DEF Followed, Keeping
<1>4. /\ held'[c] = Answer(c, r) /\ DOMAIN held' = Channels
      /\ \A d \in Channels : d # c => held'[d] = held[d]
  BY <1>2, <1>3
<1>5. /\ Keeping' /\ BusyWhileWaiting' /\ DrawnIsRendered'
      /\ \A d \in Channels : OneRequest(d)' /\ Versions(d)' = Versions(d)
      /\ \A d \in Channels : d # c => flight'[d] = flight[d]
  BY <1>2, <1>4, FollowedOver
<1>6. ViewAnswered'
  <2>1. CASE c = "view"
    <3>1. held'["view"].req = asked["view"].what /\ held'["view"].version = r.version
      BY <1>1, <1>4, <2>1 DEF Answer
    <3>2. error' = NoError /\ NoError.channel # "view"
      BY <1>2, <2>1, NoErrorNamesNone
    <3>3. Versions("view")' = Versions("view")
      BY <1>5, ChannelsDiffer
    <3>. QED
      BY <1>1, <1>2, <2>1, <3>1, <3>2, <3>3 DEF ViewAnswered
  <2>2. CASE c # "view"
    <3>1. UNCHANGED <<held["view"], flight["view"], error, asked>>
      BY <1>2, <1>4, <1>5, <2>2, ChannelsDiffer
    <3>2. ViewAnswered /\ Versions("view")' = Versions("view")
      BY <1>5, ChannelsDiffer DEF Followed
    <3>. QED
      BY <3>1, <3>2 DEF ViewAnswered, NoError
  <2>. QED
    BY <2>1, <2>2
<1>7. ASSUME NEW d \in Details PROVE DetailAnswered(d)'
  <2>1. d \in Channels /\ d # "view" /\ Versions(d)' = Versions(d) /\ DetailAnswered(d)
    BY <1>5, ChannelsDiffer DEF Followed
  <2>2. CASE d = c
    <3>1. held'[d].what = asked[d].what /\ held'[d].version = r.version
      BY <1>1, <1>4, <2>1, <2>2 DEF Answer
    <3>. QED
      BY <1>1, <1>2, <2>1, <2>2, <3>1 DEF DetailAnswered
  <2>3. CASE d # c
    BY <1>2, <1>4, <1>5, <2>1, <2>3 DEF DetailAnswered
  <2>. QED
    BY <2>2, <2>3
<1>. QED
  BY <1>5, <1>6, <1>7 DEF Followed

LEMMA FollowedFailure ==
  ASSUME Followed, NEW c \in Channels, NEW i \in 1 .. Len(flight[c]), Fails(c, i)
  PROVE  Followed'
<1>. DEFINE request == flight[c][i].what
<1>1. request = asked[c].what /\ asked[c].at # None
  BY TheRequest
<1>2. /\ flight' = [flight EXCEPT ![c] = RemoveAt(@, i)]
      /\ busy' = [busy EXCEPT ![c] = FALSE]
      /\ held' = IF c \in {"audit"} \cup Details THEN [held EXCEPT ![c] = None] ELSE held
      /\ error' = IF c \in {"meta", "view"} THEN [channel |-> c, what |-> request] ELSE error
      /\ UNCHANGED <<graph, unseen, generation, asked, screen, canvas, layouts>>
  BY DEF Fails, drawing
<1>. HIDE DEF request
<1>3. DOMAIN held = Channels
  BY DEF Followed, Keeping
<1>4. /\ DOMAIN held' = Channels
      /\ \A d \in Channels : d # c => held'[d] = held[d]
      /\ c \in Details => held'[c] = None
      /\ c = "view" => held' = held
  BY <1>2, <1>3, ChannelsDiffer
<1>5. /\ Keeping' /\ BusyWhileWaiting' /\ DrawnIsRendered'
      /\ \A d \in Channels : OneRequest(d)' /\ Versions(d)' = Versions(d)
      /\ \A d \in Channels : d # c => flight'[d] = flight[d]
  BY <1>2, <1>4, FollowedOver
<1>6. ViewAnswered'
  <2>1. CASE c = "view"
    <3>1. error' = [channel |-> "view", what |-> asked["view"].what]
      BY <1>1, <1>2, <2>1
    <3>2. error'.channel = "view" /\ error'.what = asked["view"].what
      BY <3>1
    <3>3. error' # NoError
      BY <3>2, NoErrorNamesNone
    <3>. QED
      BY <1>2, <3>2, <3>3 DEF ViewAnswered, NoError
  <2>2. CASE c = "meta"
    <3>1. error'.channel = "meta"
      BY <1>2, <2>2
    <3>2. error' # NoError /\ error'.channel # "view"
      BY <3>1, NoErrorNamesNone
    <3>. QED
      BY <3>2 DEF ViewAnswered, NoError
  <2>3. CASE c # "view" /\ c # "meta"
    <3>1. UNCHANGED <<held["view"], flight["view"], error, asked>>
      BY <1>2, <1>4, <1>5, <2>3, ChannelsDiffer
    <3>2. ViewAnswered /\ Versions("view")' = Versions("view")
      BY <1>5, ChannelsDiffer DEF Followed
    <3>. QED
      BY <3>1, <3>2 DEF ViewAnswered, NoError
  <2>. QED
    BY <2>1, <2>2, <2>3
<1>7. ASSUME NEW d \in Details PROVE DetailAnswered(d)'
  <2>1. d \in Channels /\ Versions(d)' = Versions(d) /\ DetailAnswered(d)
    BY <1>5, ChannelsDiffer DEF Followed
  <2>2. CASE d = c
    BY <1>4, <2>2 DEF DetailAnswered
  <2>3. CASE d # c
    BY <1>2, <1>4, <1>5, <2>1, <2>3 DEF DetailAnswered
  <2>. QED
    BY <2>2, <2>3
<1>. QED
  BY <1>5, <1>6, <1>7 DEF Followed

(* The layout moves the nodes of the run it was asked by.                     *)
LEMMA FollowedLayout ==
  ASSUME Followed, NEW i \in 1 .. Len(layouts), LaidOut(i) \/ LayoutFails(i)
  PROVE  Followed'
<1>1. UNCHANGED <<graph, unseen, generation, held, error, busy, asked, flight, screen>>
  BY DEF LaidOut, LayoutFails, requesting
<1>2. Keeping
  BY DEF Followed
<1>3. /\ canvas'.elements = canvas.elements /\ canvas'.key = canvas.key
      /\ canvas' = [elements |-> canvas'.elements, key |-> canvas'.key, theme |-> canvas'.theme,
                    at |-> canvas'.at, arranged |-> canvas'.arranged, hidden |-> canvas'.hidden,
                    memory |-> canvas'.memory]
  BY <1>2 DEF Keeping, LaidOut, LayoutFails
<1>4. Keeping'
  BY <1>1, <1>2, <1>3 DEF Keeping
<1>5. ViewAnswered' /\ BusyWhileWaiting' /\ DrawnIsRendered'
  BY <1>1, <1>3 DEF Followed, ViewAnswered, Versions, BusyWhileWaiting, DrawnIsRendered
<1>6. ASSUME NEW c \in Channels PROVE OneRequest(c)'
  BY <1>1 DEF Followed, OneRequest, Versions
<1>7. ASSUME NEW c \in Details PROVE DetailAnswered(c)'
  BY <1>1 DEF Followed, DetailAnswered, Versions
<1>. QED
  BY <1>4, <1>5, <1>6, <1>7 DEF Followed

(* A channel of which no dependency changed keeps what it has; any other      *)
(* follows its new request and nothing else.                                  *)
LEMMA EffectOfChannel ==
  ASSUME Followed, RunEffects, NEW c \in Channels
  PROVE  /\ asked'[c] = Deps(c)
         /\ ~Stale(c) => asked'[c] = asked[c] /\ flight'[c] = flight[c] /\ busy'[c] = busy[c]
                         /\ held'[c] = held[c]
         /\ Stale(c) /\ Asks(c) => flight'[c] = <<Request(c)>> /\ held'[c] = held[c]
                                   /\ busy'[c] = (c \in Loading)
         /\ Stale(c) /\ ~Asks(c) => flight'[c] = <<>> /\ (c \in Details => held'[c] = None)
<1>1. NotCancelled(flight[c]) \o <<Request(c)>> = <<Request(c)>> /\ NotCancelled(flight[c]) \o <<>> = <<>>
  BY DEF NotCancelled
<1>2. asked'[c] = Deps(c) /\ (~Stale(c) => asked'[c] = asked[c])
  BY DEF RunEffects, Stale
<1>3. flight'[c] = IF ~Stale(c) THEN flight[c]
                   ELSE NotCancelled(flight[c]) \o (IF Asks(c) THEN <<Request(c)>> ELSE <<>>)
  BY DEF RunEffects
<1>4. held'[c] = IF Stale(c) /\ c \in Details /\ ~Asks(c) THEN None ELSE held[c]
  BY DEF RunEffects
<1>5. busy'[c] = IF ~Stale(c) \/ (c \in Details /\ ~Asks(c)) THEN busy[c]
                 ELSE Asks(c) /\ c \in Loading
  BY DEF RunEffects
<1>. QED
  BY <1>1, <1>2, <1>3, <1>4, <1>5

LEMMA FollowedCommit ==
  ASSUME Followed, NeverADeadEnd, Commit
  PROVE  Followed'
<1>1. RunEffects /\ Draw /\ screen' = Rendered
      /\ UNCHANGED <<graph, unseen, nav, generation, selected, error>>
  BY DEF Commit
<1>2. Keeping
  BY DEF Followed
<1>3. generation \in Nat /\ graph \in Nat /\ generation <= graph /\ generation # None
  BY <1>2, WebviewAssumption DEF Keeping
<1>4. ASSUME NEW c \in Channels
      PROVE  Deps(c) = [what |-> Deps(c).what, at |-> generation]
  BY DEF Deps
<1>5. ASSUME NEW c \in Channels PROVE OneRequest(c)'
  <2>1. CASE ~Stale(c)
    <3>1. asked'[c] = asked[c] /\ flight'[c] = flight[c] /\ OneRequest(c) /\ Versions(c)' = Versions(c)
      BY <1>1, <2>1, EffectOfChannel DEF Followed, Versions
    <3>. QED
      BY <1>1, <3>1 DEF OneRequest
  <2>2. CASE Stale(c)
    <3>1. asked'[c] = [what |-> asked'[c].what, at |-> generation]
      BY <1>1, <1>4, EffectOfChannel
    <3>2. flight'[c] \in {<<>>, <<Request(c)>>}
      BY <1>1, <2>2, EffectOfChannel
    <3>3. Request(c).what = asked'[c].what
      BY <1>1, EffectOfChannel DEF Request
    <3>4. Request(c) = [what |-> asked'[c].what, version |-> Request(c).version]
      BY <3>3 DEF Request
    <3>5. IF c \in Files THEN Request(c).version = 0 ELSE Request(c).version = None
      BY DEF Request
    <3>6. ASSUME flight'[c] # <<>>
          PROVE  /\ flight'[c] = <<[what |-> asked'[c].what, version |-> flight'[c][1].version]>>
                 /\ flight'[c][1].version = Request(c).version
      BY <3>2, <3>4, <3>6
    <3>7. asked'[c].at = generation
      BY <3>1
    <3>. QED
      BY <1>1, <1>3, <3>1, <3>5, <3>6, <3>7 DEF OneRequest, Versions
  <2>. QED
    BY <2>1, <2>2
<1>6. Keeping'
  <2>1. DOMAIN flight' = Channels /\ DOMAIN asked' = Channels
        /\ DOMAIN held' = Channels /\ DOMAIN busy' = Channels
    BY <1>1 DEF RunEffects
  <2>2. canvas' = [elements |-> canvas'.elements, key |-> canvas'.key, theme |-> canvas'.theme,
                   at |-> canvas'.at, arranged |-> canvas'.arranged, hidden |-> canvas'.hidden,
                   memory |-> canvas'.memory]
    BY <1>1, <1>2 DEF Draw, Keeping
  <2>. QED
    BY <1>1, <1>2, <2>1, <2>2 DEF Keeping
<1>7. Asks("view") /\ "view" \in Loading /\ "view" \in Channels
  BY ChannelsDiffer DEF Asks, NeverADeadEnd, Loading
<1>8. \/ /\ ~Stale("view")
         /\ UNCHANGED <<asked["view"], flight["view"], busy["view"], held["view"]>>
      \/ /\ flight'["view"] # <<>> /\ busy'["view"] = TRUE
         /\ asked'["view"].at # None
  <2>1. asked'["view"].at = generation
    BY <1>1, <1>4, <1>7, EffectOfChannel
  <2>2. <<Request("view")>> # <<>>
    OBVIOUS
  <2>3. ("view" \in Loading) = TRUE
    BY <1>7
  <2>. QED
    BY <1>1, <1>3, <1>7, <2>1, <2>2, <2>3, EffectOfChannel
<1>9. ViewAnswered'
  <2>1. ViewAnswered
    BY DEF Followed
  <2>. QED
    BY <1>1, <1>8, <2>1 DEF ViewAnswered, Versions, NoError
<1>10. BusyWhileWaiting'
  <2>1. BusyWhileWaiting
    BY DEF Followed
  <2>. QED
    BY <1>8, <2>1 DEF BusyWhileWaiting
<1>11. ASSUME NEW c \in Details PROVE DetailAnswered(c)'
  <2>1. c \in Channels /\ DetailAnswered(c)
    BY ChannelsDiffer DEF Followed
  <2>2. CASE ~Stale(c)
    <3>1. UNCHANGED <<asked[c], flight[c], held[c]>>
      BY <1>1, <2>1, <2>2, EffectOfChannel
    <3>. QED
      BY <1>1, <2>1, <3>1 DEF DetailAnswered, Versions
  <2>3. CASE Stale(c) /\ Asks(c)
    <3>1. flight'[c] = <<Request(c)>>
      BY <1>1, <2>1, <2>3, EffectOfChannel
    <3>2. flight'[c] # <<>>
      BY <3>1
    <3>. QED
      BY <3>2 DEF DetailAnswered
  <2>4. CASE Stale(c) /\ ~Asks(c)
    BY <1>1, <2>1, <2>4, EffectOfChannel DEF DetailAnswered
  <2>. QED
    BY <2>2, <2>3, <2>4
<1>12. DrawnIsRendered'
  <2>1. screen'.elements = Elements /\ screen'.nav = nav
    BY <1>1 DEF Rendered
  <2>2. canvas'.elements = Elements /\ canvas'.key = ToRequest(nav)
    BY <1>1 DEF Draw
  <2>. QED
    BY <2>1, <2>2 DEF DrawnIsRendered
<1>. QED
  BY <1>5, <1>6, <1>9, <1>10, <1>11, <1>12 DEF Followed

LEMMA FollowedGesture ==
  ASSUME Followed,
         \/ \E path \in Paths : ClickDirectory(path)
         \/ \E id \in Ids : ClickNode(id) \/ DoubleClick(id) \/ GoTo(id) \/ ShowInContract(id)
         \/ \E id \in Ids \cup {None} : Select(id)
         \/ \E view \in Tabs : ChooseView(view)
         \/ ClearFocus
         \/ \E hops \in Hops : StepHops(hops)
  PROVE  Followed'
<1>1. Handled
  BY DEF ClickDirectory, ClickNode, DoubleClick, GoTo, ShowInContract, Select, ChooseView,
         ClearFocus, StepHops, Gesture, Message
<1>. QED
  BY <1>1, FollowedElsewhere DEF Handled

LEMMA FollowedInductive == IInv /\ Followed /\ [Next]_vars => Followed'
<1>. SUFFICES ASSUME IInv, Followed, [Next]_vars PROVE Followed'
  OBVIOUS
<1>1. CASE UNCHANGED vars
  BY <1>1, FollowedElsewhere DEF vars, requesting, drawing
<1>2. CASE Commit
  BY <1>2, FollowedCommit DEF IInv
<1>3. CASE HostRefreshes \/ OnRefresh
  BY <1>3, FollowedRefresh
<1>4. CASE ThemeChanges
  BY <1>4, FollowedElsewhere DEF ThemeChanges
<1>5. CASE \E c \in Channels : Transport(c) \/ \E i \in 1 .. Len(flight[c]) : Fails(c, i)
  BY <1>5, FollowedAnswering, FollowedArrival, FollowedFailure DEF Transport
<1>6. CASE \E i \in 1 .. Len(layouts) : LaidOut(i) \/ LayoutFails(i)
  BY <1>6, FollowedLayout
<1>. QED
  BY <1>1, <1>2, <1>3, <1>4, <1>5, <1>6, FollowedGesture DEF Next, Step

LEMMA FollowedIsCurrent == Followed => ScreenIsCurrent
<1>. SUFFICES ASSUME Followed, Settled PROVE ScreenIsCurrent
  BY DEF ScreenIsCurrent
<1>1. /\ unseen = 0 /\ screen = Rendered
      /\ \A c \in Channels : ~Stale(c)
  BY DEF Settled, Due
<1>2. generation \in Nat /\ graph = generation
  BY <1>1 DEF Followed, Keeping
<1>3. ASSUME NEW c \in Channels
      PROVE  /\ asked[c] = Deps(c) /\ asked[c].at = generation
             /\ c \notin Files => Versions(c) = {graph}
  <2>1. asked[c] = Deps(c)
    BY <1>1 DEF Stale
  <2>2. asked[c].at = generation
    BY <2>1 DEF Deps
  <2>. QED
    BY <1>2, <2>1, <2>2 DEF Versions
<1>4. /\ asked["view"].what = ToRequest(nav) /\ asked["view"].at # None
      /\ Versions("view") = {graph}
  BY <1>2, <1>3, ChannelsDiffer, WebviewAssumption DEF Deps
<1>5. Waiting("view") <=> flight["view"] # <<>>
  BY <1>1, ChannelsDiffer DEF Waiting
<1>6. ASSUME ~Waiting("view"), error = NoError
      PROVE  /\ held["view"].req = ToRequest(nav) /\ held["view"].version = graph
             /\ canvas.elements = held["view"] /\ canvas.key = ToRequest(nav)
  <2>1. held["view"].req = ToRequest(nav) /\ held["view"].version = graph
    BY <1>4, <1>5, <1>6 DEF Followed, ViewAnswered
  <2>2. held["view"].req.view = nav.view
    BY <2>1 DEF ToRequest
  <2>3. Elements = held["view"]
    BY <2>2 DEF Elements
  <2>4. screen.elements = Elements /\ screen.nav = nav
    BY <1>1 DEF Rendered
  <2>. QED
    BY <1>4, <2>1, <2>3, <2>4 DEF Followed, DrawnIsRendered
<1>7. ~Waiting("view") /\ error.channel = "view" => error.what = ToRequest(nav)
  BY <1>4, <1>5 DEF Followed, ViewAnswered
<1>8. ASSUME NEW c \in Details, ~Waiting(c)
      PROVE  held[c] = None \/ (held[c].what = selected /\ held[c].version = graph)
  <2>1. c \in Channels /\ c \notin Files /\ c # "view" /\ flight[c] = <<>> /\ DetailAnswered(c)
    BY <1>8, ChannelsDiffer DEF Followed, Waiting
  <2>2. asked[c].what = selected
    BY <1>3, <2>1 DEF Deps
  <2>. QED
    BY <1>3, <2>1, <2>2 DEF DetailAnswered
<1>9. busy["view"] = Waiting("view")
  <2>1. busy["view"] \in BOOLEAN /\ (busy["view"] <=> flight["view"] # <<>>)
    BY <1>4 DEF Followed, BusyWhileWaiting
  <2>2. Waiting("view") \in BOOLEAN
    BY DEF Waiting
  <2>. QED
    BY <1>5, <2>1, <2>2
<1>. QED
  BY <1>6, <1>7, <1>8, <1>9 DEF ScreenIsCurrent

-----------------------------------------------------------------------------
(* What a list is left with: Without folds over the indices, and what it     *)
(* computes follows index by index from the highest one.                     *)

LEMMA Least ==
  ASSUME NEW S \in SUBSET Nat, S # {}
  PROVE  \E s \in S : \A o \in S : s <= o
<1>. DEFINE R == OpToRel(<, Nat)
<1>1. IsWellFoundedOn(R, Nat)
  BY NatLessThanWellFounded
<1>2. \A x, y \in Nat : x < y => <<x, y>> \in R
  BY DEF OpToRel
<1>. HIDE DEF R
<1>3. PICK s \in S : \A o \in S : ~(<<o, s>> \in R)
  BY <1>1, WFMin
<1>4. \A o \in S : ~(o < s)
  BY <1>2, <1>3, Zenon
<1>. QED
  BY <1>4


LEMMA Smallest ==
  ASSUME NEW S, IsFiniteSet(S), NEW T \in SUBSET (SUBSET S), T # {}
  PROVE  \E s \in T : \A x \in s : s \ {x} \notin T
<1>. DEFINE C == {Cardinality(s) : s \in T}
<1>1. C \in SUBSET Nat /\ C # {}
  BY FS_Subset, FS_CardinalityType
<1>2. PICK n \in C : \A o \in C : n <= o
  BY <1>1, Least
<1>3. PICK s \in T : n = Cardinality(s)
  BY <1>2
<1>4. ASSUME NEW x \in s, s \ {x} \in T PROVE FALSE
  <2>1. IsFiniteSet(s) /\ Cardinality(s) \in Nat
    BY FS_Subset, FS_CardinalityType
  <2>2. Cardinality(s \ {x}) = Cardinality(s) - 1
    BY <2>1, FS_RemoveElement
  <2>3. Cardinality(s) <= Cardinality(s \ {x})
    BY <1>2, <1>3, <1>4
  <2>. QED
    BY <2>1, <2>2, <2>3
<1>. QED
  BY <1>4

LEMMA Highest ==
  ASSUME NEW n \in Nat, NEW t \in SUBSET (1 .. n), t # {}
  PROVE  Max(t) \in t
<1>. DEFINE up == {n - i : i \in t}
<1>1. up \in SUBSET Nat
  BY SMT
<1>2. up # {}
  OBVIOUS
<1>. HIDE DEF up
<1>3. PICK k \in up : \A o \in up : k <= o
  BY <1>1, <1>2, Least
<1>. USE DEF up
<1>4. PICK i \in t : k = n - i
  BY <1>3
<1>5. ASSUME NEW o \in t PROVE i >= o
  <2>1. n - o \in up
    OBVIOUS
  <2>2. n - i <= n - o
    BY <1>3, <1>4, <2>1
  <2>3. i \in Int /\ o \in Int
    OBVIOUS
  <2>. QED
    BY <2>2, <2>3
<1>. HIDE DEF up
<1>. QED
  BY <1>5 DEF Max

LEMMA RangeOfAppend ==
  ASSUME NEW S, NEW s \in Seq(S), NEW x \in S
  PROVE  Append(s, x) \in Seq(S) /\ Range(Append(s, x)) = Range(s) \cup {x}
<1>1. Append(s, x) \in Seq(S) /\ Len(Append(s, x)) = Len(s) + 1 /\ Len(s) \in Nat
  OBVIOUS
<1>2. \A i \in 1 .. Len(s) : Append(s, x)[i] = s[i]
  OBVIOUS
<1>3. Append(s, x)[Len(s) + 1] = x
  OBVIOUS
<1>4. DOMAIN s = 1 .. Len(s) /\ DOMAIN Append(s, x) = 1 .. (Len(s) + 1)
  OBVIOUS
<1>5. ASSUME NEW i \in 1 .. (Len(s) + 1) PROVE Append(s, x)[i] \in Range(s) \cup {x}
  <2>1. CASE i \in 1 .. Len(s)
    BY <1>2, <1>4, <2>1 DEF Range
  <2>2. CASE i = Len(s) + 1
    BY <1>3, <2>2
  <2>. QED
    BY <1>1, <2>1, <2>2
<1>6. ASSUME NEW i \in 1 .. Len(s) PROVE s[i] \in Range(Append(s, x))
  <2>1. i \in 1 .. (Len(s) + 1) /\ s[i] = Append(s, x)[i]
    BY <1>1, <1>2
  <2>. QED
    BY <1>4, <2>1 DEF Range
<1>7. x \in Range(Append(s, x))
  <2>1. Len(s) + 1 \in 1 .. (Len(s) + 1)
    BY <1>1
  <2>. QED
    BY <1>3, <1>4, <2>1 DEF Range
<1>. QED
  BY <1>1, <1>4, <1>5, <1>6, <1>7 DEF Range

(* The fold of Without, as a function on the indices that are left.          *)
Kept(f, t, s, gone) ==
  IF t = {} THEN <<>>
  ELSE IF s[Max(t)] \in gone THEN f[t \ {Max(t)}] ELSE Append(f[t \ {Max(t)}], s[Max(t)])

Unrolled(f, T, s, gone) == f = [t \in T |-> Kept(f, t, s, gone)]

Small(S, n) == {t \in SUBSET S : Cardinality(t) <= n}

LEMMA Unrolls ==
  ASSUME NEW s, NEW gone, NEW D, IsFiniteSet(D), \A t \in SUBSET D : t # {} => Max(t) \in t
  PROVE  \E f : Unrolled(f, SUBSET D, s, gone)
<1>. DEFINE wrong == {n \in Nat : \A f : ~Unrolled(f, Small(D, n), s, gone)}
<1>1. \A t \in SUBSET D : IsFiniteSet(t) /\ Cardinality(t) \in Nat /\ (t # {} => Cardinality(t) > 0)
  BY FS_Subset, FS_CardinalityType, FS_EmptySet
<1>2. \A t \in SUBSET D : t # {} => Cardinality(t \ {Max(t)}) = Cardinality(t) - 1
  BY <1>1, FS_RemoveElement
<1>3. wrong = {}
  <2>. SUFFICES ASSUME wrong # {} PROVE FALSE
    OBVIOUS
  <2>1. PICK n \in wrong : \A o \in wrong : n <= o
    <3>1. wrong \in SUBSET Nat
      OBVIOUS
    <3>. HIDE DEF wrong
    <3>. QED
      BY <3>1, Least
  <2>2. n \in Nat /\ \A f : ~Unrolled(f, Small(D, n), s, gone)
    OBVIOUS
  <2>3. CASE n = 0
    <3>. DEFINE f == [t \in Small(D, n) |-> <<>>]
    <3>1. \A t \in Small(D, n) : t = {}
      BY <1>1, <2>3 DEF Small
    <3>2. Unrolled(f, Small(D, n), s, gone)
      BY <3>1 DEF Unrolled, Kept
    <3>. QED
      BY <2>2, <3>2
  <2>4. CASE n # 0
    <3>1. n - 1 \in Nat /\ n - 1 \notin wrong
      BY <2>1, <2>2, <2>4
    <3>2. PICK f : Unrolled(f, Small(D, n - 1), s, gone)
      BY <3>1
    <3>. DEFINE e == [t \in Small(D, n) |-> Kept(f, t, s, gone)]
    <3>3. ASSUME NEW t \in Small(D, n), t # {}
          PROVE  t \ {Max(t)} \in Small(D, n - 1)
      <4>1. t \in SUBSET D /\ Cardinality(t) <= n
        BY DEF Small
      <4>2. Cardinality(t \ {Max(t)}) = Cardinality(t) - 1 /\ Cardinality(t) \in Nat
        BY <1>1, <1>2, <3>3, <4>1
      <4>3. Cardinality(t \ {Max(t)}) <= n - 1
        BY <2>2, <4>1, <4>2
      <4>. QED
        BY <4>1, <4>3 DEF Small
    <3>4. ASSUME NEW t \in Small(D, n - 1) PROVE t \in Small(D, n) /\ f[t] = e[t]
      <4>1. t \in SUBSET D /\ Cardinality(t) <= n - 1
        BY DEF Small
      <4>2. Cardinality(t) \in Nat
        BY <1>1, <4>1
      <4>3. t \in Small(D, n)
        BY <2>2, <4>1, <4>2 DEF Small
      <4>4. f[t] = Kept(f, t, s, gone)
        BY <3>2, Zenon DEF Unrolled
      <4>. QED
        BY <4>3, <4>4
    <3>5. ASSUME NEW t \in Small(D, n) PROVE Kept(f, t, s, gone) = Kept(e, t, s, gone)
      <4>1. CASE t = {}
        BY <4>1 DEF Kept
      <4>2. CASE t # {}
        <5>1. f[t \ {Max(t)}] = e[t \ {Max(t)}]
          BY <3>3, <3>4, <4>2
        <5>. HIDE DEF e
        <5>. QED
          BY <4>2, <5>1 DEF Kept
      <4>. QED
        BY <4>1, <4>2
    <3>6. Unrolled(e, Small(D, n), s, gone)
      BY <3>5 DEF Unrolled
    <3>. HIDE DEF e
    <3>. QED
      BY <2>2, <3>6
  <2>. QED
    BY <2>3, <2>4
<1>4. Cardinality(D) \in Nat
  BY FS_CardinalityType
<1>5. Small(D, Cardinality(D)) = SUBSET D
  <2>1. \A t \in SUBSET D : Cardinality(t) <= Cardinality(D)
    BY FS_Subset
  <2>. QED
    BY <2>1 DEF Small
<1>6. \E f : Unrolled(f, Small(D, Cardinality(D)), s, gone)
  BY <1>3, <1>4
<1>. QED
  BY <1>5, <1>6

(* What is left without some elements, and that it is a sequence.            *)
LEMMA WithoutLeaves ==
  ASSUME NEW S, NEW s \in Seq(S), NEW gone
  PROVE  Without(s, gone) \in Seq(S) /\ Range(Without(s, gone)) = Range(s) \ gone
<1>. DEFINE D == DOMAIN s
            W == CHOOSE f : Unrolled(f, SUBSET D, s, gone)
<1>1. Without(s, gone) = W[D]
  BY DEF Without, FoldLeft, MapThenFoldSet, Unrolled, Kept
<1>2. Len(s) \in Nat /\ D = 1 .. Len(s) /\ IsFiniteSet(D)
  BY FS_Interval
<1>3. \A t \in SUBSET D : t # {} => Max(t) \in t
  BY <1>2, Highest
<1>4. Unrolled(W, SUBSET D, s, gone)
  <2>. HIDE DEF D
  <2>. QED
    BY <1>2, <1>3, Unrolls
<1>. DEFINE Right(t) == W[t] \in Seq(S) /\ Range(W[t]) = {s[i] : i \in t} \ gone
            bad == {t \in SUBSET D : ~Right(t)}
<1>. HIDE DEF W, D
<1>5. bad = {}
  <2>. SUFFICES ASSUME bad # {} PROVE FALSE
    OBVIOUS
  <2>1. PICK t \in bad : \A x \in t : t \ {x} \notin bad
    <3>1. bad \in SUBSET (SUBSET D)
      OBVIOUS
    <3>. HIDE DEF bad
    <3>. QED
      BY <1>2, <3>1, Smallest
  <2>2. t \in SUBSET D /\ ~Right(t)
    OBVIOUS
  <2>3. W[t] = Kept(W, t, s, gone)
    BY <1>4, <2>2, Zenon DEF Unrolled
  <2>4. CASE t = {}
    <3>1. W[t] = <<>>
      BY <2>3, <2>4 DEF Kept
    <3>. QED
      BY <2>2, <2>4, <3>1 DEF Range
  <2>5. CASE t # {}
    <3>1. PICK x \in t : x = Max(t)
      BY <1>3, <2>2, <2>5
    <3>2. Right(t \ {x})
      BY <2>1, <2>2, <3>1
    <3>3. W[t] = IF s[x] \in gone THEN W[t \ {x}] ELSE Append(W[t \ {x}], s[x])
      BY <2>3, <2>5, <3>1 DEF Kept
    <3>4. s[x] \in S
      BY <2>2, <3>1 DEF D
    <3>5. {s[i] : i \in t} = {s[i] : i \in t \ {x}} \cup {s[x]}
      BY <3>1
    <3>6. CASE s[x] \in gone
      BY <2>2, <3>2, <3>3, <3>5, <3>6
    <3>7. CASE s[x] \notin gone
      <4>. DEFINE w == W[t \ {x}]
      <4>1. w \in Seq(S) /\ Range(w) = {s[i] : i \in t \ {x}} \ gone /\ W[t] = Append(w, s[x])
        BY <3>2, <3>3, <3>7
      <4>. HIDE DEF w
      <4>2. Append(w, s[x]) \in Seq(S) /\ Range(Append(w, s[x])) = Range(w) \cup {s[x]}
        BY <3>4, <4>1, RangeOfAppend
      <4>. QED
        BY <2>2, <3>5, <3>7, <4>1, <4>2
    <3>. QED
      BY <3>6, <3>7
  <2>. QED
    BY <2>4, <2>5
<1>6. Right(D)
  BY <1>5
<1>7. Range(s) = {s[i] : i \in D}
  BY DEF Range, D
<1>. QED
  BY <1>1, <1>6, <1>7

-----------------------------------------------------------------------------
(* What is open is what was clicked.  The directories the navigation asks    *)
(* for are those the clicks ask for, in the order of the clicks, from the    *)
(* first click after the engine chose to the next arrival at another view.   *)

AsClicked ==
  /\ nav.auto \in BOOLEAN
  /\ nav.expand \in Seq(Paths)
  /\ nav.auto <=> wanted = None
  /\ ~nav.auto => Range(nav.expand) = wanted

(* A list of directories as the engine gives it.                              *)
Listed(open) == \E dirs \in SUBSET Paths : open = Without(Order, dirs)

OpenAsAnswered == held["view"] # None => held["view"].open = OpenFor(held["view"].req)

OpenAsCurrent ==
  asked["view"].at # None /\ flight["view"] = <<>> /\ error = NoError =>
    held["view"].open = OpenFor(held["view"].req)

OpenAsRendered ==
  screen.elements # None => /\ screen.open = screen.elements.open
                            /\ Listed(screen.open)

Clicked == AsClicked /\ OpenAsAnswered /\ OpenAsCurrent /\ OpenAsRendered

-----------------------------------------------------------------------------
(* The clicks. *)

LEMMA NotNone ==
  ASSUME NEW dirs \in SUBSET Paths
  PROVE  dirs # None /\ Without(Order, dirs) # None
BY WebviewAssumption

(* The engine's list holds the directories it has open.                      *)
LEMMA WhatIsListed ==
  ASSUME NEW open, Listed(open)
  PROVE  open # None /\ open \in Seq(Paths) /\ Range(open) \in SUBSET Paths
<1>1. PICK dirs \in SUBSET Paths : open = Without(Order, dirs)
  BY DEF Listed
<1>2. Order \in Seq(Paths) /\ Range(Order) = Paths
  BY WebviewAssumption
<1>3. Without(Order, dirs) \in Seq(Paths) /\ Range(Without(Order, dirs)) = Range(Order) \ dirs
  BY <1>2, WithoutLeaves
<1>. QED
  BY <1>1, <1>2, <1>3, NotNone

LEMMA WhatIsAnswered ==
  ASSUME NEW req
  PROVE  /\ Listed(OpenFor(req))
         /\ Opened(req) \in SUBSET Paths => Range(OpenFor(req)) = Opened(req)
<1>1. Order \in Seq(Paths) /\ Range(Order) = Paths
  BY WebviewAssumption
<1>. DEFINE closed == Paths \ Opened(req)
<1>2. closed \in SUBSET Paths /\ OpenFor(req) = Without(Order, closed)
  BY DEF OpenFor
<1>3. Range(Without(Order, closed)) = Range(Order) \ closed
  BY <1>1, WithoutLeaves
<1>. QED
  BY <1>1, <1>2, <1>3 DEF Listed

(* One click changes the list as it changes the set.                         *)
LEMMA OneClick ==
  ASSUME NEW base \in Seq(Paths), NEW path \in Paths, NEW expanded \in BOOLEAN
  PROVE  LET next == IF expanded THEN Close(base, path) ELSE Append(base, path)
         IN  next \in Seq(Paths) /\ Range(next) = Toggled(Range(base), path, expanded)
<1>. DEFINE gone == {path} \cup {p \in Paths : <<p, path>> \in Inside}
<1>1. CASE expanded
  <2>1. Without(base, gone) \in Seq(Paths) /\ Range(Without(base, gone)) = Range(base) \ gone
    BY WithoutLeaves
  <2>. QED
    BY <1>1, <2>1 DEF Close, Toggled
<1>2. CASE ~expanded
  <2>1. Append(base, path) \in Seq(Paths) /\ Range(Append(base, path)) = Range(base) \cup {path}
    BY RangeOfAppend
  <2>. QED
    BY <1>2, <2>1 DEF Toggled
<1>. QED
  BY <1>1, <1>2

LEMMA ToggledPaths ==
  ASSUME NEW open \in SUBSET Paths, NEW path \in Paths, NEW expanded
  PROVE  Toggled(open, path, expanded) \in SUBSET Paths
BY DEF Toggled

LEMMA ClickedDirectory ==
  ASSUME Shaped(nav), AsClicked, OpenAsRendered, NEW path \in Paths, ClickDirectory(path)
  PROVE  AsClicked'
<1>. DEFINE expanded == path \in Range(screen.elements.open)
            base == IF nav.auto /\ screen.open # None THEN screen.open ELSE nav.expand
            was == IF wanted = None THEN Range(screen.elements.open) ELSE wanted
<1>1. screen.elements # None
  BY DEF ClickDirectory, Clickable, NodesOf
<1>2. screen.open = screen.elements.open /\ Listed(screen.open)
  BY <1>1 DEF OpenAsRendered
<1>3. base \in Seq(Paths) /\ Range(base) = was
  BY <1>2, WhatIsListed DEF AsClicked
<1>4. was \in SUBSET Paths
  BY <1>3 DEF Range
<1>5. expanded \in BOOLEAN
  OBVIOUS
<1>6. /\ nav' = [nav EXCEPT !.auto = FALSE,
                            !.expand = IF expanded THEN Close(base, path) ELSE Append(base, path)]
      /\ wanted' = Toggled(was, path, expanded)
  BY DEF ClickDirectory, PickCluster
<1>7. nav'.auto = FALSE /\ nav'.expand = IF expanded THEN Close(base, path) ELSE Append(base, path)
  BY <1>6 DEF Shaped
<1>. HIDE DEF expanded, base, was
<1>8. nav'.expand \in Seq(Paths) /\ Range(nav'.expand) = Toggled(Range(base), path, expanded)
  BY <1>3, <1>5, <1>7, OneClick
<1>9. wanted' # None
  BY <1>4, <1>6, ToggledPaths, NotNone
<1>. QED
  BY <1>3, <1>6, <1>7, <1>8, <1>9 DEF AsClicked

(* A navigation that keeps what it asks for, or leaves it to the engine.     *)
Keeps(n, m) == m.auto = n.auto /\ m.expand = n.expand
Lets(m) == m.auto = TRUE /\ m.expand = <<>>

LEMMA ClickedElsewhere ==
  ASSUME AsClicked, \/ Keeps(nav, nav') /\ wanted' = wanted
                    \/ (Keeps(nav, nav') \/ Lets(nav')) /\ wanted' = Forget(nav')
  PROVE  AsClicked'
<1>1. CASE Keeps(nav, nav')
  <2>1. nav'.auto = nav.auto /\ nav'.expand = nav.expand
    BY <1>1 DEF Keeps
  <2>2. wanted' = wanted
    BY <2>1, Zenon DEF Forget, AsClicked
  <2>. QED
    BY <2>1, <2>2, Zenon DEF AsClicked
<1>2. CASE Lets(nav') /\ wanted' = Forget(nav')
  <2>1. nav'.auto = TRUE /\ nav'.expand = <<>> /\ wanted' = None
    BY <1>2, Zenon DEF Lets, Forget
  <2>2. nav'.expand \in Seq(Paths)
    BY <2>1
  <2>. QED
    BY <2>1, <2>2, Zenon DEF AsClicked
<1>. QED
  BY <1>1, <1>2

LEMMA ArriveLets ==
  ASSUME NEW n, Shaped(n), NEW v, NEW f
  PROVE  Lets(Arrive(n, v, f))
BY DEF Shaped, Arrive, Lets

LEMMA OthersKeep ==
  ASSUME NEW n, Shaped(n)
  PROVE  /\ Keeps(n, n)
         /\ \A h : Keeps(n, OnHops(n, h))
         /\ \A v, id : Keeps(n, Open(n, v, id)) \/ Lets(Open(n, v, id))
         /\ \A k, id : Keeps(n, PickNode(n, k, id)) \/ Lets(PickNode(n, k, id))
         /\ \A f : Keeps(n, OnFocus(n, f)) \/ Lets(OnFocus(n, f))
         /\ \A v : Keeps(n, OnView(n, v)) \/ Lets(OnView(n, v))
<1>1. Keeps(n, n)
  BY DEF Keeps
<1>2. ASSUME NEW h PROVE Keeps(n, OnHops(n, h))
  BY DEF Keeps, OnHops, Shaped
<1>3. ASSUME NEW v, NEW id PROVE Keeps(n, Open(n, v, id)) \/ Lets(Open(n, v, id))
  BY <1>1, ArriveLets DEF Open
<1>4. ASSUME NEW k, NEW id PROVE Keeps(n, PickNode(n, k, id)) \/ Lets(PickNode(n, k, id))
  BY <1>1, <1>3 DEF PickNode
<1>5. ASSUME NEW f PROVE Keeps(n, OnFocus(n, f)) \/ Lets(OnFocus(n, f))
  <2>1. Keeps(n, [n EXCEPT !.focus = f])
    BY DEF Keeps, Shaped
  <2>. QED
    BY <2>1, ArriveLets DEF OnFocus
<1>6. ASSUME NEW v PROVE Keeps(n, OnView(n, v)) \/ Lets(OnView(n, v))
  BY <1>1, ArriveLets DEF OnView
<1>. QED
  BY <1>1, <1>2, <1>3, <1>4, <1>5, <1>6

-----------------------------------------------------------------------------
(* Each step keeps what was clicked. *)

LEMMA ClickedAtFirst == Init => Clicked
<1>. SUFFICES ASSUME Init PROVE Clicked
  OBVIOUS
<1>1. nav.auto = TRUE /\ nav.expand = <<>> /\ wanted = None
  BY DEF Init, InitialNav
<1>2. AsClicked
  <2>1. nav.expand \in Seq(Paths)
    BY <1>1
  <2>. QED
    BY <1>1, <2>1, Zenon DEF AsClicked
<1>3. held["view"] = None /\ asked["view"].at = None /\ screen.elements = None
  BY ChannelsDiffer DEF Init, NeverRun, NoScreen
<1>. QED
  BY <1>2, <1>3 DEF Clicked, OpenAsAnswered, OpenAsCurrent, OpenAsRendered

(* What is answered and rendered does not change with a gesture.             *)
LEMMA OpenElsewhere ==
  ASSUME Clicked, UNCHANGED <<requesting, drawing>>
  PROVE  OpenAsAnswered' /\ OpenAsCurrent' /\ OpenAsRendered'
BY DEF Clicked, requesting, drawing, OpenAsAnswered, OpenAsCurrent, OpenAsRendered

LEMMA ClickedGesture ==
  ASSUME IInv, Clicked,
         \/ \E path \in Paths : ClickDirectory(path)
         \/ \E id \in Ids : ClickNode(id) \/ DoubleClick(id) \/ GoTo(id) \/ ShowInContract(id)
         \/ \E id \in Ids \cup {None} : Select(id)
         \/ \E view \in Tabs : ChooseView(view)
         \/ ClearFocus
         \/ \E hops \in Hops : StepHops(hops)
  PROVE  Clicked'
<1>1. Handled
  BY DEF ClickDirectory, ClickNode, DoubleClick, GoTo, ShowInContract, Select, ChooseView,
         ClearFocus, StepHops, Gesture, Message
<1>2. OpenAsAnswered' /\ OpenAsCurrent' /\ OpenAsRendered'
  BY <1>1, OpenElsewhere DEF Handled
<1>3. Shaped(nav) /\ AsClicked /\ OpenAsRendered
  BY DEF IInv, Clicked
<1>4. AsClicked'
  <2>1. ASSUME NEW path \in Paths, ClickDirectory(path) PROVE AsClicked'
    BY <1>3, <2>1, ClickedDirectory
  <2>2. ASSUME NEW id \in Ids, ClickNode(id) PROVE AsClicked'
    <3>1. nav' \in {nav, OnFocus(nav, id), PickNode(nav, Kind[id], id)} /\ wanted' = Forget(nav')
      BY <2>2 DEF ClickNode
    <3>2. Keeps(nav, nav') \/ Lets(nav')
      BY <1>3, <3>1, OthersKeep
    <3>. QED
      BY <1>3, <3>1, <3>2, ClickedElsewhere
  <2>3. ASSUME NEW id \in Ids, DoubleClick(id) \/ GoTo(id) \/ ShowInContract(id) PROVE AsClicked'
    <3>1. nav' \in {Open(nav, "contract", id), PickNode(nav, Kind[id], id)} /\ wanted' = Forget(nav')
      BY <2>3 DEF DoubleClick, GoTo, ShowInContract
    <3>2. Keeps(nav, nav') \/ Lets(nav')
      BY <1>3, <3>1, OthersKeep
    <3>. QED
      BY <1>3, <3>1, <3>2, ClickedElsewhere
  <2>4. ASSUME NEW id \in Ids \cup {None}, Select(id) PROVE AsClicked'
    BY <1>3, <2>4, OthersKeep, ClickedElsewhere DEF Select
  <2>5. ASSUME NEW view \in Tabs, ChooseView(view) PROVE AsClicked'
    BY <1>3, <2>5, OthersKeep, ClickedElsewhere DEF ChooseView
  <2>6. CASE ClearFocus
    BY <1>3, <2>6, OthersKeep, ClickedElsewhere DEF ClearFocus
  <2>7. ASSUME NEW hops \in Hops, StepHops(hops) PROVE AsClicked'
    BY <1>3, <2>7, OthersKeep, ClickedElsewhere DEF StepHops
  <2>. QED
    BY <2>1, <2>2, <2>3, <2>4, <2>5, <2>6, <2>7
<1>. QED
  BY <1>2, <1>4 DEF Clicked

LEMMA ClickedArrival ==
  ASSUME IInv, Followed, Clicked, NEW c \in Channels, NEW i \in 1 .. Len(flight[c]), Arrives(c, i)
  PROVE  Clicked'
<1>1. /\ held' = [held EXCEPT ![c] = Answer(c, flight[c][i])]
      /\ flight' = [flight EXCEPT ![c] = RemoveAt(flight[c], i)]
      /\ error' = IF c = "view" THEN NoError ELSE error
      /\ nav' \in {nav, OnHops(nav, DefaultHops)}
      /\ UNCHANGED <<asked, screen, wanted>>
  BY DEF Arrives, drawing
<1>2. DOMAIN held = Channels /\ DOMAIN flight = Channels /\ "view" \in Channels
  BY ChannelsDiffer DEF Followed, Keeping
<1>3. AsClicked'
  <2>1. Keeps(nav, nav')
    BY <1>1, OthersKeep DEF IInv
  <2>. QED
    BY <1>1, <2>1, ClickedElsewhere DEF Clicked
<1>4. OpenAsAnswered' /\ OpenAsCurrent'
  <2>1. CASE c = "view"
    <3>1. held'["view"] = Answer("view", flight["view"][i])
      BY <1>1, <1>2, <2>1
    <3>2. held'["view"].open = OpenFor(held'["view"].req)
      BY <3>1 DEF Answer
    <3>. QED
      BY <3>2 DEF OpenAsAnswered, OpenAsCurrent
  <2>2. CASE c # "view"
    <3>1. held'["view"] = held["view"] /\ flight'["view"] = flight["view"] /\ error' = error
      BY <1>1, <1>2, <2>2
    <3>. QED
      BY <1>1, <3>1 DEF Clicked, OpenAsAnswered, OpenAsCurrent
  <2>. QED
    BY <2>1, <2>2
<1>. QED
  BY <1>1, <1>3, <1>4 DEF Clicked, OpenAsRendered

LEMMA ClickedAnswering ==
  ASSUME Followed, Clicked, NEW c \in Channels, NEW i \in 1 .. Len(flight[c]), HostAnswers(c, i)
  PROVE  Clicked'
<1>1. UNCHANGED <<nav, held, error, asked, wanted, screen>>
  BY DEF HostAnswers, drawing
<1>2. flight' = [flight EXCEPT ![c][i].version = graph]
  BY DEF HostAnswers
<1>3. flight'["view"] = <<>> => flight["view"] = <<>>
  <2>1. DOMAIN flight = Channels /\ "view" \in Channels
    BY ChannelsDiffer DEF Followed, Keeping
  <2>2. CASE c # "view"
    BY <1>2, <2>1, <2>2
  <2>3. CASE c = "view"
    <3>1. i = 1 /\ flight[c] = <<[what |-> asked[c].what, version |-> flight[c][1].version]>>
      BY TheRequest
    <3>2. flight'[c] = [flight[c] EXCEPT ![1].version = graph]
      BY <1>2, <2>1, <3>1
    <3>3. flight'[c] = <<[what |-> asked[c].what, version |-> graph]>>
      BY <3>1, <3>2, AnswerTheOnly
    <3>4. flight'[c] # <<>>
      BY <3>3
    <3>. QED
      BY <2>3, <3>4
  <2>. QED
    BY <2>2, <2>3
<1>. QED
  BY <1>1, <1>3 DEF Clicked, AsClicked, OpenAsAnswered, OpenAsCurrent, OpenAsRendered

LEMMA ClickedFailure ==
  ASSUME Followed, Clicked, NEW c \in Channels, NEW i \in 1 .. Len(flight[c]), Fails(c, i)
  PROVE  Clicked'
<1>1. /\ UNCHANGED <<nav, asked, wanted, screen>>
      /\ flight' = [flight EXCEPT ![c] = RemoveAt(flight[c], i)]
      /\ held' = IF c \in {"audit"} \cup Details THEN [held EXCEPT ![c] = None] ELSE held
      /\ error' = IF c \in {"meta", "view"} THEN [channel |-> c, what |-> flight[c][i].what] ELSE error
  BY DEF Fails, drawing
<1>2. DOMAIN held = Channels /\ DOMAIN flight = Channels /\ "view" \in Channels
      /\ "view" \notin Details
  BY ChannelsDiffer DEF Followed, Keeping
<1>3. held'["view"] = held["view"]
  BY <1>1, <1>2
<1>4. error' = NoError => c # "view" /\ error = NoError
  <2>1. ASSUME c \in {"meta", "view"} PROVE error' # NoError
    <3>1. error'.channel = c
      BY <1>1, <2>1
    <3>. QED
      BY <2>1, <3>1, NoErrorNamesNone
  <2>. QED
    BY <1>1, <2>1
<1>5. c # "view" => flight'["view"] = flight["view"]
  BY <1>1, <1>2
<1>. QED
  BY <1>1, <1>3, <1>4, <1>5 DEF Clicked, AsClicked, OpenAsAnswered, OpenAsCurrent, OpenAsRendered

LEMMA ClickedCommit ==
  ASSUME Followed, Clicked, NeverADeadEnd, Commit
  PROVE  Clicked'
<1>1. RunEffects /\ screen' = Rendered /\ UNCHANGED <<nav, wanted, error>>
  BY DEF Commit
<1>2. Asks("view") /\ "view" \in Channels /\ "view" \notin Details
  BY ChannelsDiffer DEF Asks, NeverADeadEnd
<1>3. held'["view"] = held["view"]
  BY <1>1, <1>2, EffectOfChannel
<1>4. \/ asked'["view"] = asked["view"] /\ flight'["view"] = flight["view"]
      \/ flight'["view"] # <<>>
  <2>1. <<Request("view")>> # <<>>
    OBVIOUS
  <2>. QED
    BY <1>1, <1>2, <2>1, EffectOfChannel
<1>5. OpenAsRendered'
  <2>1. screen'.elements = Elements
        /\ screen'.open = IF held["view"] = None THEN None ELSE held["view"].open
    BY <1>1 DEF Rendered
  <2>2. Elements # None => Elements = held["view"] /\ held["view"] # None
    BY DEF Elements
  <2>3. held["view"] # None => Listed(held["view"].open)
    BY WhatIsAnswered DEF Clicked, OpenAsAnswered
  <2>. QED
    BY <2>1, <2>2, <2>3 DEF OpenAsRendered
<1>. QED
  BY <1>1, <1>3, <1>4, <1>5 DEF Clicked, AsClicked, OpenAsAnswered, OpenAsCurrent

LEMMA ClickedInductive == IInv /\ Followed /\ Clicked /\ [Next]_vars => Clicked'
<1>. SUFFICES ASSUME IInv, Followed, Clicked, [Next]_vars PROVE Clicked'
  OBVIOUS
<1>1. ASSUME UNCHANGED <<nav, wanted, held, error, asked, flight, screen>> PROVE Clicked'
  BY <1>1 DEF Clicked, AsClicked, OpenAsAnswered, OpenAsCurrent, OpenAsRendered
<1>2. CASE UNCHANGED vars
  BY <1>1, <1>2 DEF vars
<1>3. CASE Commit
  BY <1>3, ClickedCommit DEF IInv
<1>4. CASE HostRefreshes \/ OnRefresh \/ ThemeChanges
  BY <1>1, <1>4 DEF HostRefreshes, OnRefresh, ThemeChanges, requesting, drawing
<1>5. CASE \E c \in Channels : Transport(c) \/ \E i \in 1 .. Len(flight[c]) : Fails(c, i)
  BY <1>5, ClickedAnswering, ClickedArrival, ClickedFailure DEF Transport
<1>6. CASE \E i \in 1 .. Len(layouts) : LaidOut(i) \/ LayoutFails(i)
  BY <1>1, <1>6 DEF LaidOut, LayoutFails, requesting
<1>. QED
  BY <1>2, <1>3, <1>4, <1>5, <1>6, ClickedGesture DEF Next, Step

LEMMA ClickedIsOpen ==
  ASSUME Followed, Clicked
  PROVE  OpenIsWhatWasClicked
<1>. SUFFICES ASSUME Settled, ~Waiting("view"), error = NoError, nav.view = "protocol", wanted # None
              PROVE  Range(held["view"].open) = Surrounded(wanted)
  BY DEF OpenIsWhatWasClicked
<1>. DEFINE req == ToRequest(nav)
<1>1. held["view"].req = req
  BY FollowedIsCurrent DEF ScreenIsCurrent
<1>2. asked["view"] = Deps("view") /\ flight["view"] = <<>>
  BY ChannelsDiffer DEF Settled, Due, Stale, Waiting
<1>3. asked["view"].at # None
  BY <1>2, WebviewAssumption DEF Deps, Followed, Keeping
<1>4. held["view"].open = OpenFor(req)
  BY <1>1, <1>2, <1>3 DEF Clicked, OpenAsCurrent
<1>5. nav.auto = FALSE /\ Range(nav.expand) = wanted
  BY DEF Clicked, AsClicked
<1>6. req.view = "protocol" /\ req.expand = nav.expand /\ req.auto = FALSE
  BY <1>5 DEF ToRequest, Clustered
<1>7. Opened(req) = Surrounded(wanted)
  BY <1>5, <1>6 DEF Opened, Clustered
<1>8. Surrounded(wanted) \in SUBSET Paths
  <2>1. nav.expand \in Seq(Paths)
    BY DEF Clicked, AsClicked
  <2>2. Range(nav.expand) \in SUBSET Paths
    BY <2>1 DEF Range
  <2>. QED
    BY <1>5, <2>2 DEF Surrounded
<1>. QED
  BY <1>4, <1>7, <1>8, WhatIsAnswered

-----------------------------------------------------------------------------
\* No interleaving of clicks, editor messages, refreshes and answers leaves a
\* view that needs a focus without one (navigation.ts:111-131, Toolbar).
THEOREM AlwaysAWayOn == Spec => []NeverADeadEnd
<1>1. IInv => NeverADeadEnd
  BY DEF IInv
<1>. QED
  BY <1>1, Initially, Inductive, PTL DEF Spec

\* Whatever is asked, cancelled, overtaken, refused and refreshed, once nothing
\* is awaited the view on screen is the host's present answer to what the
\* navigation describes, the error is about it, and the inspector speaks of the
\* node selected, for any project, any graph answered and any number of events
\* (App.tsx:198-301, GraphCanvas.tsx:532-612).
THEOREM WhatIsShownIsCurrent == Spec => []ScreenIsCurrent
<1>1. Init => IInv /\ Followed
  BY Initially, FollowedAtFirst
<1>2. IInv /\ Followed /\ [Next]_vars => (IInv /\ Followed)'
  BY Inductive, FollowedInductive
<1>3. Followed => ScreenIsCurrent
  BY FollowedIsCurrent
<1>. QED
  BY <1>1, <1>2, <1>3, PTL DEF Spec
\* Whatever the clicks hit, a view that is stale or one that is being replaced,
\* once the answer is there the directories open on the map are those open when
\* the first was clicked, with every click since applied, and those around them
\* (navigation.ts:85-176, App.tsx:369-435).
THEOREM OpenAsClicked == Spec => []OpenIsWhatWasClicked
<1>1. Init => IInv /\ Followed /\ Clicked
  BY Initially, FollowedAtFirst, ClickedAtFirst
<1>2. IInv /\ Followed /\ Clicked /\ [Next]_vars => (IInv /\ Followed /\ Clicked)'
  BY Inductive, FollowedInductive, ClickedInductive
<1>3. Followed /\ Clicked => OpenIsWhatWasClicked
  BY ClickedIsOpen
<1>. QED
  BY <1>1, <1>2, <1>3, PTL DEF Spec
=============================================================================
