------------------------------ MODULE MemQuit -------------------------------
(***************************************************************************)
(* The memory view (bar/src/mem.rs, send_mem and the QuitPids handler of   *)
(* bar/src/main.rs, quitSelected and mbMem of bar/src/panel.html): a scan  *)
(* of the processes grouped by application, rows the user ticks, and a     *)
(* signal to each ticked row's pid, minutes later, in a system where pids  *)
(* change hands at any time.                                               *)
(***************************************************************************)
EXTENDS Integers, SequencesExt

CONSTANTS
    Pids,      \* process identifiers
    Self,      \* the bar's own
    Apps,      \* what app_name_of makes of a path
    Image,     \* programs a process may be: [app, main], main for a main process
    SelfApp,   \* the bar's own
    Critical,  \* the applications of CRITICAL
    Limit,     \* rows of the view
    Sizes,     \* resident sizes a process may have
    Mega       \* a row's size is counted in multiples of this one

ASSUME MemAssumption ==
    /\ Pids \subseteq Nat \ {0} /\ Self \in Pids
    /\ SelfApp \in Critical /\ Critical \subseteq Apps /\ "" \notin Apps
    /\ Image \subseteq [app : Apps, main : BOOLEAN]
    /\ [app |-> SelfApp, main |-> TRUE] \in Image
    /\ Limit \in Nat /\ Sizes \subseteq Nat /\ Mega \in Nat \ {0}

VARIABLES
    proc,     \* the process table
    rows,     \* the list the page shows
    ticked,   \* its rows with a mark
    asked,    \* rows of a quitPids message whose pids are still to be handled
    busy,     \* quit_pids has begun with them
    target,   \* the row, if any, between quit_pids' check and its kill
    moved,    \* history: pids that changed hands since they were listed
    raced,    \* history: target's pid did so since its check
    hit       \* history: the process just signalled, if any

memVars == <<proc, rows, ticked, asked, busy, target, moved, raced, hit>>

\* A pid nobody has.
Free == [app |-> "", main |-> FALSE]

Row == [app : Apps, pid : Pids, killable : BOOLEAN, led : BOOLEAN]
Hit == [image : Image, row : Row, moved : BOOLEAN, raced : BOOLEAN]

\* Types, and: only what the list offers for it is ticked.
MemTypeOK ==
    /\ proc \in [Pids -> Image \union {Free}] /\ proc[Self] # Free
    /\ rows \subseteq Row /\ ticked \subseteq {r \in rows : r.killable} /\ asked \subseteq Row
    /\ busy \in BOOLEAN /\ raced \in BOOLEAN
    /\ target \subseteq Row /\ \A r, s \in target : r = s
    /\ moved \subseteq Pids
    /\ hit \subseteq Hit

MemInit ==
    /\ proc \in [Pids -> Image \union {Free}]
    /\ proc[Self] = [app |-> SelfApp, main |-> TRUE]
    /\ rows = {} /\ ticked = {} /\ asked = {} /\ busy = FALSE
    /\ target = {} /\ moved = {} /\ raced = FALSE /\ hit = {}

-----------------------------------------------------------------------------
\* is_killable: never this process, never a critical one.
Killable(app, pid) == pid > 1 /\ pid # Self /\ app \notin Critical

\* aggregate's entry for an application, made at its first process.
Fresh(pid) == [rss |-> 0, main |-> 0, mainRss |-> 0, any |-> pid, anyRss |-> 0]

\* One more process of it: of equals the later one stands.
Entry(acc, pid, main, size) ==
    LET leads == main /\ size >= acc.mainRss
        tops  == size >= acc.anyRss
    IN  [ rss |-> acc.rss + size,
          main |-> IF leads THEN pid ELSE acc.main,
          mainRss |-> IF leads THEN size ELSE acc.mainRss,
          any |-> IF tops THEN pid ELSE acc.any,
          anyRss |-> IF tops THEN size ELSE acc.anyRss ]

Aggregate(order, main, size) ==
    LET acc[i \in 0..Len(order)] ==
            IF i = 0 THEN Fresh(order[1])
                     ELSE Entry(acc[i - 1], order[i], main[order[i]], size[order[i]])
    IN  acc[Len(order)]

Speaker(acc) == IF acc.main # 0 THEN acc.main ELSE acc.any

\* What that amounts to, in whatever order ps lists the processes: a largest
\* main process or, where there is none, a largest process.
Largest(own, main, size) ==
    LET from == IF \E p \in own : main[p] THEN {p \in own : main[p]} ELSE own
    IN  {p \in from : \A q \in from : size[q] <= size[p]}

Listed == {p \in Pids : proc[p] # Free}
Own(a) == {p \in Listed : proc[p].app = a}

\* Variant: a largest process stands for the application, helper or not.
Speakers_Any(a, size) == {p \in Own(a) : \A q \in Own(a) : size[q] <= size[p]}

Speakers(a, size) == Largest(Own(a), [p \in Own(a) |-> proc[p].main], size)

RowOf(a, p) ==
    [ app |-> a, pid |-> p, killable |-> Killable(a, p),
      led |-> \E q \in Own(a) : proc[q].main ]

\* top_consumers sorts by size and truncates: the applications it may show.
Top(size) ==
    LET apps == {proc[p].app : p \in Listed}
        mb(a) == MapThenSumSet(LAMBDA p : size[p], Own(a)) \div Mega
    IN  {s \in SUBSET apps :
             /\ Cardinality(s) = Min({Limit, Cardinality(apps)})
             /\ \A a \in s, b \in apps \ s : mb(a) >= mb(b)}

\* send_mem, for the page's request and at the end of QuitPids: mbMem builds
\* the list anew.  A ps that fails lists nothing.
Scan ==
    /\ target = {}
    /\ busy => asked = {}
    /\ \/ \E size \in [Listed -> Sizes] : \E shown \in Top(size) :
            \E speaker \in [shown -> Listed] :
              /\ \A a \in shown : speaker[a] \in Speakers(a, size)
              /\ rows' = {RowOf(a, speaker[a]) : a \in shown}
       \/ rows' = {}
    /\ ticked' = {}
    /\ busy' = FALSE
    /\ moved' = moved \intersect {r.pid : r \in asked}
    /\ hit' = {}
    /\ UNCHANGED <<proc, asked, target, raced>>

\* A row's checkbox, disabled where the row is not killable.
Tick(row) ==
    /\ row.killable
    /\ ticked' = SymDiff(ticked, {row})
    /\ UNCHANGED <<proc, rows, asked, busy, target, moved, raced, hit>>

\* quitSelected posts the ticked rows' pids, if any.
QuitSelected ==
    /\ ticked # {}
    /\ asked = {} /\ ~busy
    /\ asked' = ticked
    /\ UNCHANGED <<proc, rows, ticked, busy, target, moved, raced, hit>>

\* Variant: the list is trusted; what the pid is now is not looked at again.
Resolve_Trusting(row) ==
    /\ target = {}
    /\ asked' = asked \ {row}
    /\ busy' = TRUE
    /\ target' = IF proc[row.pid] # Free THEN {row} ELSE {}
    /\ raced' = FALSE
    /\ hit' = {}
    /\ UNCHANGED <<proc, rows, ticked, moved>>

\* quit_pids: a pid that is gone or not killable any more is passed over.
Resolve(row) ==
    /\ target = {}
    /\ asked' = asked \ {row}
    /\ busy' = TRUE
    /\ target' = IF proc[row.pid] # Free /\ Killable(proc[row.pid].app, row.pid)
                   THEN {row} ELSE {}
    /\ raced' = FALSE
    /\ hit' = {}
    /\ UNCHANGED <<proc, rows, ticked, moved>>

\* kill(pid, SIGTERM), which fails where there is no process.
Kill(row) ==
    /\ hit' = IF proc[row.pid] = Free THEN hit
              ELSE {[ image |-> proc[row.pid], row |-> row,
                      moved |-> row.pid \in moved, raced |-> raced ]}
    /\ target' = {}
    /\ UNCHANGED <<proc, rows, ticked, asked, busy, moved, raced>>

\* The panel is closed and its page released, with what it had posted.
ClosePanel ==
    /\ ~busy
    /\ rows' = {} /\ ticked' = {} /\ asked' = {}
    /\ UNCHANGED <<proc, busy, target, moved, raced, hit>>

\* A process ends, begins or becomes another program.
ChangeHands(p, image) ==
    /\ p # Self
    /\ proc[p] # image
    /\ proc' = [proc EXCEPT ![p] = image]
    /\ moved' = moved \union {p}
    /\ raced' = (raced \/ \E r \in target : r.pid = p)
    /\ UNCHANGED <<rows, ticked, asked, busy, target, hit>>

MemNext ==
    \/ Scan \/ QuitSelected \/ ClosePanel
    \/ \E row \in rows : Tick(row)
    \/ \E row \in asked : Resolve(row)
    \/ \E row \in target : Kill(row)
    \/ \E p \in Pids, image \in Image \union {Free} : ChangeHands(p, image)

MemSpec == MemInit /\ [][MemNext]_memVars

-----------------------------------------------------------------------------
(***************************************************************************)
(* A signal meant for a row goes to the application the user ticked, and   *)
(* to its main process where one ran when the list was made, so that the   *)
(* helpers go with it; unless the pid changed hands since.                 *)
(***************************************************************************)
QuitsWhatWasTicked ==
    \A h \in hit : ~h.moved =>
        h.image.app = h.row.app /\ (h.row.led => h.image.main)

(***************************************************************************)
(* Neither the bar nor a critical process is ever signalled, however old   *)
(* the list is, unless the pid changed hands within the moment between     *)
(* quit_pids' look at it and its kill.                                     *)
(***************************************************************************)
NeverCritical ==
    \A h \in hit : h.image.app \in Critical => h.raced

=============================================================================
