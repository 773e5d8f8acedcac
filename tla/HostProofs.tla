----------------------------- MODULE HostProofs -----------------------------
(***************************************************************************)
(* Theorems about LoginItem and MemQuit, each alone and both in MCBarHost: *)
(* file and registration follow the user's choice, an uninstall accounts   *)
(* for what it leaves, and no critical process is signalled, for every     *)
(* mishap and any number of processes, applications and rows.              *)
(***************************************************************************)
EXTENDS MCBarHost, DataProofs

\* What the user last asked for, on its way from the click to the service.
Carried ==
    /\ bar \in {"gone", "ready"} /\ "file" \notin lapses => Wanted = Asked
    /\ bar = "ready" /\ "service" \notin lapses => registered = Asked
    /\ /\ bar \in {"truncate", "fill", "service"}
       /\ "file" \notin lapses \/ "service" \notin lapses
       => saving = Asked
    /\ bar = "service" /\ "file" \notin lapses => Wanted = saving

\* A bar that outlives the pkill has its signal coming or was spared.
Stopped ==
    /\ removal # "idle" => bar = "gone" \/ doomed \/ spared
    /\ removal = "done" => app = "absent"

LoginInv == LoginTypeOK /\ Carried /\ Stopped

\* Either way the registration keeps its type, and follows or has lapsed.
LEMMA ServiceTypes ==
    ASSUME NEW on \in BOOLEAN, registered \in BOOLEAN,
           lapses \subseteq {"file", "service"},
           NEW left, left \subseteq {"file", "service"}, Service(on, left)
    PROVE  /\ registered' \in BOOLEAN /\ lapses' \subseteq {"file", "service"}
           /\ \/ registered' = on /\ lapses' = left
              \/ lapses' = lapses \union {"service"}
BY DEF Service

LEMMA ReconcileTypes ==
    ASSUME LoginTypeOK, Reconcile
    PROVE  /\ registered' \in BOOLEAN /\ lapses' \subseteq {"file", "service"}
           /\ "file" \in lapses' <=> "file" \in lapses
           /\ "service" \notin lapses' => registered' = Wanted /\ "file" \notin lapses
<1>1. Wanted \in BOOLEAN /\ Repaired \subseteq {"file", "service"}
  BY DEF Wanted, Repaired
<1>2. CASE Wanted # registered
  <2>1. Service(Wanted, Repaired)
    BY <1>2 DEF Reconcile
  <2>2. CASE registered' = Wanted /\ lapses' = Repaired
    BY <1>1, <2>2 DEF Repaired
  <2>3. CASE lapses' = lapses \union {"service"} /\ registered' = registered
    BY <2>3 DEF LoginTypeOK
  <2> QED
    BY <2>1, <2>2, <2>3 DEF Service
<1>3. CASE Wanted = registered
  <2>1. registered' = registered /\ lapses' = Repaired
    BY <1>3 DEF Reconcile
  <2> QED
    BY <1>1, <1>3, <2>1 DEF Repaired
<1> QED
  BY <1>2, <1>3

LEMMA LoginStep ==
    ASSUME LoginInv, [LoginNext]_loginVars
    PROVE  LoginInv'
<1> USE DEF LoginInv
<1>1. CASE LaunchBar
  <2>1. /\ registered' \in BOOLEAN /\ lapses' \subseteq {"file", "service"}
        /\ "file" \in lapses' <=> "file" \in lapses
        /\ "service" \notin lapses' => registered' = Wanted /\ "file" \notin lapses
    BY <1>1, ReconcileTypes DEF LaunchBar
  <2>2. Wanted' = Wanted /\ Asked' = Asked
    BY <1>1 DEF LaunchBar, Wanted, Asked
  <2>3. LoginTypeOK'
    BY <1>1, <2>1 DEF LaunchBar, LoginTypeOK
  <2>4. Carried'
    BY <1>1, <2>1, <2>2 DEF LaunchBar, Carried
  <2>5. Stopped'
    BY <1>1 DEF LaunchBar, Stopped, LoginTypeOK
  <2> QED
    BY <2>3, <2>4, <2>5
<1>2. CASE ShowSwitch \/ HideSwitch
  <2>1. Wanted' = Wanted /\ Asked' = Asked
    BY <1>2 DEF ShowSwitch, HideSwitch, history, Wanted, Asked
  <2>2. LoginTypeOK'
    BY <1>2 DEF ShowSwitch, HideSwitch, history, LoginTypeOK, Shown
  <2>3. Carried'
    BY <1>2, <2>1 DEF ShowSwitch, HideSwitch, history, Carried
  <2>4. Stopped'
    BY <1>2 DEF ShowSwitch, HideSwitch, history, Stopped, LoginTypeOK
  <2> QED
    BY <2>2, <2>3, <2>4
<1>3. CASE Toggle
  <2>1. saving' = Asked'
    <3>1. Wanted <=> Shown(Wanted) = "on"
      BY Zenon DEF Shown, Wanted
    <3>2. Shown(Wanted) \in {"on", "off"}
      BY DEF Shown
    <3>3. CASE Shown(Wanted) = switch
      <4>1. Asked' = (switch = "off")
        BY <1>3, <3>3 DEF Toggle, Asked
      <4> QED
        BY <1>3, <3>1, <3>2, <3>3, <4>1 DEF Toggle
    <3>4. CASE Shown(Wanted) # switch
      <4>1. Asked' = ~(switch = "off")
        BY <1>3, <3>4 DEF Toggle, Asked
      <4>2. switch \in {"on", "off"}
        BY <1>3 DEF Toggle, LoginTypeOK
      <4> QED
        BY <1>3, <3>1, <3>2, <3>4, <4>1, <4>2 DEF Toggle
    <3> QED
      BY <3>3, <3>4
  <2>2. LoginTypeOK'
    BY <1>3 DEF Toggle, LoginTypeOK, Wanted
  <2>3. Carried'
    BY <1>3, <2>1 DEF Toggle, Carried
  <2> QED
    BY <1>3, <2>2, <2>3 DEF Toggle, Stopped
<1>4. CASE Truncate
  <2>1. Asked' = Asked
    BY <1>4 DEF Truncate, Asked
  <2>2. LoginTypeOK'
    <3>1. lapses' = lapses \/ lapses' = lapses \union {"file"}
      BY <1>4 DEF Truncate
    <3>2. lapses' \subseteq {"file", "service"}
      BY <3>1 DEF LoginTypeOK
    <3>3. stored' \in {"on", "off", "none"} /\ (bar' = "fill" => stored' = "none")
      BY <1>4 DEF Truncate, LoginTypeOK
    <3> QED
      BY <1>4, <3>2, <3>3 DEF Truncate, LoginTypeOK
  <2>3. Carried'
    BY <1>4, <2>1 DEF Truncate, Carried, Wanted
  <2>4. Stopped'
    BY <1>4 DEF Truncate, Stopped, LoginTypeOK
  <2> QED
    BY <2>2, <2>3, <2>4
<1>5. CASE FillConfig
  <2>1. lapses' = lapses \/ lapses' = lapses \union {"file"}
    BY <1>5 DEF FillConfig
  <2>2. lapses' \subseteq {"file", "service"}
    BY <2>1 DEF LoginTypeOK
  <2>3. stored' \in {"on", "off", "none"}
    BY <1>5 DEF FillConfig, Shown, LoginTypeOK
  <2>4. LoginTypeOK'
    BY <1>5, <2>2, <2>3 DEF FillConfig, LoginTypeOK
  <2>5. Asked' = Asked
    BY <1>5 DEF FillConfig, Asked
  <2>6. "file" \notin lapses' => Wanted' = saving
    BY <1>5 DEF FillConfig, Shown, LoginTypeOK, Wanted
  <2>7. Carried'
    BY <1>5, <2>1, <2>5, <2>6 DEF FillConfig, Carried
  <2> QED
    BY <1>5, <2>4, <2>7 DEF FillConfig, Stopped
<1>6. CASE EndToggle
  <2>1. /\ registered' \in BOOLEAN /\ lapses' \subseteq {"file", "service"}
        /\ \/ registered' = saving /\ lapses' = lapses
           \/ lapses' = lapses \union {"service"}
    BY <1>6, ServiceTypes DEF EndToggle, LoginTypeOK
  <2>2. Wanted' = Wanted /\ Asked' = Asked
    BY <1>6 DEF EndToggle, Wanted, Asked
  <2>3. LoginTypeOK'
    BY <1>6, <2>1 DEF EndToggle, Shown, LoginTypeOK
  <2>4. Carried'
    BY <1>6, <2>1, <2>2 DEF EndToggle, Carried
  <2> QED
    BY <1>6, <2>3, <2>4 DEF EndToggle, Stopped
<1>7. CASE StopBar
  <2>1. Wanted' = Wanted /\ Asked' = Asked
    BY <1>7 DEF StopBar, Wanted, Asked
  <2>2. /\ lapses' \subseteq {"file", "service"}
        /\ "file" \notin lapses' => bar \in {"ready", "service"} /\ "file" \notin lapses
    BY <1>7 DEF StopBar, LoginTypeOK
  <2>3. LoginTypeOK'
    BY <1>7, <2>2 DEF StopBar, LoginTypeOK
  <2>4. Carried'
    BY <1>7, <2>1, <2>2 DEF StopBar, Carried
  <2> QED
    BY <1>7, <2>3, <2>4 DEF StopBar, Stopped
<1>8. CASE Settings
  BY <1>8 DEF Settings, LoginTypeOK, Carried, Stopped, Asked
<1>9. ASSUME NEW text \in {"on", "off", "none"}, EditBarConfig(text)
      PROVE  LoginInv'
  BY <1>9 DEF EditBarConfig, LoginTypeOK, Carried, Stopped, Wanted, Asked
<1>10. CASE InstallBundle
  <2>1. Wanted' = Wanted /\ Asked' = Asked
    BY <1>10 DEF InstallBundle, Wanted, Asked
  <2>2. LoginTypeOK'
    BY <1>10 DEF InstallBundle, LoginTypeOK
  <2>3. Carried'
    BY <1>10, <2>1 DEF InstallBundle, Carried
  <2>4. Stopped'
    BY <1>10 DEF InstallBundle, Stopped, LoginTypeOK
  <2> QED
    BY <2>2, <2>3, <2>4
<1>11. CASE StopForRemoval
  <2>1. Wanted' = Wanted /\ Asked' = Asked
    BY <1>11 DEF StopForRemoval, Wanted, Asked
  <2>2. LoginTypeOK'
    BY <1>11 DEF StopForRemoval, LoginTypeOK
  <2>3. Carried'
    BY <1>11, <2>1 DEF StopForRemoval, Carried
  <2>4. Stopped'
    BY <1>11 DEF StopForRemoval, Stopped, LoginTypeOK
  <2> QED
    BY <2>2, <2>3, <2>4
<1>12. CASE Unregister
  <2>1. Wanted' = Wanted /\ Asked' = Asked
    BY <1>12 DEF Unregister, Wanted, Asked
  <2>2. LoginTypeOK'
    <3>1. lapses' = lapses \/ lapses' = lapses \union {"service"}
      BY <1>12 DEF Unregister
    <3>2. lapses' \subseteq {"file", "service"}
      BY <3>1 DEF LoginTypeOK
    <3>3. registered' \in BOOLEAN
      BY <1>12 DEF Unregister, LoginTypeOK
    <3> QED
      BY <1>12, <3>2, <3>3 DEF Unregister, LoginTypeOK
  <2>3. Carried'
    BY <1>12, <2>1 DEF Unregister, Carried
  <2>4. Stopped'
    BY <1>12 DEF Unregister, Stopped, LoginTypeOK
  <2> QED
    BY <2>2, <2>3, <2>4
<1>13. CASE RemoveBundle
  BY <1>13 DEF RemoveBundle, history, LoginTypeOK, Carried, Stopped, Wanted, Asked
<1>14. CASE UNCHANGED loginVars
  BY <1>14 DEF loginVars, LoginTypeOK, Carried, Stopped, Wanted, Asked
<1> QED
  BY <1>1, <1>2, <1>3, <1>4, <1>5, <1>6, <1>7, <1>8, <1>9, <1>10, <1>11, <1>12,
     <1>13, <1>14 DEF LoginNext

LEMMA LoginAlways == LoginSpec => []LoginInv
<1>1. LoginInit => LoginInv
  BY DEF LoginInit, LoginInv, LoginTypeOK, Carried, Stopped, Wanted, Asked
<1>2. LoginInv /\ [LoginNext]_loginVars => LoginInv'
  BY LoginStep
<1> QED
  BY <1>1, <1>2, PTL DEF LoginSpec

\* The configuration, the service and the commands keep their types, and a file
\* that is being saved holds nothing yet.
THEOREM LoginTypeCorrect == LoginSpec => []LoginTypeOK
<1>1. LoginInv => LoginTypeOK
  BY DEF LoginInv
<1> QED
  BY <1>1, LoginAlways, PTL

\* File and registration are what the last request came to, but for the half
\* that a failure, a kill or another hand kept it from, in whatever order clicks,
\* edits, launches, removals and installs come; and a launch mends the second.
THEOREM ChoiceHonouredHolds == LoginSpec => []ChoiceHonoured
<1>1. LoginInv => ChoiceHonoured
  BY DEF LoginInv, Carried, ChoiceHonoured
<1> QED
  BY <1>1, LoginAlways, PTL

\* An uninstall that ran to its end leaves no bundle, and no bar but one whose
\* signal is on its way, that pkill missed, or that was launched while it ran.
THEOREM RemovedAndStoppedHolds == LoginSpec => []RemovedAndStopped
<1>1. LoginInv => RemovedAndStopped
  BY DEF LoginInv, Stopped, RemovedAndStopped
<1> QED
  BY <1>1, LoginAlways, PTL

-----------------------------------------------------------------------------
(* MemQuit *)

\* The row under a signal was found harmless, and is until its pid changes hands.
Checked ==
    \A r \in target : ~raced => proc[r.pid].app \notin Critical

\* A listed row speaks for its application, and a hit kept to it, as long as
\* the pid has not changed hands.
Speaks(r) ==
    r.pid \notin moved =>
        \/ proc[r.pid] = Free
        \/ proc[r.pid].app = r.app /\ (r.led => proc[r.pid].main)

MemInv ==
    /\ MemTypeOK
    /\ NeverCritical
    /\ QuitsWhatWasTicked
    /\ Checked
    /\ \A r \in rows \union asked \union target : Speaks(r)

\* A process that speaks for an application is one of its own, and a main one
\* where it has any.
LEMMA SpeakerOwns ==
    ASSUME MemTypeOK, NEW a, NEW size, NEW p \in Speakers(a, size)
    PROVE  /\ p \in Pids /\ proc[p] # Free /\ proc[p].app = a
           /\ (\E q \in Own(a) : proc[q].main) => proc[p].main
<1>1. p \in Own(a) /\ ((\E q \in Own(a) : proc[q].main) => proc[p].main)
  <2> DEFINE main == [q \in Own(a) |-> proc[q].main]
  <2>1. p \in Largest(Own(a), main, size)
    BY DEF Speakers
  <2>2. CASE \E q \in Own(a) : main[q]
    <3>1. p \in {q \in Own(a) : main[q]}
      BY <2>1, <2>2 DEF Largest
    <3> QED
      BY <3>1
  <2>3. CASE ~ \E q \in Own(a) : main[q]
    <3>1. p \in Own(a)
      BY <2>1, <2>3 DEF Largest
    <3> QED
      BY <3>1, <2>3
  <2> QED
    BY <2>2, <2>3
<1> QED
  BY <1>1 DEF Own, Listed

\* The row of a process that speaks for its application is of a row's type.
LEMMA RowTypes ==
    ASSUME MemTypeOK, NEW a, NEW size, NEW p \in Speakers(a, size)
    PROVE  /\ RowOf(a, p) \in Row
           /\ RowOf(a, p).pid = p /\ RowOf(a, p).app = a
           /\ RowOf(a, p).led => proc[p].main
<1>1. /\ p \in Pids /\ proc[p] # Free /\ proc[p].app = a
      /\ (\E q \in Own(a) : proc[q].main) => proc[p].main
  BY SpeakerOwns
<1>2. proc[p] \in Image
  BY <1>1 DEF MemTypeOK
<1>3. a \in Apps
  BY <1>1, <1>2, MemAssumption
<1>4. Killable(a, p) \in BOOLEAN /\ (\E q \in Own(a) : proc[q].main) \in BOOLEAN
  BY DEF Killable
<1> QED
  BY <1>1, <1>3, <1>4 DEF RowOf, Row

\* A new list: its rows speak for the processes they were made from.
LEMMA ScanStep ==
    ASSUME MemInv, Scan
    PROVE  MemInv'
<1> USE DEF MemInv
<1> DEFINE Fits(r) == r \in Row /\ proc[r.pid].app = r.app /\ (r.led => proc[r.pid].main)
<1>1. \A r \in rows' : Fits(r)
  <2>1. CASE rows' = {}
    BY <2>1
  <2>2. ASSUME NEW size \in [Listed -> Sizes], NEW shown \in Top(size),
               NEW speaker \in [shown -> Listed],
               \A a \in shown : speaker[a] \in Speakers(a, size),
               rows' = {RowOf(a, speaker[a]) : a \in shown}
        PROVE  \A r \in rows' : Fits(r)
    <3> SUFFICES ASSUME NEW a \in shown
                 PROVE  Fits(RowOf(a, speaker[a]))
      BY <2>2
    <3>1. speaker[a] \in Speakers(a, size)
      BY <2>2
    <3> QED
      BY <3>1, RowTypes, SpeakerOwns
  <2> QED
    BY <2>1, <2>2 DEF Scan
<1>2. MemTypeOK'
  BY <1>1 DEF Scan, MemTypeOK
<1>3. \A r \in rows' \union asked' \union target' : Speaks(r)'
  <2>1. ASSUME NEW r \in asked'  PROVE Speaks(r)'
    <3>1. r \in asked /\ (r.pid \notin moved' => r.pid \notin moved)
      BY <2>1 DEF Scan
    <3> QED
      BY <3>1 DEF Scan, Speaks
  <2>2. ASSUME NEW r \in rows'  PROVE Speaks(r)'
    BY <1>1, <2>2 DEF Scan, Speaks
  <2> QED
    BY <2>1, <2>2 DEF Scan
<1> QED
  BY <1>2, <1>3 DEF Scan, NeverCritical, QuitsWhatWasTicked, Checked

\* quit_pids' look at a pid: what it lets through is not critical.
LEMMA ResolveStep ==
    ASSUME MemInv, NEW row \in asked, Resolve(row)
    PROVE  MemInv'
<1> USE DEF MemInv
<1>1. target' \subseteq {row}
  BY DEF Resolve
<1>2. MemTypeOK'
  BY <1>1 DEF Resolve, MemTypeOK
<1>3. Checked'
  BY <1>1 DEF Resolve, Checked, Killable
<1>4. \A r \in rows' \union asked' \union target' : Speaks(r)'
  BY <1>1 DEF Resolve, Speaks
<1> QED
  BY <1>2, <1>3, <1>4 DEF Resolve, NeverCritical, QuitsWhatWasTicked

\* The signal: what it hits is what the pid's last holder is known to be.
LEMMA KillStep ==
    ASSUME MemInv, NEW row \in target, Kill(row)
    PROVE  MemInv'
<1> USE DEF MemInv
<1>1. row \in Row /\ row.pid \in Pids
  BY DEF MemTypeOK, Row
<1>2. CASE proc[row.pid] = Free
  BY <1>2 DEF Kill, MemTypeOK, NeverCritical, QuitsWhatWasTicked, Checked, Speaks
<1>3. CASE proc[row.pid] # Free
  <2> DEFINE h == [ image |-> proc[row.pid], row |-> row,
                    moved |-> row.pid \in moved, raced |-> raced ]
  <2>1. hit' = {h}
    BY <1>3 DEF Kill
  <2>2. h \in Hit
    BY <1>1, <1>3 DEF Hit, MemTypeOK
  <2>3. MemTypeOK'
    BY <2>1, <2>2 DEF Kill, MemTypeOK
  <2>4. NeverCritical'
    BY <2>1 DEF Checked, NeverCritical
  <2>5. QuitsWhatWasTicked'
    <3>1. Speaks(row)
      OBVIOUS
    <3>2. ~h.moved => h.image.app = h.row.app /\ (h.row.led => h.image.main)
      BY <1>3, <3>1 DEF Speaks
    <3> QED
      BY <2>1, <3>2 DEF QuitsWhatWasTicked
  <2> QED
    BY <2>3, <2>4, <2>5 DEF Kill, Checked, Speaks
<1> QED
  BY <1>2, <1>3

\* A pid that changes hands is remembered; every other one keeps its holder.
LEMMA ChangeStep ==
    ASSUME MemInv, NEW p \in Pids, NEW image \in Image \union {Free}, ChangeHands(p, image)
    PROVE  MemInv'
<1> USE DEF MemInv
<1>1. \A r \in Row : r.pid \in Pids
  BY DEF Row
<1>2. MemTypeOK'
  <2>1. raced' \in BOOLEAN
    BY DEF ChangeHands
  <2> QED
    BY <2>1, MemAssumption DEF ChangeHands, MemTypeOK
<1>3. Checked'
  <2> SUFFICES ASSUME NEW r \in target, ~raced'
               PROVE  proc'[r.pid].app \notin Critical
    BY DEF ChangeHands, Checked
  <2>1. ~raced /\ r.pid # p /\ r.pid \in Pids
    BY <1>1 DEF ChangeHands, MemTypeOK
  <2> QED
    BY <2>1 DEF ChangeHands, MemTypeOK, Checked
<1>4. \A r \in rows' \union asked' \union target' : Speaks(r)'
  <2> SUFFICES ASSUME NEW r \in rows \union asked \union target, r.pid \notin moved'
               PROVE  \/ proc'[r.pid] = Free
                      \/ proc'[r.pid].app = r.app /\ (r.led => proc'[r.pid].main)
    BY DEF ChangeHands, Speaks
  <2>1. r.pid \notin moved /\ r.pid # p /\ r.pid \in Pids
    BY <1>1 DEF ChangeHands, MemTypeOK
  <2>2. proc'[r.pid] = proc[r.pid]
    BY <2>1 DEF ChangeHands, MemTypeOK
  <2> QED
    BY <2>1, <2>2 DEF Speaks
<1> QED
  BY <1>2, <1>3, <1>4 DEF ChangeHands, NeverCritical, QuitsWhatWasTicked

LEMMA MemStep ==
    ASSUME MemInv, [MemNext]_memVars
    PROVE  MemInv'
<1> USE DEF MemInv
<1>1. CASE QuitSelected
  BY <1>1 DEF QuitSelected, MemTypeOK, NeverCritical, QuitsWhatWasTicked, Checked, Speaks
<1>2. CASE ClosePanel
  BY <1>2 DEF ClosePanel, MemTypeOK, NeverCritical, QuitsWhatWasTicked, Checked, Speaks
<1>3. ASSUME NEW row \in rows, Tick(row)
      PROVE  MemInv'
  <2>1. ticked' \subseteq {r \in rows : r.killable}
    BY <1>3 DEF Tick, MemTypeOK, SymDiff
  <2> QED
    BY <1>3, <2>1 DEF Tick, MemTypeOK, NeverCritical, QuitsWhatWasTicked, Checked, Speaks
<1>4. CASE UNCHANGED memVars
  BY <1>4 DEF memVars, MemTypeOK, NeverCritical, QuitsWhatWasTicked, Checked, Speaks
<1> QED
  BY <1>1, <1>2, <1>3, <1>4, ScanStep, ResolveStep, KillStep, ChangeStep DEF MemNext

LEMMA MemAlways == MemSpec => []MemInv
<1>1. MemInit => MemInv
  <2> SUFFICES ASSUME MemInit PROVE MemInv
    OBVIOUS
  <2>1. proc[Self] # Free
    <3>1. proc[Self] = [app |-> SelfApp, main |-> TRUE]
      BY DEF MemInit
    <3>2. SelfApp # ""
      BY MemAssumption
    <3>3. ASSUME proc[Self] = Free
          PROVE  FALSE
      <4>1. [app |-> SelfApp, main |-> TRUE] = [app |-> "", main |-> FALSE]
        BY <3>1, <3>3 DEF Free
      <4>2. [app |-> SelfApp, main |-> TRUE].app = [app |-> "", main |-> FALSE].app
        BY <4>1
      <4>3. SelfApp = ""
        BY <4>2
      <4> QED
        BY <3>2, <4>3
    <3> QED
      BY <3>3
  <2>2. MemTypeOK
    BY <2>1 DEF MemInit, MemTypeOK
  <2> QED
    BY <2>2 DEF MemInit, MemInv, NeverCritical, QuitsWhatWasTicked, Checked
<1>2. MemInv /\ [MemNext]_memVars => MemInv'
  BY MemStep
<1> QED
  BY <1>1, <1>2, PTL DEF MemSpec

\* The view and the handler keep their types, and nothing is ticked that its
\* row does not offer.
THEOREM MemTypeCorrect == MemSpec => []MemTypeOK
<1>1. MemInv => MemTypeOK
  BY DEF MemInv
<1> QED
  BY <1>1, MemAlways, PTL

\* A signal reaches the ticked application, its main process where it has one,
\* for any processes, sizes and number of rows, unless the pid changed hands.
THEOREM QuitsWhatWasTickedHolds == MemSpec => []QuitsWhatWasTicked
<1>1. MemInv => QuitsWhatWasTicked
  BY DEF MemInv
<1> QED
  BY <1>1, MemAlways, PTL

\* No critical process is signalled, unless one took the pid over between
\* quit_pids' look and its kill.
THEOREM NeverCriticalHolds == MemSpec => []NeverCritical
<1>1. MemInv => NeverCritical
  BY DEF MemInv
<1> QED
  BY <1>1, MemAlways, PTL

-----------------------------------------------------------------------------
(* The two together: a step of either leaves the other as it is *)

LEMMA HostLogin == HostSpec => LoginSpec
<1>1. HostInit => LoginInit
  BY DEF HostInit
<1>2. [HostNext]_hostVars => [LoginNext]_loginVars
  BY DEF HostNext, hostVars
<1> QED
  BY <1>1, <1>2, PTL DEF HostSpec, LoginSpec

LEMMA HostMem == HostSpec => MemSpec
<1>1. HostInit => MemInit
  BY DEF HostInit
<1>2. [HostNext]_hostVars => [MemNext]_memVars
  BY DEF HostNext, hostVars
<1> QED
  BY <1>1, <1>2, PTL DEF HostSpec, MemSpec

(***************************************************************************)
(* With both in one process each keeps its types; what holds of one alone  *)
(* holds of it there, too.                                                 *)
(***************************************************************************)
THEOREM HostTypeCorrect == HostSpec => []HostTypeOK
<1>1. LoginTypeOK /\ MemTypeOK => HostTypeOK
  BY DEF HostTypeOK
<1> QED
  BY <1>1, HostLogin, HostMem, LoginTypeCorrect, MemTypeCorrect, PTL

(***************************************************************************)
(* The registration follows the user, an uninstall leaves nothing behind,  *)
(* and signals go where they were meant to, in the host as a whole.        *)
(***************************************************************************)
THEOREM HostSafe ==
  HostSpec => [](ChoiceHonoured /\ RemovedAndStopped /\ QuitsWhatWasTicked /\ NeverCritical)
BY HostLogin, HostMem, ChoiceHonouredHolds, RemovedAndStoppedHolds, QuitsWhatWasTickedHolds,
   NeverCriticalHolds, PTL

-----------------------------------------------------------------------------
(* What aggregate makes of a list of processes *)

\* The entry as it grows, if there is such a function.
Grows(acc, order, main, size, n) ==
  acc = [i \in 0..n |-> IF i = 0 THEN Fresh(order[1])
                                 ELSE Entry(acc[i - 1], order[i], main[order[i]], size[order[i]])]

LEMMA GrowsExists ==
  ASSUME NEW order, NEW main, NEW size
  PROVE  \A n \in Nat : \E acc : Grows(acc, order, main, size, n)
<1> DEFINE One(acc, i) == Entry(acc, order[i], main[order[i]], size[order[i]])
           S == {n \in Nat : \E acc : Grows(acc, order, main, size, n)}
<1>1. 0 \in S
  <2> DEFINE f == [i \in 0..0 |-> Fresh(order[1])]
  <2>1. Grows(f, order, main, size, 0)
    BY DEF Grows
  <2> QED
    BY <2>1
<1>2. ASSUME NEW n \in Nat, n \in S PROVE n + 1 \in S
  <2>1. PICK f : Grows(f, order, main, size, n)
    BY <1>2
  <2> DEFINE g == [i \in 0..(n + 1) |-> IF i = n + 1 THEN One(f[n], n + 1) ELSE f[i]]
  <2> HIDE DEF One
  <2>2. \A i \in 0..n : g[i] = f[i]
    OBVIOUS
  <2>3. \A i \in 0..n : f[i] = IF i = 0 THEN Fresh(order[1]) ELSE One(f[i - 1], i)
    BY <2>1 DEF Grows, One
  <2>4. ASSUME NEW i \in 0..(n + 1)
        PROVE  g[i] = IF i = 0 THEN Fresh(order[1]) ELSE One(g[i - 1], i)
    <3>1. CASE i = n + 1
      BY <3>1, <2>2
    <3>2. CASE i \in 0..n
      <4>1. i # 0 => i - 1 \in 0..n
        BY <3>2
      <4> HIDE DEF g
      <4>2. i # 0 => g[i - 1] = f[i - 1]
        BY <4>1, <2>2
      <4> QED
        BY <3>2, <2>2, <2>3, <4>2
    <3> QED
      BY <3>1, <3>2
  <2>5. g = [i \in 0..(n + 1) |-> g[i]]
    OBVIOUS
  <2> HIDE DEF g
  <2>6. Grows(g, order, main, size, n + 1)
    BY <2>4, <2>5 DEF Grows, One
  <2> QED
    BY <2>6
<1> HIDE DEF S
<1>3. \A n \in Nat : n \in S
  BY <1>1, <1>2, Induct
<1> QED
  BY <1>3 DEF S

\* What the entry says after the first i processes of the list.
Says(acc, order, main, size, i) ==
  /\ acc.mainRss \in Nat /\ acc.anyRss \in Nat
  /\ IF acc.main = 0
       THEN acc.mainRss = 0 /\ \A k \in 1..i : ~main[order[k]]
       ELSE /\ \E k \in 1..i : acc.main = order[k]
            /\ main[acc.main] /\ acc.mainRss = size[acc.main]
            /\ \A k \in 1..i : main[order[k]] => size[order[k]] <= acc.mainRss
  /\ IF i = 0
       THEN acc.anyRss = 0
       ELSE /\ \E k \in 1..i : acc.any = order[k]
            /\ acc.anyRss = size[acc.any]
            /\ \A k \in 1..i : size[order[k]] <= acc.anyRss

\* One more process.
LEMMA EntrySays ==
  ASSUME NEW P, 0 \notin P, NEW order \in Seq(P), NEW main \in [P -> BOOLEAN],
         NEW size \in [P -> Nat], NEW i \in Nat, i + 1 <= Len(order), NEW acc,
         Says(acc, order, main, size, i)
  PROVE  Says(Entry(acc, order[i + 1], main[order[i + 1]], size[order[i + 1]]),
              order, main, size, i + 1)
<1> DEFINE j == i + 1
           p == order[j]
           new == Entry(acc, p, main[p], size[p])
           leads == main[p] /\ size[p] >= acc.mainRss
           tops == size[p] >= acc.anyRss
<1>1. j \in Nat /\ j # 0 /\ j \in 1..j /\ \A k \in 1..j : k \in 1..i \/ k = j
  OBVIOUS
<1>2. \A k \in 1..i : k \in 1..j
  OBVIOUS
<1>3. \A k \in 1..j : order[k] \in P /\ size[order[k]] \in Nat /\ main[order[k]] \in BOOLEAN
  OBVIOUS
<1>4. p \in P /\ size[p] \in Nat /\ p # 0 /\ main[p] \in BOOLEAN
  BY <1>1, <1>3
<1>5. /\ new.main = IF leads THEN p ELSE acc.main
      /\ new.mainRss = IF leads THEN size[p] ELSE acc.mainRss
      /\ new.any = IF tops THEN p ELSE acc.any
      /\ new.anyRss = IF tops THEN size[p] ELSE acc.anyRss
  BY DEF Entry
<1>6. acc.mainRss \in Nat /\ acc.anyRss \in Nat
  BY DEF Says
<1> HIDE DEF j, new
<1>7. IF new.main = 0
        THEN new.mainRss = 0 /\ \A k \in 1..j : ~main[order[k]]
        ELSE /\ \E k \in 1..j : new.main = order[k]
             /\ main[new.main] /\ new.mainRss = size[new.main]
             /\ \A k \in 1..j : main[order[k]] => size[order[k]] <= new.mainRss
  <2>1. CASE leads
    <3>1. new.main = p /\ new.mainRss = size[p]
      BY <1>5, <2>1
    <3>2. ASSUME NEW k \in 1..j, main[order[k]] PROVE size[order[k]] <= size[p]
      <4>1. CASE k = j
        BY <4>1, <1>4
      <4>2. CASE k \in 1..i
        <5>1. acc.main # 0 /\ size[order[k]] <= acc.mainRss
          BY <3>2, <4>2 DEF Says
        <5> QED
          BY <1>3, <1>4, <1>6, <2>1, <5>1
      <4> QED
        BY <1>1, <4>1, <4>2
    <3> QED
      BY <1>1, <1>4, <2>1, <3>1, <3>2
  <2>2. CASE ~leads
    <3>1. new.main = acc.main /\ new.mainRss = acc.mainRss
      BY <1>5, <2>2
    <3>2. main[p] => size[p] < acc.mainRss
      BY <1>4, <1>6, <2>2
    <3>3. CASE acc.main = 0
      <4>1. acc.mainRss = 0 /\ \A k \in 1..i : ~main[order[k]]
        BY <3>3 DEF Says
      <4>2. ~main[p]
        BY <1>4, <3>2, <4>1
      <4> QED
        BY <1>1, <3>1, <3>3, <4>1, <4>2
    <3>4. CASE acc.main # 0
      <4>1. /\ \E k \in 1..i : acc.main = order[k]
            /\ main[acc.main] /\ acc.mainRss = size[acc.main]
            /\ \A k \in 1..i : main[order[k]] => size[order[k]] <= acc.mainRss
        BY <3>4 DEF Says
      <4>2. main[p] => size[p] <= acc.mainRss
        BY <1>4, <1>6, <3>2
      <4> QED
        BY <1>1, <1>2, <3>1, <3>4, <4>1, <4>2
    <3> QED
      BY <3>3, <3>4
  <2> QED
    BY <2>1, <2>2
<1>8. /\ \E k \in 1..j : new.any = order[k]
      /\ new.anyRss = size[new.any]
      /\ \A k \in 1..j : size[order[k]] <= new.anyRss
  <2>1. \A k \in 1..i : /\ i # 0 /\ size[order[k]] <= acc.anyRss
    BY DEF Says
  <2>2. CASE tops
    <3>1. new.any = p /\ new.anyRss = size[p]
      BY <1>5, <2>2
    <3>2. ASSUME NEW k \in 1..j PROVE size[order[k]] <= size[p]
      <4>1. CASE k = j
        BY <4>1, <1>4
      <4>2. CASE k \in 1..i
        BY <1>3, <1>4, <1>6, <2>1, <2>2, <4>2
      <4> QED
        BY <1>1, <4>1, <4>2
    <3> QED
      BY <1>1, <3>1, <3>2
  <2>3. CASE ~tops
    <3>1. new.any = acc.any /\ new.anyRss = acc.anyRss
      BY <1>5, <2>3
    <3>2. size[p] <= acc.anyRss /\ acc.anyRss # 0
      BY <1>4, <1>6, <2>3
    <3>3. i # 0
      BY <3>2 DEF Says
    <3>4. /\ \E k \in 1..i : acc.any = order[k]
          /\ acc.anyRss = size[acc.any]
      BY <3>3 DEF Says
    <3> QED
      BY <1>1, <1>2, <2>1, <3>1, <3>2, <3>4
  <2> QED
    BY <2>2, <2>3
<1>9. new.mainRss \in Nat /\ new.anyRss \in Nat
  BY <1>4, <1>5, <1>6
<1>10. Says(new, order, main, size, j)
  BY <1>1, <1>7, <1>8, <1>9 DEF Says
<1> QED
  BY <1>10 DEF new, j

\* What the entry says at each process of the list, and how its last one came in.
LEMMA AggregateSays ==
  ASSUME NEW P, 0 \notin P, NEW order \in Seq(P), order # <<>>,
         NEW main \in [P -> BOOLEAN], NEW size \in [P -> Nat]
  PROVE  LET n == Len(order)
         IN  \E acc : /\ Says(acc, order, main, size, n - 1)
                      /\ Says(Aggregate(order, main, size), order, main, size, n)
                      /\ Aggregate(order, main, size)
                           = Entry(acc, order[n], main[order[n]], size[order[n]])
<1> DEFINE n == Len(order)
           f == CHOOSE acc : Grows(acc, order, main, size, n)
           S == {i \in Nat : i <= n => Says(f[i], order, main, size, i)}
<1>1. n \in Nat /\ n # 0
  BY EmptySeq
<1>2. Grows(f, order, main, size, n)
  BY <1>1, GrowsExists
<1>3. Aggregate(order, main, size) = f[n]
  BY DEF Aggregate, Grows
<1> HIDE DEF f
<1>4. 0 \in S
  <2>1. f[0] = Fresh(order[1])
    BY <1>1, <1>2 DEF Grows
  <2> QED
    BY <2>1 DEF Says, Fresh
<1>5. ASSUME NEW i \in Nat, i \in S PROVE i + 1 \in S
  <2> SUFFICES ASSUME i + 1 <= n PROVE Says(f[i + 1], order, main, size, i + 1)
    OBVIOUS
  <2>1. Says(f[i], order, main, size, i)
    BY <1>1, <1>5
  <2>2. i + 1 \in 0..n /\ i + 1 # 0 /\ (i + 1) - 1 = i
    BY <1>1
  <2>3. f[i + 1] = Entry(f[i], order[i + 1], main[order[i + 1]], size[order[i + 1]])
    BY <1>2, <2>2 DEF Grows
  <2> QED
    BY <2>1, <2>3, EntrySays
<1> HIDE DEF S
<1>6. \A i \in Nat : i \in S
  BY <1>4, <1>5, Induct
<1>7. n - 1 \in Nat /\ n - 1 <= n /\ n <= n /\ n \in 0..n
  BY <1>1
<1>8. Says(f[n - 1], order, main, size, n - 1) /\ Says(f[n], order, main, size, n)
  BY <1>1, <1>6, <1>7 DEF S
<1>9. f[n] = Entry(f[n - 1], order[n], main[order[n]], size[order[n]])
  BY <1>1, <1>2, <1>7 DEF Grows
<1> HIDE DEF n
<1> QED
  BY <1>3, <1>8, <1>9 DEF n

(***************************************************************************)
(* The process that speaks for an application in the memory view is a      *)
(* largest of its main processes or, where it has none, a largest of all   *)
(* of them, in whatever order ps lists them and however many there are     *)
(* (aggregate's entry).                                                    *)
(***************************************************************************)
THEOREM AggregateSpeaks ==
  ASSUME NEW P, 0 \notin P, NEW order \in Seq(P), order # <<>>,
         NEW main \in [P -> BOOLEAN], NEW size \in [P -> Nat]
  PROVE  Speaker(Aggregate(order, main, size))
           \in Largest({order[k] : k \in 1..Len(order)}, main, size)
<1> DEFINE n == Len(order)
           acc == Aggregate(order, main, size)
<1>1. n \in Nat /\ n # 0
  BY EmptySeq
<1>2. Says(acc, order, main, size, n)
  BY AggregateSays
<1> HIDE DEF n, acc
<1> DEFINE own == {order[k] : k \in 1..n}
<1>3. CASE acc.main = 0
  <2>1. \A p \in own : ~main[p]
    BY <1>2, <1>3 DEF Says
  <2>2. acc.any \in own /\ \A q \in own : size[q] <= size[acc.any]
    BY <1>1, <1>2 DEF Says
  <2>3. Speaker(acc) = acc.any
    BY <1>3 DEF Speaker
  <2> HIDE DEF own
  <2> QED
    BY <2>1, <2>2, <2>3 DEF Largest, own, acc, n
<1>4. CASE acc.main # 0
  <2>1. acc.main \in own /\ main[acc.main]
    BY <1>2, <1>4 DEF Says
  <2>2. \A q \in own : main[q] => size[q] <= size[acc.main]
    BY <1>2, <1>4 DEF Says
  <2>3. Speaker(acc) = acc.main
    BY <1>4 DEF Speaker
  <2> HIDE DEF own
  <2> QED
    BY <2>1, <2>2, <2>3 DEF Largest, own, acc, n
<1> QED
  BY <1>3, <1>4

(***************************************************************************)
(* And each of them can be the one: it is where ps lists it last, as of    *)
(* equals the later one stands.  So what Scan may show is exactly what     *)
(* send_mem may.                                                           *)
(***************************************************************************)
THEOREM AggregateReaches ==
  ASSUME NEW P, 0 \notin P, NEW order \in Seq(P), order # <<>>,
         NEW main \in [P -> BOOLEAN], NEW size \in [P -> Nat],
         order[Len(order)] \in Largest({order[k] : k \in 1..Len(order)}, main, size)
  PROVE  Speaker(Aggregate(order, main, size)) = order[Len(order)]
<1> DEFINE n == Len(order)
           p == order[n]
           own == {order[k] : k \in 1..n}
           new == Aggregate(order, main, size)
<1>1. n \in Nat /\ n # 0 /\ n \in 1..n /\ \A k \in 1..(n - 1) : k \in 1..n
  BY EmptySeq
<1>2. PICK acc : /\ Says(acc, order, main, size, n - 1)
                 /\ Says(new, order, main, size, n)
                 /\ new = Entry(acc, p, main[p], size[p])
  BY AggregateSays
<1>3. p \in P /\ p # 0 /\ size[p] \in Nat /\ main[p] \in BOOLEAN
  BY <1>1
<1>4. \A k \in 1..n : order[k] \in own /\ size[order[k]] \in Nat
  OBVIOUS
<1>5. p \in Largest(own, main, size)
  OBVIOUS
<1> HIDE DEF n, p, own, new
<1>6. acc.mainRss \in Nat /\ acc.anyRss \in Nat
  BY <1>2 DEF Says
<1>7. CASE main[p]
  <2>1. \A q \in own : main[q] => size[q] <= size[p]
    BY <1>5, <1>7 DEF Largest
  <2>2. acc.mainRss <= size[p]
    <3>1. CASE acc.main = 0
      BY <1>2, <1>3, <3>1 DEF Says
    <3>2. CASE acc.main # 0
      <4>1. PICK k \in 1..(n - 1) : acc.main = order[k]
        BY <1>2, <3>2 DEF Says
      <4>2. main[order[k]] /\ acc.mainRss = size[order[k]]
        BY <1>2, <3>2, <4>1 DEF Says
      <4> QED
        BY <1>1, <1>4, <2>1, <4>2
    <3> QED
      BY <3>1, <3>2
  <2>3. new.main = p
    BY <1>2, <1>3, <1>6, <1>7, <2>2 DEF Entry
  <2> QED
    BY <1>3, <2>3 DEF Speaker, new, p, n
<1>8. CASE ~main[p]
  <2>1. (\A q \in own : ~main[q]) /\ \A q \in own : size[q] <= size[p]
    BY <1>5, <1>8 DEF Largest
  <2>2. new.main = 0
    <3>1. CASE new.main # 0
      <4>1. (\E k \in 1..n : new.main = order[k]) /\ main[new.main]
        BY <1>2, <3>1 DEF Says
      <4> QED
        BY <1>4, <2>1, <4>1
    <3> QED
      BY <3>1
  <2>3. acc.anyRss <= size[p]
    <3>1. CASE n - 1 = 0
      BY <1>2, <1>3, <3>1 DEF Says
    <3>2. CASE n - 1 # 0
      <4>1. PICK k \in 1..(n - 1) : acc.any = order[k]
        BY <1>2, <3>2 DEF Says
      <4>2. acc.anyRss = size[order[k]]
        BY <1>2, <3>2, <4>1 DEF Says
      <4> QED
        BY <1>1, <1>4, <2>1, <4>2
    <3> QED
      BY <3>1, <3>2
  <2>4. new.any = p
    BY <1>2, <1>3, <1>6, <2>3 DEF Entry
  <2> QED
    BY <2>2, <2>4 DEF Speaker, new, p, n
<1> QED
  BY <1>7, <1>8
=============================================================================
