------------------------- MODULE MCWallboardServer -------------------------
(* What the wallboard does for its users: its tables, with two browsers and  *)
(* three queues; the requests of its phone system client, one and a command; *)
(* the changes of a queue's agents, two actions and two agents; a page in a  *)
(* browser, with two queues; a user's preferences, with three columns and    *)
(* one metric; and the administrator's pages, with a setting on each card    *)
(* and the thresholds of a queue beside the global ones.  The seven share no *)
(* variable: a behaviour is one of the "part" it is of, the others at rest.  *)
EXTENDS WallboardServer, PhoneClient, QueueMembership, BrowserClient, Preferences,
        SettingsPage, ThresholdsPage, TLC

CONSTANTS b1, b2, e1, q1, q2, q3, g1, g2, r1, m1, a1, a2, x1, x2, k1, k2, k3, i1, u1, u2, v1, v2, t0, t1

VARIABLE part

allVars == <<part, serverVars, clientVars, membershipVars, browserVars, prefVars, settingsVars, thresholdVars>>

WallboardInit ==
    /\ part \in {"server", "client", "membership", "browser", "prefs", "settings", "thresholds"}
    /\ ServerInit /\ ClientInit /\ MembershipInit /\ BrowserInit /\ PrefInit
    /\ SettingsInit /\ ThresholdsInit
    /\ part # "membership" => members = {} /\ managers = {} /\ admins = {}
    /\ part # "browser" => alertsOn = {}
    /\ part # "prefs" => stored.columns = Column /\ stored.theme = Defaults.theme
    /\ part # "settings" => \A f \in Setting : row[f] = v1
    /\ part # "thresholds" => \A s \in Scope : rows[s] = NoRow

WallboardNext ==
    \/ part = "server" /\ ServerNext
       /\ UNCHANGED <<part, clientVars, membershipVars, browserVars, prefVars, settingsVars, thresholdVars>>
    \/ part = "client" /\ ClientNext
       /\ UNCHANGED <<part, serverVars, membershipVars, browserVars, prefVars, settingsVars, thresholdVars>>
    \/ part = "membership" /\ MembershipNext
       /\ UNCHANGED <<part, serverVars, clientVars, browserVars, prefVars, settingsVars, thresholdVars>>
    \/ part = "browser" /\ BrowserNext
       /\ UNCHANGED <<part, serverVars, clientVars, membershipVars, prefVars, settingsVars, thresholdVars>>
    \/ part = "prefs" /\ PrefNext
       /\ UNCHANGED <<part, serverVars, clientVars, membershipVars, browserVars, settingsVars, thresholdVars>>
    \/ part = "settings" /\ SettingsNext
       /\ UNCHANGED <<part, serverVars, clientVars, membershipVars, browserVars, prefVars, thresholdVars>>
    \/ part = "thresholds" /\ ThresholdsNext
       /\ UNCHANGED <<part, serverVars, clientVars, membershipVars, browserVars, prefVars, settingsVars>>

WallboardSpec == WallboardInit /\ [][WallboardNext]_allVars

WallboardSymmetry ==
    Permutations(Browser) \cup Permutations(PbxQueue)
=============================================================================
