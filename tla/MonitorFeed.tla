---------------------------- MODULE MonitorFeed -----------------------------
(***************************************************************************)
(* What a monitor panel of the browser promises the server: it holds at    *)
(* most one feed, of the object the panel was shown for; a feed begins     *)
(* only when the panel turns from showing nothing to showing something,    *)
(* ends with the wish for it, and when it is lost it stays lost until the  *)
(* panel is shown anew.                                                    *)
(***************************************************************************)
CONSTANTS Ids, NoId, Sockets

VARIABLES
    wish, \* the object to be shown, or NoId
    feeds \* the feeds that are open or being opened

feedVars == <<wish, feeds>>

Feed == [socket : Sockets, id : Ids]

FeedInit == wish = NoId /\ feeds = {}

\* The panel appears and tries once.
Show(i) ==
    /\ wish = NoId
    /\ wish' = i
    /\ feeds' \in {{}} \cup {{f} : f \in {g \in Feed : g.id = i}}

\* The panel is given another object; an existing feed is not moved.
Switch(i) ==
    /\ wish # NoId
    /\ wish' = i
    /\ UNCHANGED feeds

Hide == wish' = NoId /\ feeds' = {}

Lose == feeds' = {} /\ UNCHANGED wish

FeedNext ==
    \/ \E i \in Ids : Show(i) \/ Switch(i)
    \/ Hide
    \/ Lose

FeedSpec == FeedInit /\ [][FeedNext]_feedVars
=============================================================================
