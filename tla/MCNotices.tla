----------------------------- MODULE MCNotices -----------------------------
(* Instances of Notices for TLC.                                            *)
EXTENDS Notices

Release(series, at, width) == [series |-> series, at |-> at, before |-> width, after |-> width]

\* Two releases, their blackouts as long as the clock's unit: the processes start in
\* the first and are warned of the second.  The file lists one, as
\* event_calendar.json lists FOMC decisions and no other series.
Fomc        == Release("fomc", 0, 0)
TwoReleases == {Fomc, Release("cpi", 2, 0)}
CuratedFomc == {Fomc}

\* The environment has the single chat of old.
OldEnv == Chats(TRUE, "L", "", "")

\* Telegram may be given a chat for reports alone.
SomePayloads == {Chats(TRUE, "", "", "R")}
=============================================================================
