------------------------------ MODULE Telegram ------------------------------
(***************************************************************************)
(* Where a message goes and what becomes of it: signal_engine/telegram.py  *)
(* and the Telegram part of signal_engine/config.py.  Settings are the     *)
(* record saved on the Settings page, or NotSaved, over the environment's. *)
(* A chat is a name, "" for none.                                          *)
(***************************************************************************)
EXTENDS Naturals

CONSTANTS
  Env,       \* the environment: [enabled, legacy, signals, reports]
  Retries    \* max_retries

Chats(enabled, legacy, signals, reports) ==
  [enabled |-> enabled, legacy |-> legacy, signals |-> signals, reports |-> reports]

NotSaved == Chats(FALSE, "unsaved", "unsaved", "unsaved")

First(a, b) == IF a # "" THEN a ELSE b

\* validate_telegram_config: the token is taken as present.
Valid(c) == ~c.enabled \/ First(c.signals, c.legacy) # "" \/ First(c.reports, c.legacy) # ""

\* telegram_config_from_env; a malformed environment counts as disabled.
Base == IF Valid(Env) THEN Env ELSE Chats(FALSE, "", "", "")

\* update_telegram refuses to enable Telegram without a chat, and fills both
\* channels from the single chat of old.
Accepts(p) == ~p.enabled \/ First(p.signals, p.legacy) # "" \/ First(p.reports, p.legacy) # ""

Saved(p) == Chats(p.enabled, p.legacy, First(p.signals, p.legacy), First(p.reports, p.legacy))

\* telegram_config_object: stored settings, then the environment.
Effective(stored) ==
  LET envSignals == First(Base.signals, Base.legacy)
      envReports == First(Base.reports, Base.legacy)
  IN  IF stored = NotSaved THEN Chats(Base.enabled, Base.legacy, envSignals, envReports)
      ELSE Chats(stored.enabled, First(stored.legacy, Base.legacy),
                    First(First(stored.signals, stored.legacy), envSignals),
                    First(First(stored.reports, stored.legacy), envReports))

\* TelegramNotifier: trade lifecycle to the signals chat, all else to the
\* reports chat, and a missing channel falls back to the other.
Target(c, channel) ==
  LET signals == First(c.signals, c.legacy)
      reports == First(c.reports, c.legacy)
  IN  IF channel = "signal" THEN First(signals, reports) ELSE First(reports, signals)

\* send_message makes max_retries + 1 attempts at a message that fails for a
\* transient reason: it gets through unless they all fail.
Attempts(failures) == failures < Retries + 1

\* The fate of a message after the given number of transient failures in a row.
\* A permanent refusal ends the attempts at once; to the caller it is as good as
\* a delivery, for nothing depends on either.
Fate(c, channel, failures) ==
  IF ~c.enabled THEN "muted"
  ELSE IF Target(c, channel) = "" THEN "nowhere"
  ELSE IF Attempts(failures) THEN "delivered" ELSE "lost"
=============================================================================
