---- MODULE MCCommands ----
(* Instances of Commands for the model checker.                            *)
EXTENDS Commands, TLC

CONSTANTS t1, t2, s1, s2, s3, pathA, pathB

OldAndNew == <<s1, s2>>

NoSettings == << >>

Command(kind) ==
  [kind |-> kind, opts |-> {}, file |-> NoSettings, env |-> NoSettings,
   flags |-> NoSettings, params |-> NoSettings, offer |-> None, path |-> None,
   session |-> None]

Sats(n)         == Offer("L402", "bc", 10 * n, "n", None, TRUE)
Fraction        == Offer("L402", "bc", 39000, "p", None, TRUE)
Stated(n, sats) == Offer("Payment", "bc", n, "n", sats, TRUE)
Micro           == Offer("Payment", "bcrt", 1, "u", 0, TRUE)
Unreadable      == Offer("L402", "bc", 20, "n", None, FALSE)
WholeBitcoin    == Offer("L402", "bc", 1, "btc", None, TRUE)
Signet          == Offer("L402", "tbs", 40, "n", None, TRUE)
OpenAmount      == Offer("Payment", "tb", 0, "none", None, TRUE)

Free  == [Command("get") EXCEPT !.path = pathA, !.file = [mode |-> "none"]]
Paid  == [Command("get") EXCEPT !.path = pathB, !.offer = Sats(2)]
ByLNC == [Paid EXCEPT !.file = [mode |-> "lnc"]]

With(c, opts)      == [c EXCEPT !.opts = opts]
Flagged(c, cost)   == [c EXCEPT !.flags = [max_cost |-> cost]]
InParams(c, cost)  == [c EXCEPT !.params = [max_cost |-> cost]]
Resumed(c)         == With(c, {"resume"})
Pair(s)            == [Command("pair") EXCEPT !.session = s]
Revoke1(s)         == [Command("revoke") EXCEPT !.session = s]
Mcp(lines)         == [Command("mcp") EXCEPT !.file = lines]
Call(offer)        == [Command("call") EXCEPT !.path = pathA, !.offer = offer]
Priced(offer)      == [Paid EXCEPT !.offer = offer]
Preview1(c)        == With(c, {"dry_run"})
Status(mode)       == [Command("status") EXCEPT !.file = [mode |-> mode]]
Info(mode)         == [Command("info") EXCEPT !.file = [mode |-> mode]]

Both(a, b) == t1 :> a @@ t2 :> b

\* The user's session is resumed while it is resumed, listed, revoked or paired.
SessionScenarios ==
  { Both(<<ByLNC>>, <<Status("lnc")>>),
    Both(<<ByLNC>>, <<Command("revoke_all")>>),
    Both(<<ByLNC, Command("sessions")>>, <<Revoke1(s2)>>),
    Both(<<Pair(s3), Status("lnc")>>, <<Status("lnc"), Info("lnc")>>),
    Both(<<With(Pair(s3), {"ephemeral"})>>, <<[ByLNC EXCEPT !.file = [mode |-> "lnc", phrase |-> s3]]>>),
    Both(<<[Status("lnc") EXCEPT !.file = [mode |-> "lnc", session_id |-> s1]]>>,
         <<Mcp([mode |-> "lnc", session_id |-> s1]), Call(Sats(2))>>) }

\* Files that are fetched, cut off, killed, resumed and fetched twice.
FileScenarios ==
  { Both(<<Free, Resumed(Free)>>, <<Resumed(Free)>>),
    Both(<<Free, Resumed(Free), Resumed(Free)>>, << >>),
    Both(<<[Free EXCEPT !.path = None]>>, <<Mcp([mode |-> "none"]), Call(None), Call(Sats(2))>>) }

\* Arguments, settings and backends.
OtherScenarios ==
  { Both(<<With(Paid, {"bad_url"}), With(Paid, {"dry_run"}), With(Paid, {"bad_scheme"})>>,
         <<With(ByLNC, {"bad_header"}), With(ByLNC, {"bad_path"})>>),
    Both(<<With(Paid, {"bad_config"}), With(Paid, {"bad_dirs"}), [Paid EXCEPT !.file = [mode |-> "other"]]>>,
         <<[Paid EXCEPT !.file = [mode |-> "neutrino"]]>>),
    Both(<<Flagged(Paid, 1)>>, <<Flagged(Priced(Sats(4)), 5)>>),
    Both(<<InParams(Flagged(Paid, 5), 1)>>, <<InParams(Flagged(Priced(Sats(4)), 1), 5)>>),
    Both(<<[Paid EXCEPT !.env = [max_cost |-> 1, phrase |-> s3]]>>,
         <<[Command("pair") EXCEPT !.env = [phrase |-> s3]], Command("pair")>>),
    Both(<<Status("lnd"), Status("none"), Info("none")>>, <<Info("lnd"), Info("neutrino"), Command("revoke")>>),
    Both(<<Command("serve")>>, <<Command("serve"), Free>>) }

\* Prices that are told before they are paid.
PriceScenarios ==
  { Both(<<Preview1(Priced(Fraction)), Priced(Fraction)>>, << >>),
    Both(<<Preview1(Priced(Stated(40, None))), Priced(Stated(40, None)), Priced(Unreadable)>>, << >>),
    Both(<<Preview1(Priced(Micro)), Priced(Micro)>>, << >>),
    Both(<<Mcp(NoSettings), Preview1(Call(Stated(20, 5))), Call(Stated(20, 5))>>, << >>),
    Both(<<Preview1(Paid), With(Priced(Sats(4)), {"dry_run", "bad_url"}), Priced(Sats(4))>>, << >>),
    Both(<<Preview1(Paid), Mcp(NoSettings), Preview1(Call(Sats(4))), Call(Sats(4)),
           Preview1(Call(Sats(2))), Call(Sats(2))>>, << >>),
    Both(<<Preview1(Priced(Stated(20, 2))), Priced(Stated(20, 2)), Priced(Stated(20, 2))>>, << >>),
    Both(<<Preview1(Priced(WholeBitcoin)), Priced(WholeBitcoin), Priced(OpenAmount)>>, << >>),
    Both(<<Mcp([max_cost |-> -1]), Preview1(Call(OpenAmount)), Call(OpenAmount)>>, << >>) }

\* A token that one terminal has stored, and that the server takes no longer, while
\* the other goes out with it.
TokenScenarios ==
  { Both(<<Paid>>, <<[Paid EXCEPT !.path = None]>>),
    Both(<<Paid, Paid>>, << >>) }

\* What a user may say about paying, besides --max-cost and the settings; and
\* invoices that ask for more than the code makes of them, or than is stated.
PayingScenarios ==
  { Both(<<With(Priced(WholeBitcoin), {"no_pay"})>>, << >>),
    Both(<<InParams(Paid, 1)>>, << >>),
    Both(<<[Paid EXCEPT !.file = [auto_pay |-> FALSE]]>>, << >>),
    Both(<<Flagged(Priced(Signet), 2)>>, << >>),
    Both(<<Priced(Stated(40, 2))>>, << >>),
    Both(<<Preview1(Priced(Stated(40, -1))), Priced(Stated(40, -1))>>, << >>) }

AllScenarios ==
  SessionScenarios \cup FileScenarios \cup OtherScenarios \cup PriceScenarios \cup TokenScenarios
====
