------------------------------- MODULE Alerts -------------------------------
(***************************************************************************)
(* The alerts to Discord: DiscordNotifier.send_embed, which sends an alert *)
(* of a type and key again only after a cooldown, and in front of it       *)
(* Trader._send_risk_alert, with a cooldown of its own for the last reason.*)
(* Coroutines of one process share both; a post may fail, and fail after   *)
(* it was delivered.  Ages are kept in ticks, saturated.                   *)
(***************************************************************************)
EXTENDS Naturals

CONSTANTS
    Senders,        \* coroutines that send alerts
    Kinds,          \* throttle keys: a type and what it is about
    AlertCooldown,  \* discord_alert_cooldown_seconds
    RiskCooldown,   \* discord_risk_alert_cooldown_seconds
    PostTimeout     \* what the HTTP client waits for a post

ASSUME AlertAssumption ==
    /\ AlertCooldown \in Nat /\ RiskCooldown \in Nat /\ PostTimeout \in Nat
    /\ "none" \notin Kinds

VARIABLES
    sent,       \* _last_alert_sent_at, as an age
    risk,       \* _last_risk_alert_reason and _last_risk_alert_sent_at, if
                \* still within the cooldown
    posts,      \* the post each coroutine waits for
    delivered,  \* history: ticks since Discord last got an alert of a kind
    silenced    \* history: who dropped the last alert of this tick, and how long
                \* after a delivery

alertVars == <<sent, risk, posts, delivered, silenced>>

Forgotten == AlertCooldown + RiskCooldown + PostTimeout
Aging(age, bound) == IF age < bound THEN age + 1 ELSE bound

NoPost == [kind |-> "none", risk |-> FALSE, age |-> 0, arrived |-> FALSE]

NoRisk == [kind |-> "none", age |-> 0]
NoSilence == [by |-> "none", since |-> 0]

AlertInit ==
    /\ sent = [k \in Kinds |-> AlertCooldown]
    /\ risk = NoRisk
    /\ posts = [s \in Senders |-> NoPost]
    /\ delivered = [k \in Kinds |-> Forgotten]
    /\ silenced = NoSilence

IsThrottled(k) == sent[k] < AlertCooldown
RiskIsThrottled(k) == risk.kind = k

Silence(by, k) == silenced' = [by |-> by, since |-> delivered[k]]

Post(s, k, forRisk) ==
    posts' = [posts EXCEPT ![s] =
                 [kind |-> k, risk |-> forRisk, age |-> 0, arrived |-> FALSE]]

\* Signals, orders, errors, pauses and models.
SendAlert(s, k) ==
    /\ posts[s] = NoPost
    /\ IF IsThrottled(k) THEN Silence("notifier", k) /\ UNCHANGED posts
       ELSE Post(s, k, FALSE) /\ UNCHANGED silenced
    /\ UNCHANGED <<sent, risk, delivered>>

\* send_embed reports by its result, which risk_alert does not pass on: what
\* the notifier drops counts as sent.
SendRiskAlert(s, k) ==
    /\ posts[s] = NoPost
    /\ \/ RiskIsThrottled(k) /\ Silence("trader", k) /\ UNCHANGED <<risk, posts>>
       \/ /\ ~RiskIsThrottled(k) /\ IsThrottled(k)
          /\ Silence("notifier", k)
          /\ risk' = IF RiskCooldown > 0 THEN [kind |-> k, age |-> 0] ELSE NoRisk
          /\ UNCHANGED posts
       \/ /\ ~RiskIsThrottled(k) /\ ~IsThrottled(k)
          /\ Post(s, k, TRUE)
          /\ UNCHANGED <<risk, silenced>>
    /\ UNCHANGED <<sent, delivered>>

Deliver(s) ==
    /\ posts[s] # NoPost /\ ~posts[s].arrived
    /\ posts' = [posts EXCEPT ![s].arrived = TRUE]
    /\ delivered' = [delivered EXCEPT ![posts[s].kind] = 0]
    /\ UNCHANGED <<sent, risk, silenced>>

\* Deviation: every post counts, whatever became of it.
RecordAlways(s, ok) == sent' = [sent EXCEPT ![posts[s].kind] = 0]

Record(s, ok) ==
    sent' = IF ok THEN [sent EXCEPT ![posts[s].kind] = 0] ELSE sent

\* The post is answered or fails, which nobody hears of; the cooldown of risk
\* alerts counts from when it began.
PostEnds(s) ==
    /\ posts[s] # NoPost
    /\ \E ok \in BOOLEAN :
        /\ ok => posts[s].arrived
        /\ Record(s, ok)
    /\ risk' = IF ~posts[s].risk THEN risk
               ELSE IF posts[s].age < RiskCooldown
                    THEN [kind |-> posts[s].kind, age |-> posts[s].age] ELSE NoRisk
    /\ posts' = [posts EXCEPT ![s] = NoPost]
    /\ UNCHANGED <<delivered, silenced>>

\* No post outlives its timeout.
AlertTick ==
    /\ \A s \in Senders : posts[s] # NoPost => posts[s].age < PostTimeout
    /\ sent' = [k \in Kinds |-> Aging(sent[k], AlertCooldown)]
    /\ risk' = IF risk.age + 1 < RiskCooldown /\ risk # NoRisk
               THEN [risk EXCEPT !.age = @ + 1] ELSE NoRisk
    /\ posts' = [s \in Senders |->
                    IF posts[s] = NoPost THEN NoPost ELSE [posts[s] EXCEPT !.age = @ + 1]]
    /\ delivered' = [k \in Kinds |-> Aging(delivered[k], Forgotten)]
    /\ silenced' = NoSilence

AlertNext ==
    \/ AlertTick
    \/ \E s \in Senders :
        \/ Deliver(s) \/ PostEnds(s)
        \/ \E k \in Kinds : SendAlert(s, k) \/ SendRiskAlert(s, k)

AlertSpec == AlertInit /\ [][AlertNext]_alertVars

(***************************************************************************)
(* Properties                                                              *)
(***************************************************************************)

\* Cooldowns and posts keep their shape.
AlertTypeOK ==
    /\ sent \in [Kinds -> 0..AlertCooldown]
    /\ risk \in [kind : Kinds \cup {"none"}, age : 0..RiskCooldown]
    /\ posts \in [Senders -> [kind : Kinds \cup {"none"}, risk : BOOLEAN,
                              age : 0..PostTimeout, arrived : BOOLEAN]]
    /\ delivered \in [Kinds -> 0..Forgotten]
    /\ silenced \in [by : {"none", "notifier", "trader"}, since : 0..Forgotten]

\* The notifier only drops an alert if Discord got one of its kind within the
\* cooldown, however posts overlap and fail.
SilenceIsEarned ==
    silenced.by = "notifier" => silenced.since < AlertCooldown + PostTimeout

\* The same of the trader, whose cooldown is the longer one.
RiskSilenceIsEarned ==
    silenced.by = "trader" => silenced.since < Forgotten

=============================================================================
