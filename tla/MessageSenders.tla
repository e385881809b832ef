--------------------------- MODULE MessageSenders ---------------------------
(***************************************************************************)
(* Carrying one alert to its destination: the egress policy, the look-up   *)
(* whose answers are vetted and pinned for the connection, the providers   *)
(* that are posted to over HTTP, and mail, which is a conversation with    *)
(* each pinned address in turn until one settles it.  What a name resolves *)
(* to may change at any time; servers answer as they like.                 *)
(* An address is a number of two bytes, narrowed to ByteBits each.         *)
(***************************************************************************)
EXTENDS Naturals, Sequences, FiniteSets

CONSTANTS
    ByteBits,      \* bits of a byte (8 in the code)
    NeverRanges,   \* by family: ranges no policy can open (NEVER_V4, NEVER_V6)
    SoftRanges,    \* by family: ranges a policy may open
    GlobalRange,   \* GLOBAL_V6
    AllowHttp, AllowedHosts, AllowedRanges,   \* the operator's egress policy
    Settings,      \* destinations' settings: kind, scheme, shape, host, implicit TLS
    DnsAnswers,    \* what a look-up may return
    Recipients,    \* number of mail recipients
    MaxTurns,      \* bound: changes of what the name resolves to
    MaxTries       \* bound: attempts at one delivery

\* Powers of two, the widths of masks.
Power[k \in 0..2 * ByteBits] == IF k = 0 THEN 1 ELSE 2 * Power[k - 1]

Families == {"v4", "v6"}
AddressSet == [family : Families \cup {"mapped", "unreadable"}, n : 0..Power[2 * ByteBits] - 1]
RangeSet == [base : 0..Power[2 * ByteBits] - 1, bits : 0..2 * ByteBits]
SenderKinds == {"telegram", "webhook", "discord", "slack", "teams", "gotify", "ntfy", "resend"}

\* What the constants may be: every address and range fits in two bytes, a mail
\* server is never named with http.
SendConstants ==
    /\ {ByteBits, Recipients, MaxTurns, MaxTries} \subseteq Nat /\ ByteBits > 0 /\ Recipients > 0
    /\ {NeverRanges, SoftRanges, AllowedRanges} \subseteq [Families -> SUBSET RangeSet] /\ GlobalRange \in RangeSet
    /\ DnsAnswers \subseteq Seq(AddressSet)
    /\ \A c \in Settings :
          /\ c.kind \in SenderKinds \cup {"email"} /\ (c.kind = "email" => c.scheme # "http")
          /\ c.host.address \in AddressSet /\ c.implicit \in BOOLEAN
ASSUME SendAssumption == SendConstants

VARIABLES
    dns,        \* what the destination's name resolves to now
    send,       \* the attempt under way; ended: history, the stage of a conversation that settled it
    contacted,  \* history: connections opened by this delivery
    taken,      \* history: addresses whose server took the mail in this attempt
    turns

sendVars == <<dns, send, contacted, taken, turns>>

-----------------------------------------------------------------------------
Bytes(n) == <<n \div Power[ByteBits], n % Power[ByteBits]>>

\* within: byte by byte, the last one under a mask of the bits that remain.
Within(n, limit) ==
    \A i \in 1..2 :
        LET width == IF limit.bits >= ByteBits * i THEN ByteBits ELSE limit.bits % ByteBits
            mask == Power[ByteBits - width]
        IN  limit.bits > ByteBits * (i - 1)
              => Bytes(n)[i] \div mask = Bytes(limit.base)[i] \div mask

\* normalised: a v4 address written as a v6 one is judged as v4.
FamilyOf(address) == IF address.family = "mapped" THEN "v4" ELSE address.family
InSome(address, ranges) == \E limit \in ranges : Within(address.n, limit)
Never(address) == InSome(address, NeverRanges[FamilyOf(address)])
SoftDeny(address) ==
    \/ InSome(address, SoftRanges[FamilyOf(address)])
    \/ FamilyOf(address) = "v6" /\ ~Within(address.n, GlobalRange)

\* verifyAddress, hostIsAllowed
HostIsAllowed(host) == host.name \in AllowedHosts
Named(address, host) == HostIsAllowed(host) \/ InSome(address, AllowedRanges[FamilyOf(address)])
VerifyAddress(address, host) ==
    address.family # "unreadable" /\ ~Never(address) /\ (SoftDeny(address) => Named(address, host))

\* verifyDestinationUrl
VerifyDestinationUrl(c) ==
    /\ c.shape = "plain"
    /\ c.host.literal => VerifyAddress(c.host.address, c.host)
    /\ (~c.host.literal /\ c.host.local) => HostIsAllowed(c.host)
    /\ c.scheme = "http" =>
         AllowHttp /\ (HostIsAllowed(c.host) \/ (c.host.literal /\ Named(c.host.address, c.host)))

\* resolvePinned: every answer must be allowed.
ResolvePinned(c) ==
    LET found == IF c.host.literal THEN <<c.host.address>> ELSE dns
    IN  [pinned |-> found # <<>> /\ \A i \in DOMAIN found : VerifyAddress(found[i], c.host),
         addresses |-> found]

-----------------------------------------------------------------------------
\* classifyHttpStatus; "quota" is a 429 that says the quota is spent.
Statuses == {"2xx", "410", "429", "quota", "4xx", "5xx"}
ByStatus ==
    [status \in Statuses |->
        CASE status = "2xx" -> "delivered"
          [] status \in {"429", "quota", "5xx"} -> "retryable"
          [] status \in {"4xx", "410"} -> "terminal"]

\* classifyTelegramReply: only the codes it names are final; what else it may
\* answer is tried again, as after a lost connection.
ClassifyTelegramReply == [ByStatus EXCEPT !["410"] = "retryable"]
\* classifyResendReply: a spent quota is final.
ClassifyResendReply == [ByStatus EXCEPT !["quota"] = "terminal"]

\* What each provider is posted to, its own fixed address or the settings',
\* and how its answer is read.
DeliverWebhook == [fixed |-> FALSE, reply |-> ByStatus]
DeliverIncoming == [fixed |-> FALSE, reply |-> ByStatus]
DeliverPush == [fixed |-> FALSE, reply |-> ByStatus]
DeliverTelegram == [fixed |-> TRUE, reply |-> ClassifyTelegramReply]
DeliverResend == [fixed |-> TRUE, reply |-> ClassifyResendReply]
SenderFor(c) ==
    CASE c.kind = "telegram" -> DeliverTelegram
      [] c.kind = "webhook" -> DeliverWebhook
      [] c.kind \in {"discord", "slack", "teams"} -> DeliverIncoming
      [] c.kind \in {"gotify", "ntfy"} -> DeliverPush
      [] c.kind = "resend" -> DeliverResend
IsMail(c) == c.kind = "email"
UrlIsVetted(c) == IF IsMail(c) THEN TRUE ELSE SenderFor(c).fixed \/ VerifyDestinationUrl(c)

NoSend == [pc |-> "idle", tries |-> 0, c |-> [kind |-> "none"], pins |-> <<>>, at |-> 0,
           stage |-> "none", tls |-> FALSE, asked |-> 0, refused |-> 0, outcome |-> "none", ended |-> "none"]
Settled(outcome) ==
    send' = [send EXCEPT !.pc = "settled", !.outcome = outcome, !.stage = "none", !.ended = send.stage]

\* dispatchTo: settings that cannot be opened or read are refused for good.
Dispatch ==
    /\ send.pc = "idle"
    /\ contacted' = {} /\ taken' = {}
    /\ \E c \in Settings :
         \/ send' = [NoSend EXCEPT !.pc = "resolve", !.tries = 1, !.c = c]
         \/ send' = [NoSend EXCEPT !.pc = "settled", !.c = c, !.outcome = "terminal"]
    /\ UNCHANGED <<dns, turns>>

\* The job tries a retryable delivery again; nothing is kept from before.
TryAgain ==
    /\ send.pc = "settled" /\ send.outcome = "retryable" /\ send.tries < MaxTries
    /\ send' = [NoSend EXCEPT !.pc = "resolve", !.tries = send.tries + 1, !.c = send.c]
    /\ taken' = {}
    /\ UNCHANGED <<dns, contacted, turns>>

\* sendPinned and deliverEmail up to the connection: the address is vetted,
\* looked up before the deadline, and plain HTTP is for named addresses only.
PlainIsNamed(c, pins) == c.scheme = "http" => \A i \in DOMAIN pins : Named(pins[i], c.host)
Resolve ==
    LET c == send.c
        pin == ResolvePinned(c)
    IN  /\ send.pc = "resolve"
        /\ UNCHANGED <<dns, contacted, taken, turns>>
        /\ \/ ~UrlIsVetted(c) /\ Settled("terminal")
           \/ /\ UrlIsVetted(c)
              /\ IF pin.pinned /\ (IsMail(c) \/ PlainIsNamed(c, pin.addresses))
                   THEN send' = [send EXCEPT !.pc = "connect", !.pins = pin.addresses, !.at = 1]
                   ELSE Settled("terminal")
           \/ ~IsMail(c) /\ UrlIsVetted(c) /\ Settled("retryable")

\* Mutation of AddressFor: the connection looks the name up for itself.
AddressForAnew(i) == IF send.c.host.literal \/ dns = <<>> THEN send.pins[i] ELSE dns[1]

\* pinnedLookup, openPinned
AddressFor(i) == send.pins[i]
Contact(i) == contacted' = contacted \cup {[address |-> AddressFor(i), scheme |-> send.c.scheme]}

\* attempt: one of the pinned addresses is posted to.
Post ==
    /\ send.pc = "connect" /\ ~IsMail(send.c)
    /\ \E i \in DOMAIN send.pins : Contact(i)
    /\ \/ \E status \in Statuses : Settled(SenderFor(send.c).reply[status])
       \/ Settled("retryable")
    /\ UNCHANGED <<dns, taken, turns>>

-----------------------------------------------------------------------------
\* Mail.  The stages of a conversation; a port without implicit TLS starts in
\* the clear and must be upgraded.
NextStage(stage) ==
    CASE stage = "greeting" -> "hello"
      [] stage = "hello" -> IF send.tls THEN "auth" ELSE "starttls"
      [] stage = "starttls" -> "hello"
      [] stage = "auth" -> "from"
      [] stage = "from" -> "to"
      [] stage = "to" -> "data"
      [] stage = "data" -> "body"

\* tryNextAddress
NextAddress(outcome) ==
    IF send.at < Len(send.pins)
      THEN send' = [send EXCEPT !.at = @ + 1, !.stage = "none", !.tls = FALSE, !.asked = 0, !.refused = 0]
      ELSE Settled(outcome)

\* openPinned, and upgrade on the port that is TLS from the start.
MailOpens ==
    /\ send.pc = "connect" /\ IsMail(send.c) /\ send.stage = "none"
    /\ Contact(send.at)
    /\ \/ send' = [send EXCEPT !.stage = "greeting", !.tls = send.c.implicit]
       \/ NextAddress("retryable")
    /\ UNCHANGED <<dns, taken, turns>>

\* A positive answer: on to the next stage; STARTTLS is followed by upgrade.
Stages == {"greeting", "hello", "starttls", "auth", "from", "to", "data", "body"}
Talking(stage) == send.pc = "connect" /\ IsMail(send.c) /\ send.stage = stage
Positive(stage) ==
    /\ Talking(stage) /\ stage \notin {"to", "body"}
    /\ send' = [send EXCEPT !.stage = NextStage(stage), !.tls = @ \/ stage = "starttls"]
    /\ UNCHANGED <<dns, contacted, taken, turns>>

\* classifySmtpReply; "2xx" are the codes from 200 to 399, "5xx" what is neither those nor a 4xx.
Codes == {"2xx", "4xx", "5xx"}
ClassifySmtpReply == [code \in Codes |-> CASE code = "2xx" -> "delivered"
                                           [] code = "4xx" -> "retryable"
                                           [] code = "5xx" -> "terminal"]

\* byReply: transient answers pass to the next address, others settle it.
ByReply(code) ==
    IF code = "4xx" THEN NextAddress(ClassifySmtpReply[code]) ELSE Settled(ClassifySmtpReply[code])

\* An answer that is not the one asked for.  AUTH LOGIN and DATA ask for one code, so that another
\* success is such an answer too: it is read as a delivery, of a message never written.
Negative(stage, code) ==
    /\ Talking(stage) /\ stage # "to"
    /\ code = "2xx" => stage \in {"auth", "data"}
    /\ ByReply(code)
    /\ UNCHANGED <<dns, contacted, taken, turns>>

\* No STARTTLS offered, bytes slipped in before the upgrade, or no sign-in we
\* support: refused.
Unusable ==
    /\ \E stage \in {"hello", "starttls"} : Talking(stage)
    /\ Settled("terminal")
    /\ UNCHANGED <<dns, contacted, taken, turns>>

\* RCPT TO for each recipient; some may be refused.
Recipient(accepted) ==
    /\ Talking("to") /\ send.asked < Recipients
    /\ send' = [send EXCEPT !.asked = @ + 1, !.refused = IF accepted THEN @ ELSE @ + 1]
    /\ UNCHANGED <<dns, contacted, taken, turns>>
RecipientsAsked(code) ==
    /\ Talking("to") /\ send.asked = Recipients
    /\ IF send.refused = Recipients THEN ByReply(code)
       ELSE send' = [send EXCEPT !.stage = "data"]
    /\ UNCHANGED <<dns, contacted, taken, turns>>

\* The whole message was taken: delivered, or terminal when a recipient was
\* refused, since another try would reach the others twice.
BodyAccepted ==
    /\ Talking("body")
    /\ taken' = taken \cup {send.at}
    /\ Settled(IF send.refused = 0 THEN "delivered" ELSE "terminal")
    /\ UNCHANGED <<dns, contacted, turns>>

\* Mutation of Lost: also a message that was written moves to the next address.
LostAnywhere(stage) ==
    /\ Talking(stage)
    /\ taken' \in IF stage = "body" THEN {taken, taken \cup {send.at}} ELSE {taken}
    /\ NextAddress("retryable")
    /\ UNCHANGED <<dns, contacted, turns>>

\* converse's catch: the line is lost or too slow.  Once the message was
\* written the server may have taken it, so no other address is tried.
Lost(stage) ==
    /\ Talking(stage)
    /\ taken' \in IF stage = "body" THEN {taken, taken \cup {send.at}} ELSE {taken}
    /\ IF stage = "body" THEN Settled("retryable") ELSE NextAddress("retryable")
    /\ UNCHANGED <<dns, contacted, turns>>

\* The delivery is over.
Finish ==
    /\ send.pc = "settled" /\ (send.outcome = "retryable" => send.tries = MaxTries)
    /\ send' = NoSend
    /\ UNCHANGED <<dns, contacted, taken, turns>>

DnsTurns ==
    /\ turns < MaxTurns /\ turns' = turns + 1
    /\ dns' \in DnsAnswers \ {dns}
    /\ UNCHANGED <<send, contacted, taken>>

-----------------------------------------------------------------------------
SendInit ==
    /\ dns = <<>> /\ send = NoSend /\ contacted = {} /\ taken = {} /\ turns = 0

SendNext ==
    \/ Dispatch \/ DnsTurns
    \/ TryAgain \/ Resolve \/ Post \/ MailOpens \/ Unusable \/ BodyAccepted \/ Finish
    \/ \E stage \in Stages : Positive(stage) \/ Lost(stage) \/ \E code \in Codes : Negative(stage, code)
    \/ \E accepted \in BOOLEAN : Recipient(accepted)
    \/ \E code \in {"4xx", "5xx"} : RecipientsAsked(code)

SendSpec == SendInit /\ [][SendNext]_sendVars

\* By arithmetic, where the code compares byte by byte: a range is the block of
\* addresses that share its first bits.
InBlock(n, limit) ==
    LET size == Power[2 * ByteBits - limit.bits] IN n \div size = limit.base \div size
Opened(address, host) ==
    host.name \in AllowedHosts \/ \E limit \in AllowedRanges[FamilyOf(address)] : InBlock(address.n, limit)

\* No connection is ever made to an address the policy keeps off, whatever a
\* name resolves to between the check and the connection and however the
\* address is written; plain HTTP reaches only addresses the operator named
\* (sendPinned, resolvePinned, verifyAddress).
OnlyVettedAddresses ==
    \A k \in contacted :
        LET family == FamilyOf(k.address)
            opened == Opened(k.address, send.c.host)
        IN  send.pc # "idle" =>
            /\ \A limit \in NeverRanges[family] : ~InBlock(k.address.n, limit)
            /\ (\E limit \in SoftRanges[family] : InBlock(k.address.n, limit)) => opened
            /\ (family = "v6" /\ ~InBlock(k.address.n, GlobalRange)) => opened
            /\ k.scheme = "http" => opened

\* One attempt hands the message to at most one server, also when a line is
\* lost just after it was written, and the sign-in is never sent in the clear.
\* Mail counts as delivered when a server took the whole of it for every
\* recipient, or when one answered AUTH LOGIN or DATA with a success it was not
\* asked for: then none took it (converse, byReply, deliverEmail).
OneCopyPerAttempt ==
    /\ Cardinality(taken) <= 1
    /\ send.stage \in {"auth", "from", "to", "data", "body"} => send.tls
    /\ send.outcome = "delivered" /\ IsMail(send.c) =>
          IF send.ended = "body" THEN taken # {} /\ send.refused = 0
                                 ELSE taken = {} /\ send.ended \in {"auth", "data"}

\* An attempt to send (dispatch) reaches only addresses that were vetted and
\* hands over one copy, under encryption where it signs in.
SendsAreSafe == OnlyVettedAddresses /\ OneCopyPerAttempt
=============================================================================
