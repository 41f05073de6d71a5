-------------------------------- MODULE Relay --------------------------------
(***************************************************************************)
(* What a relayed TCP session promises to its two ends: two independent    *)
(* byte streams, "up" from the client to the server and "down" from the    *)
(* server to the client.  A byte is its position in its stream.            *)
(***************************************************************************)
EXTENDS Naturals, Sequences

VARIABLES
  sent,     \* bytes the source has handed over
  ended,    \* the source has ended its stream
  got,      \* bytes the sink has received, in the order in which it saw them
  saw,      \* what the sink sees behind them: "open", "eof" or "cut"
  damaged,  \* the relay has lost bytes of the stream
  broken    \* the relay was told to break the stream off, or has waited long enough

relayVars == <<sent, ended, got, saw, damaged, broken>>
Dir == {"up", "down"}

\* The first n bytes of a stream.
Stream(n) == [i \in 1..n |-> i]

Init ==
  /\ sent = [d \in Dir |-> 0] /\ ended = [d \in Dir |-> FALSE]
  /\ got = [d \in Dir |-> <<>>] /\ saw = [d \in Dir |-> "open"]
  /\ damaged = [d \in Dir |-> FALSE] /\ broken = [d \in Dir |-> FALSE]

Same(d) ==
  /\ sent'[d] = sent[d] /\ ended'[d] = ended[d] /\ got'[d] = got[d]
  /\ saw'[d] = saw[d] /\ damaged'[d] = damaged[d] /\ broken'[d] = broken[d]

Send(d) ==
  /\ ~ended[d] /\ sent'[d] = sent[d] + 1
  /\ ended'[d] = ended[d] /\ got'[d] = got[d]
  /\ saw'[d] = saw[d] /\ damaged'[d] = damaged[d] /\ broken'[d] = broken[d]

EndStream(d) ==
  /\ ~ended[d] /\ ended'[d]
  /\ sent'[d] = sent[d] /\ got'[d] = got[d]
  /\ saw'[d] \in {saw[d], "cut"} /\ damaged'[d] = damaged[d] /\ broken'[d] = broken[d]

\* The next bytes, none skipped or repeated; of a damaged stream bytes may be missing,
\* but none comes twice or before an earlier one.
Deliver(d) ==
  /\ saw[d] = "open"
  /\ Len(got'[d]) > Len(got[d])
  /\ SubSeq(got'[d], 1, Len(got[d])) = got[d]
  /\ \A i \in DOMAIN got'[d] : got'[d][i] \in 1..sent[d]
  /\ \A i \in 2..Len(got'[d]) : got'[d][i - 1] < got'[d][i]
  /\ damaged[d] \/ got'[d] = Stream(Len(got'[d]))
  /\ sent'[d] = sent[d] /\ ended'[d] = ended[d]
  /\ saw'[d] = saw[d] /\ damaged'[d] = damaged[d] /\ broken'[d] = broken[d]

\* An orderly end is seen only of a stream that has ended and arrived whole, or that was
\* broken off.
SeeEof(d) ==
  /\ saw[d] = "open" /\ saw'[d] = "eof"
  /\ broken[d] \/ (ended[d] /\ got[d] = Stream(sent[d]))
  /\ sent'[d] = sent[d] /\ ended'[d] = ended[d] /\ got'[d] = got[d]
  /\ damaged'[d] = damaged[d] /\ broken'[d] = broken[d]

Cut(d) ==
  /\ saw[d] = "open" /\ saw'[d] = "cut"
  /\ sent'[d] = sent[d] /\ ended'[d] = ended[d] /\ got'[d] = got[d]
  /\ damaged'[d] = damaged[d] /\ broken'[d] = broken[d]

Damage(d) ==
  /\ ~damaged[d] /\ damaged'[d]
  /\ sent'[d] = sent[d] /\ ended'[d] = ended[d] /\ got'[d] = got[d]
  /\ saw'[d] \in {saw[d], "cut"} /\ broken'[d] = broken[d]

\* It may also be the end of the source that makes the relay break off.
BreakOff(d) ==
  /\ ~broken[d] /\ broken'[d]
  /\ ended'[d] \in {ended[d], TRUE}
  /\ sent'[d] = sent[d] /\ got'[d] = got[d]
  /\ saw'[d] = saw[d] /\ damaged'[d] = damaged[d]

Step(d) == \/ Send(d) \/ EndStream(d) \/ Deliver(d) \/ SeeEof(d) \/ Cut(d) \/ Damage(d)
           \/ BreakOff(d)

Next == \A d \in Dir : Step(d) \/ Same(d)

Spec == Init /\ [][Next]_relayVars
=============================================================================
