------------------------------- MODULE Payloads -------------------------------
(* What happens to a value on its way: a client starts a workflow, the workflow an         *)
(* activity or, through Nexus, another workflow. Codecs wrap the payloads (encryption,     *)
(* snappycompress, codec-server, grpc-proxy), and a value of the context travels in a      *)
(* header beside them (ctxpropagation, encryption, nexus-context-propagation).             *)
EXTENDS Naturals, Sequences

VARIABLES sample,   \* which program
          ctx,      \* the context value of each hop reached
          header,   \* in flight to the next hop
          payload,  \* the argument in flight: its layers, outermost first
          stored,   \* the payloads the server has stored
          read      \* arguments as each hop has got them, and as the web UI has

vars == <<sample, ctx, header, payload, stored, read>>

Samples == {"encryption", "snappycompress", "codec-server", "grpc-proxy", "ctxpropagation", "nexus-context-propagation"}
Absent == "absent"                 \* no value in the context, no header
Zero == "zero"                     \* the value of the zero Values, with an empty KeyID
DefaultKey == Zero                 \* DataConverterOptions without a KeyID
Propagates == sample \in {"encryption", "ctxpropagation", "nexus-context-propagation"}

Init ==
  /\ sample \in Samples
  /\ \E v \in {Absent, "test"} : ctx = <<v>>      \* the client may set a value
  /\ header = "none" /\ payload = <<>> /\ stored = {} /\ read = <<>>

----------------------------------------------------------------------------
(* Codecs: a layer each, the last of the chain first. A codec takes off its own layer     *)
(* and leaves other payloads alone. The key of a layer of encryption is named in it.      *)
KeyID(v) == IF v = Absent THEN DefaultKey ELSE v

EncryptionCodecs(v) == <<[codec |-> "encrypted", key |-> KeyID(v)], [codec |-> "zlib", key |-> Zero]>>
SnappyCodec == [codec |-> "snappy", key |-> Zero]

Encode(codecs, p) == codecs \o p
Decode(codec, p) == IF p /= <<>> /\ p[1].codec = codec THEN Tail(p) ELSE p

Codecs(v) == CASE sample = "encryption" -> EncryptionCodecs(v)
               [] sample \in {"snappycompress", "codec-server", "grpc-proxy"} -> <<SnappyCodec>>
               [] OTHER -> <<>>
DecodeAll(p) == IF sample = "encryption" THEN Decode("zlib", Decode("encrypted", p)) ELSE Decode("snappy", p)

----------------------------------------------------------------------------
(* The header. Inject and InjectFromWorkflow write the value, a missing one as null, and  *)
(* Extract reads null as the zero value: a hop after the first has a value in any case.   *)
Inject(v) == IF ~Propagates THEN "none" ELSE IF v = Absent THEN "null" ELSE v
Extract(h) == CASE h = "none" -> Absent [] h = "null" -> Zero [] OTHER -> h

(* Mutant of ExecuteNexusOperation: the value is read and not put into the header. *)
ForgottenHeader(v) == "none"

(* nexus-context-propagation: an interceptor puts the value into a Nexus header if there  *)
(* is one; another takes it out and the handler's client injects it once more.            *)
ExecuteNexusOperation(v) == IF v = Absent THEN "none" ELSE v
StartOperation(h) == Inject(Extract(h))

(* Three hops: the client, the workflow, the activity or the workflow behind Nexus.       *)
Here == ctx[Len(ctx)]
Behind == IF sample = "nexus-context-propagation" /\ Len(ctx) = 2 THEN StartOperation(ExecuteNexusOperation(Here))
          ELSE Inject(Here)

(* A call to the next hop: the data converter knows the value of the context it is used   *)
(* in. The proxy of grpc-proxy encodes what passes through it.                            *)
Call ==
  /\ payload = <<>> /\ header = "none" /\ Len(ctx) <= 2 /\ Len(read) = Len(ctx) - 1
  /\ payload' = Encode(Codecs(Here), <<[codec |-> "plain", key |-> Zero]>>)
  /\ stored' = stored \union {payload'}
  /\ header' = Behind
  /\ UNCHANGED <<sample, ctx, read>>

(* The next hop has the header in its context and the argument decoded. *)
Arrive ==
  /\ payload /= <<>>
  /\ ctx' = Append(ctx, Extract(header))
  /\ read' = Append(read, DecodeAll(payload))
  /\ payload' = <<>> /\ header' = "none"
  /\ UNCHANGED <<sample, stored>>

Progress == Call \/ Arrive
Next == Progress

----------------------------------------------------------------------------
(* Every hop reads the argument as it was written, the server never stores it plain where *)
(* there is a codec, and a value the client has set is in the context of every hop and    *)
(* names the key of every payload.                                                        *)
PayloadsArrive ==
  /\ \A i \in DOMAIN read : read[i] = <<[codec |-> "plain", key |-> Zero]>>
  /\ Codecs(Absent) /= <<>> => \A p \in stored : p[1].codec /= "plain"
  /\ Propagates /\ ctx[1] /= Absent => \A i \in DOMAIN ctx : ctx[i] = ctx[1]
  /\ sample = "encryption" => \A p \in stored : p[1].key = KeyID(ctx[1])

(* The inductive invariant: what is in flight is the argument in the codecs of the hop     *)
(* that sent it, with the header of that hop, and what the server has stored was sent by   *)
(* a hop with a key like the client's.                                                     *)
Plain == <<[codec |-> "plain", key |-> Zero]>>
Values == {Absent, Zero, "test"}

TypeOK ==
  /\ sample \in Samples
  /\ ctx \in Seq(Values) /\ ctx /= <<>> /\ ctx[1] \in {Absent, "test"}

ValueKept ==
  /\ Propagates /\ ctx[1] /= Absent => \A i \in DOMAIN ctx : ctx[i] = ctx[1]
  /\ sample = "encryption" => \A i \in DOMAIN ctx : KeyID(ctx[i]) = KeyID(ctx[1])

InFlight ==
  \/ payload = <<>> /\ header = "none"
  \/ payload = Encode(Codecs(Here), Plain) /\ header = Behind

IInv ==
  /\ TypeOK /\ ValueKept /\ InFlight
  /\ read \in Seq({Plain})
  /\ \A p \in stored : \E v \in Values :
       p = Encode(Codecs(v), Plain) /\ (sample = "encryption" => KeyID(v) = KeyID(ctx[1]))
===============================================================================
