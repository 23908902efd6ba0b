-------------------------- MODULE DirectoryProofs --------------------------
(* The safety of the directory protocol, for every number of clusters,       *)
(* lines, ways and pointers.  The inductive invariant IInv says that the     *)
(* entry of every line agrees with what every cluster has of it (Coherent,   *)
(* by way of the views of its parts), that no queue holds two messages of    *)
(* one line and type (Distinct) and which kinds go up and down (Directed).   *)
(* After a lemma for every action come the promises it implies.              *)
EXTENDS Directory, FiniteSetTheorems, SequenceTheorems, TLAPS

(***************************************************************************)
(* One cluster and one line: what the cluster holds of it, what is pending *)
(* there, the messages under way between it and the directory, and the     *)
(* directory entry of the line.  Sound says how these agree; one lemma for *)
(* each operation on either side says that it keeps them so.  They are the *)
(* steps of the proofs below, free of the queues and of the other clusters.*)
(***************************************************************************)

(* The locks that wait for readers, and for a writer, to answer.             *)
ReadLocks == {"EVICTION_LOCK_READ", "PENDING_WRITE"}
WriteLocks == {"PENDING_WB", "EVICTION_LOCK_WRITE", "PENDING_WRITE"}

(* A release that left before a broadcast came holds its answer back.        *)
HeldBack(m) == m.type = "RD_RELEASE_REQ" /\ m.poison
(* The cluster has a claim on the line to read it, or to write it: it holds  *)
(* the line, is being given it, or has yet to be heard giving it back.       *)
HoldsS(ca, m, rp, rs) ==
  \/ ca = "S"
  \/ "READ_REQ" \in rp /\ ~m.poison
  \/ m.type = "RD_RELEASE_REQ" /\ (m.acked => "RD_RELEASE_REQ" \in rs)
HoldsM(ca, m, rp, rs) ==
  \/ ca = "M"
  \/ "WRITE_REQ" \in rp /\ ~m.poison
  \/ m.type = "EVICT_REQ" /\ (m.acked => "EVICT_REQ" \in rs)

(* A probe, the answer being made out and the answer under way are one       *)
(* token: it is in one place at a time.                                      *)
OnePlace(m, a, pr, an) ==
  /\ pr # {} => a = None /\ an = {} /\ ~HeldBack(m)
  /\ a # None => an = {} /\ ~HeldBack(m)
  /\ an # {} => ~HeldBack(m)
  /\ \A t, u \in pr : t = u
  /\ \A t, u \in an : t = u

Has(a, an, t) == a = t \/ t \in an
(* The token of a recall of readers, of a writer, and of a broadcast.        *)
ReadToken(a, pr, an) ==
  \/ "INVALIDATE_PROBE" \in pr
  \/ Has(a, an, "INVALIDATE_ACK") \/ Has(a, an, "INVALIDATE_NAK")
WriteToken(a, pr, an) ==
  \/ "WR_RELEASE_PROBE" \in pr
  \/ Has(a, an, "WR_RELEASE_ACK") \/ Has(a, an, "WR_RELEASE_NAK")
BcastToken(m, a, pr, an) ==
  "BCAST_PROBE" \in pr \/ Has(a, an, "BCAST_ACK") \/ HeldBack(m)

(* The token says the line has been given up, or that there was nothing to   *)
(* give up.                                                                  *)
Acked(a, an) ==
  \/ Has(a, an, "INVALIDATE_ACK") \/ Has(a, an, "WR_RELEASE_ACK")
  \/ Has(a, an, "BCAST_ACK")
Refused(a, an) ==
  Has(a, an, "INVALIDATE_NAK") \/ Has(a, an, "WR_RELEASE_NAK")

(* What is under way for a cluster and a line answers what is pending there. *)
Matched(m, rq, rp, rs, rc) ==
  /\ \A t \in rq \cup rp : m.type = t /\ m.acked
  /\ \A t \in rs \cup rc : m.type = t /\ m.acked
  /\ rq \cap rp = {} /\ rs \cap rc = {}
  /\ m.poison => m.acked /\ m.type \in {"READ_REQ", "RD_RELEASE_REQ"}

(* What the directory entry of the line says of the cluster.                 *)
Known(c, e, ca, m, a, rp, pr, an, rs) ==
  /\ ReadToken(a, pr, an) => c \in e.sharers /\ e.state \in ReadLocks
  /\ WriteToken(a, pr, an) => e.sharers = {c} /\ e.state \in WriteLocks
  /\ BcastToken(m, a, pr, an) => c \in e.sharers /\ e.state \in BcastStates
  /\ HoldsS(ca, m, rp, rs) =>
        c \in e.sharers /\ e.state \in ReadLocks \cup BcastStates \cup {"READ_SHARED"}
  /\ HoldsM(ca, m, rp, rs) =>
        e.sharers = {c} /\ e.state \in WriteLocks \cup {"WRITE_PRIV"}

(* Who is probed does not hold the line the other way; who has acknowledged  *)
(* holds nothing; who has refused is not going to be given the line; of a    *)
(* noted cluster one message is left to come.                                *)
Settled(c, e, ca, m, a, rp, pr, an, rs) ==
  /\ ReadToken(a, pr, an) => ~HoldsM(ca, m, rp, rs)
  /\ WriteToken(a, pr, an) => ~HoldsS(ca, m, rp, rs)
  /\ Acked(a, an) =>
       ~HoldsS(ca, m, rp, rs) /\ ~HoldsM(ca, m, rp, rs)
  /\ Refused(a, an) =>
       rp = {} \/ m.nak \/ m.poison
  /\ c \in e.sharers /\ c \in e.nakWaitlist =>
       \/ ~HoldsS(ca, m, rp, rs) /\ ~HoldsM(ca, m, rp, rs)
       \/ ~ReadToken(a, pr, an) /\ ~WriteToken(a, pr, an)

(* Everything there is of one line between one cluster and the directory     *)
(* agrees: the entry e, the copy ca, the MSHR m, the answer a being made     *)
(* out, and on their way requests rq, replies rp, probes pr (one that has    *)
(* not seen a reply: bl), answers an, releases rs and replies to releases    *)
(* rc.                                                                       *)
Sound(c, e, ca, m, a, rq, rp, pr, bl, an, rs, rc) ==
  /\ OnePlace(m, a, pr, an)
  /\ Matched(m, rq, rp, rs, rc)
  /\ Known(c, e, ca, m, a, rp, pr, an, rs)
  /\ Settled(c, e, ca, m, a, rp, pr, an, rs)
  /\ bl => "BCAST_PROBE" \in pr /\ "READ_REQ" \notin rp
  /\ ca # "I" => m = NoMshr /\ a = None

(* The types of these views.                                                 *)
Typed(ca, m, a, rq, rp, pr, bl, an, rs, rc) ==
  /\ ca \in {"I", "S", "M"} /\ m \in Mshr /\ a \in Answers \cup {None}
  /\ rq \in SUBSET Demands /\ rp \in SUBSET Demands /\ pr \in SUBSET Probes
  /\ bl \in BOOLEAN /\ an \in SUBSET Answers
  /\ rs \in SUBSET Releases /\ rc \in SUBSET Releases

(* What the cluster holds or has under way after a step was held or under    *)
(* way before it, or agrees with it.                                         *)
LEMMA FewerClaims ==
  ASSUME NEW c, NEW e, NEW ca, NEW m, NEW a, NEW rq, NEW rp, NEW pr, NEW bl,
         NEW an, NEW rs, NEW rc,
         Typed(ca, m, a, rq, rp, pr, bl, an, rs, rc),
         Sound(c, e, ca, m, a, rq, rp, pr, bl, an, rs, rc),
         NEW ca2, NEW m2, NEW a2, NEW rq2, NEW rp2, NEW pr2, NEW bl2,
         NEW an2, NEW rs2, NEW rc2,
         OnePlace(m2, a2, pr2, an2), Matched(m2, rq2, rp2, rs2, rc2),
         ReadToken(a2, pr2, an2) => ReadToken(a, pr, an),
         WriteToken(a2, pr2, an2) => WriteToken(a, pr, an),
         BcastToken(m2, a2, pr2, an2) => BcastToken(m, a, pr, an),
         HoldsS(ca2, m2, rp2, rs2) => HoldsS(ca, m, rp, rs),
         HoldsM(ca2, m2, rp2, rs2) => HoldsM(ca, m, rp, rs),
         Acked(a2, an2) => ~HoldsS(ca2, m2, rp2, rs2) /\ ~HoldsM(ca2, m2, rp2, rs2),
         Refused(a2, an2) => rp2 = {} \/ m2.nak \/ m2.poison,
         bl2 => "BCAST_PROBE" \in pr2 /\ "READ_REQ" \notin rp2,
         ca2 # "I" => m2 = NoMshr /\ a2 = None
  PROVE  Sound(c, e, ca2, m2, a2, rq2, rp2, pr2, bl2, an2, rs2, rc2)
BY DEF Sound, Known, Settled

(* The entry of a request a recall has found, and of a store whose release   *)
(* is over.                                                                  *)
Marked(m, n) ==
  /\ n.type = m.type /\ n.acked = m.acked /\ n.poison = m.poison
  /\ m.type \in Demands => n.nak
Restarted(n) ==
  n.type \in {None, "WRITE_REQ"} /\ n.acked = FALSE /\ n.poison = FALSE

(* A request is made out for a line the cluster has nothing of.              *)
LEMMA MissSound ==
  ASSUME NEW c, NEW e, NEW ca, NEW m, NEW a, NEW rq, NEW rp, NEW pr, NEW bl,
         NEW an, NEW rs, NEW rc,
         Typed(ca, m, a, rq, rp, pr, bl, an, rs, rc),
         Sound(c, e, ca, m, a, rq, rp, pr, bl, an, rs, rc),
         ca = "I",
         m = NoMshr,
         a = None,
         NEW n,
         n.type \in Demands,
         n.acked = FALSE,
         n.poison = FALSE
  PROVE  Sound(c, e, ca, n, a, rq, rp, pr, bl, an, rs, rc)
<1>0. /\ NoMshr.type = None /\ NoMshr.acked = FALSE /\ NoMshr.poison = FALSE
      /\ None = "none"
  BY DEF NoMshr, None
<1>1. n.type \in {"READ_REQ", "WRITE_REQ"}
  BY DEF Demands
<1>t. /\ ReadToken(a, pr, an) => ReadToken(a, pr, an)
      /\ WriteToken(a, pr, an) => WriteToken(a, pr, an)
      /\ BcastToken(n, a, pr, an) => BcastToken(m, a, pr, an)
  BY <1>0, <1>1 DEF ReadToken, WriteToken, BcastToken, Acked, Refused, Has,
     HeldBack, None, Ack, Nak
<1>h. /\ HoldsS(ca, n, rp, rs) => HoldsS(ca, m, rp, rs)
      /\ HoldsM(ca, n, rp, rs) => HoldsM(ca, m, rp, rs)
  BY <1>0, <1>1 DEF HoldsS, HoldsM, Sound, Matched, None
<1>o. OnePlace(n, a, pr, an)
  BY <1>0, <1>1 DEF Sound, OnePlace, HeldBack, None
<1>m. Matched(n, rq, rp, rs, rc)
  BY <1>0, <1>1 DEF Sound, Matched, HeldBack, OnePlace, None
<1>a. Acked(a, an) =>
        ~HoldsS(ca, n, rp, rs) /\ ~HoldsM(ca, n, rp, rs)
  BY <1>0, <1>1 DEF ReadToken, WriteToken, BcastToken, Acked, Refused, Has,
     HeldBack, Sound, Settled, HoldsS, HoldsM, Matched, None, Ack, Nak
<1>n. Refused(a, an) => (\A u \in rp : FALSE) \/ (n).nak \/ (n).poison
  BY <1>0, <1>1 DEF ReadToken, WriteToken, BcastToken, Acked, Refused, Has,
     HeldBack, Sound, Settled, Matched, None, Ack, Nak
<1>r. /\ bl => "BCAST_PROBE" \in pr /\ "READ_REQ" \notin rp
      /\ ca # "I" => n = NoMshr /\ a = None
  BY <1>0, <1>1 DEF Sound, OnePlace, Matched
<1> QED
  BY <1>t, <1>h, <1>o, <1>m, <1>a, <1>n, <1>r DEF Sound, Known, Settled

(* The cluster drops its copy and makes a release out.                       *)
LEMMA GiveBackSound ==
  ASSUME NEW c, NEW e, NEW ca, NEW m, NEW a, NEW rq, NEW rp, NEW pr, NEW bl,
         NEW an, NEW rs, NEW rc,
         Typed(ca, m, a, rq, rp, pr, bl, an, rs, rc),
         Sound(c, e, ca, m, a, rq, rp, pr, bl, an, rs, rc),
         ca # "I",
         NEW n,
         n.type = IF ca = "M" THEN "EVICT_REQ" ELSE "RD_RELEASE_REQ",
         n.acked = FALSE,
         n.poison = FALSE
  PROVE  Sound(c, e, "I", n, a, rq, rp, pr, bl, an, rs, rc)
<1>0. /\ NoMshr.type = None /\ NoMshr.acked = FALSE /\ NoMshr.poison = FALSE
      /\ None = "none"
  BY DEF NoMshr, None
<1>1. /\ m = NoMshr /\ a = None
      /\ ca \in {"S", "M"}
  BY DEF Sound, Typed
<1>2. \A u \in rq \cup rp \cup rs \cup rc : FALSE
  BY <1>0, <1>1 DEF Sound, Matched
<1>t. /\ ReadToken(a, pr, an) => ReadToken(a, pr, an)
      /\ WriteToken(a, pr, an) => WriteToken(a, pr, an)
      /\ BcastToken(n, a, pr, an) => BcastToken(m, a, pr, an)
  BY <1>0, <1>1, <1>2 DEF ReadToken, WriteToken, BcastToken, Acked, Refused,
     Has, HeldBack, None, Ack, Nak
<1>h. /\ HoldsS("I", n, rp, rs) => HoldsS(ca, m, rp, rs)
      /\ HoldsM("I", n, rp, rs) => HoldsM(ca, m, rp, rs)
  BY <1>0, <1>1, <1>2 DEF HoldsS, HoldsM, Sound, Matched, None
<1>o. OnePlace(n, a, pr, an)
  BY <1>0, <1>1, <1>2 DEF Sound, OnePlace, HeldBack, None
<1>m. Matched(n, rq, rp, rs, rc)
  BY <1>0, <1>1, <1>2 DEF Sound, Matched, HeldBack, OnePlace, None
<1>a. Acked(a, an) =>
        ~HoldsS("I", n, rp, rs) /\ ~HoldsM("I", n, rp, rs)
  BY <1>0, <1>1, <1>2 DEF ReadToken, WriteToken, BcastToken, Acked, Refused,
     Has, HeldBack, Sound, Settled, HoldsS, HoldsM, Matched, None, Ack, Nak
<1>n. Refused(a, an) => (\A u \in rp : FALSE) \/ (n).nak \/ (n).poison
  BY <1>0, <1>1, <1>2 DEF ReadToken, WriteToken, BcastToken, Acked, Refused,
     Has, HeldBack, Sound, Settled, Matched, None, Ack, Nak
<1>r. /\ bl => "BCAST_PROBE" \in pr /\ "READ_REQ" \notin rp
      /\ "I" # "I" => n = NoMshr /\ a = None
  BY <1>0, <1>1, <1>2 DEF Sound, OnePlace, Matched
<1> QED
  BY <1>t, <1>h, <1>o, <1>m, <1>a, <1>n, <1>r DEF Sound, Known, Settled

(* The request leaves.  The probes it stamps become unseen.                  *)
LEMMA InjectDemandSound ==
  ASSUME NEW c, NEW e, NEW ca, NEW m, NEW a, NEW rq, NEW rp, NEW pr, NEW bl,
         NEW an, NEW rs, NEW rc,
         Typed(ca, m, a, rq, rp, pr, bl, an, rs, rc),
         Sound(c, e, ca, m, a, rq, rp, pr, bl, an, rs, rc),
         m.type \in Demands,
         ~m.acked,
         NEW n,
         n.type = m.type,
         n.acked,
         n.poison = m.poison,
         n.nak = m.nak,
         NEW bl2 \in BOOLEAN,
         bl2 => "BCAST_PROBE" \in pr
  PROVE  Sound(c, e, ca, n, a, rq \cup {m.type}, rp, pr, bl2, an, rs, rc)
<1>1. /\ m # NoMshr /\ m.type \in {"READ_REQ", "WRITE_REQ"}
  BY DEF Typed, Demands, NoMshr, None
<1>2. \A u \in rq \cup rp \cup rs \cup rc : FALSE
  BY DEF Sound, Matched
<1>t. /\ ReadToken(a, pr, an) => ReadToken(a, pr, an)
      /\ WriteToken(a, pr, an) => WriteToken(a, pr, an)
      /\ BcastToken(n, a, pr, an) => BcastToken(m, a, pr, an)
  BY <1>1, <1>2 DEF ReadToken, WriteToken, BcastToken, Acked, Refused, Has,
     HeldBack, None, Ack, Nak
<1>h. /\ HoldsS(ca, n, rp, rs) => HoldsS(ca, m, rp, rs)
      /\ HoldsM(ca, n, rp, rs) => HoldsM(ca, m, rp, rs)
  BY <1>1, <1>2 DEF HoldsS, HoldsM, Sound, Matched, None
<1>o. OnePlace(n, a, pr, an)
  BY <1>1, <1>2 DEF Sound, OnePlace, HeldBack, None
<1>m. Matched(n, rq \cup {m.type}, rp, rs, rc)
  BY <1>1, <1>2 DEF Sound, Matched, HeldBack, OnePlace, None
<1>a. Acked(a, an) =>
        ~HoldsS(ca, n, rp, rs) /\ ~HoldsM(ca, n, rp, rs)
  BY <1>1, <1>2 DEF ReadToken, WriteToken, BcastToken, Acked, Refused, Has,
     HeldBack, Sound, Settled, HoldsS, HoldsM, Matched, None, Ack, Nak
<1>n. Refused(a, an) => (\A u \in rp : FALSE) \/ (n).nak \/ (n).poison
  BY <1>1, <1>2 DEF ReadToken, WriteToken, BcastToken, Acked, Refused, Has,
     HeldBack, Sound, Settled, Matched, None, Ack, Nak
<1>r. /\ bl2 => "BCAST_PROBE" \in pr /\ "READ_REQ" \notin rp
      /\ ca # "I" => n = NoMshr /\ a = None
  BY <1>1, <1>2 DEF Sound, OnePlace, Matched
<1> QED
  BY <1>t, <1>h, <1>o, <1>m, <1>a, <1>n, <1>r DEF Sound, Known, Settled

(* The release leaves.                                                       *)
LEMMA InjectReleaseSound ==
  ASSUME NEW c, NEW e, NEW ca, NEW m, NEW a, NEW rq, NEW rp, NEW pr, NEW bl,
         NEW an, NEW rs, NEW rc,
         Typed(ca, m, a, rq, rp, pr, bl, an, rs, rc),
         Sound(c, e, ca, m, a, rq, rp, pr, bl, an, rs, rc),
         m.type \in Releases,
         ~m.acked,
         NEW n,
         n.type = m.type,
         n.acked,
         n.poison = m.poison,
         n.nak = m.nak
  PROVE  Sound(c, e, ca, n, a, rq, rp, pr, bl, an, rs \cup {m.type}, rc)
<1>1. /\ m # NoMshr /\ m.type \in {"RD_RELEASE_REQ", "EVICT_REQ"}
  BY DEF Typed, Releases, NoMshr, None
<1>2. \A u \in rq \cup rp \cup rs \cup rc : FALSE
  BY DEF Sound, Matched
<1>t. /\ ReadToken(a, pr, an) => ReadToken(a, pr, an)
      /\ WriteToken(a, pr, an) => WriteToken(a, pr, an)
      /\ BcastToken(n, a, pr, an) => BcastToken(m, a, pr, an)
  BY <1>1, <1>2 DEF ReadToken, WriteToken, BcastToken, Acked, Refused, Has,
     HeldBack, None, Ack, Nak
<1>h. /\ HoldsS(ca, n, rp, rs \cup {m.type}) => HoldsS(ca, m, rp, rs)
      /\ HoldsM(ca, n, rp, rs \cup {m.type}) => HoldsM(ca, m, rp, rs)
  BY <1>1, <1>2 DEF HoldsS, HoldsM, Sound, Matched, None
<1>o. OnePlace(n, a, pr, an)
  BY <1>1, <1>2 DEF Sound, OnePlace, HeldBack, None
<1>m. Matched(n, rq, rp, rs \cup {m.type}, rc)
  BY <1>1, <1>2 DEF Sound, Matched, HeldBack, OnePlace, None
<1>a. Acked(a, an) =>
        ~HoldsS(ca, n, rp, rs \cup {m.type}) /\ ~HoldsM(ca, n, rp, rs \cup {m.type})
  BY <1>1, <1>2 DEF ReadToken, WriteToken, BcastToken, Acked, Refused, Has,
     HeldBack, Sound, Settled, HoldsS, HoldsM, Matched, None, Ack, Nak
<1>n. Refused(a, an) => (\A u \in rp : FALSE) \/ (n).nak \/ (n).poison
  BY <1>1, <1>2 DEF ReadToken, WriteToken, BcastToken, Acked, Refused, Has,
     HeldBack, Sound, Settled, Matched, None, Ack, Nak
<1>r. /\ bl => "BCAST_PROBE" \in pr /\ "READ_REQ" \notin rp
      /\ ca # "I" => n = NoMshr /\ a = None
  BY <1>1, <1>2 DEF Sound, OnePlace, Matched
<1> QED
  BY <1>t, <1>h, <1>o, <1>m, <1>a, <1>n, <1>r DEF Sound, Known, Settled

(* The answer to a probe leaves.                                             *)
LEMMA InjectAnswerSound ==
  ASSUME NEW c, NEW e, NEW ca, NEW m, NEW a, NEW rq, NEW rp, NEW pr, NEW bl,
         NEW an, NEW rs, NEW rc,
         Typed(ca, m, a, rq, rp, pr, bl, an, rs, rc),
         Sound(c, e, ca, m, a, rq, rp, pr, bl, an, rs, rc),
         a # None
  PROVE  Sound(c, e, ca, m, None, rq, rp, pr, bl, an \cup {a}, rs, rc)
<1>1. a \notin {None} /\ \A u \in an \cup pr : FALSE
  BY DEF Sound, OnePlace
<1>t. /\ ReadToken(None, pr, an \cup {a}) => ReadToken(a, pr, an)
      /\ WriteToken(None, pr, an \cup {a}) => WriteToken(a, pr, an)
      /\ BcastToken(m, None, pr, an \cup {a}) => BcastToken(m, a, pr, an)
  BY <1>1 DEF ReadToken, WriteToken, BcastToken, Acked, Refused, Has, HeldBack,
     None, Ack, Nak
<1>h. /\ HoldsS(ca, m, rp, rs) => HoldsS(ca, m, rp, rs)
      /\ HoldsM(ca, m, rp, rs) => HoldsM(ca, m, rp, rs)
  BY <1>1 DEF HoldsS, HoldsM, Sound, Matched, None
<1>o. OnePlace(m, None, pr, an \cup {a})
  BY <1>1 DEF Sound, OnePlace, HeldBack, None
<1>m. Matched(m, rq, rp, rs, rc)
  BY <1>1 DEF Sound, Matched, HeldBack, OnePlace, None
<1>a. Acked(None, an \cup {a}) =>
        ~HoldsS(ca, m, rp, rs) /\ ~HoldsM(ca, m, rp, rs)
  BY <1>1 DEF ReadToken, WriteToken, BcastToken, Acked, Refused, Has, HeldBack,
     Sound, Settled, HoldsS, HoldsM, Matched, None, Ack, Nak
<1>n. Refused(None, an \cup {a}) => (\A u \in rp : FALSE) \/ (m).nak \/ (m).poison
  BY <1>1 DEF ReadToken, WriteToken, BcastToken, Acked, Refused, Has, HeldBack,
     Sound, Settled, Matched, None, Ack, Nak
<1>r. /\ bl => "BCAST_PROBE" \in pr /\ "READ_REQ" \notin rp
      /\ ca # "I" => m = NoMshr /\ None = None
  BY <1>1 DEF Sound, OnePlace, Matched
<1> QED
  BY <1>t, <1>h, <1>o, <1>m, <1>a, <1>n, <1>r DEF Sound, Known, Settled

(* A poisoned reply is dropped.                                              *)
LEMMA FillPoisonSound ==
  ASSUME NEW c, NEW e, NEW ca, NEW m, NEW a, NEW rq, NEW rp, NEW pr, NEW bl,
         NEW an, NEW rs, NEW rc,
         Typed(ca, m, a, rq, rp, pr, bl, an, rs, rc),
         Sound(c, e, ca, m, a, rq, rp, pr, bl, an, rs, rc),
         NEW t \in rp,
         m.poison
  PROVE  Sound(c, e, ca, NoMshr, a, rq, rp \ {t}, pr, bl, an, rs, rc)
<1>0. /\ NoMshr.type = None /\ NoMshr.acked = FALSE /\ NoMshr.poison = FALSE
      /\ None = "none"
  BY DEF NoMshr, None
<1>1. /\ m.type = t /\ t \in {"READ_REQ", "WRITE_REQ"} /\ m # NoMshr
      /\ \A u \in rp \ {t} : FALSE
      /\ \A u \in rq \cup rs \cup rc : FALSE
  BY DEF Sound, Matched, Typed, Demands, NoMshr, Releases
<1>t. /\ ReadToken(a, pr, an) => ReadToken(a, pr, an)
      /\ WriteToken(a, pr, an) => WriteToken(a, pr, an)
      /\ BcastToken(NoMshr, a, pr, an) => BcastToken(m, a, pr, an)
  BY <1>0, <1>1 DEF ReadToken, WriteToken, BcastToken, Acked, Refused, Has,
     HeldBack, None, Ack, Nak
<1>h. /\ HoldsS(ca, NoMshr, rp \ {t}, rs) => HoldsS(ca, m, rp, rs)
      /\ HoldsM(ca, NoMshr, rp \ {t}, rs) => HoldsM(ca, m, rp, rs)
  BY <1>0, <1>1 DEF HoldsS, HoldsM, Sound, Matched, None
<1>o. OnePlace(NoMshr, a, pr, an)
  BY <1>0, <1>1 DEF Sound, OnePlace, HeldBack, None
<1>m. Matched(NoMshr, rq, rp \ {t}, rs, rc)
  BY <1>0, <1>1 DEF Sound, Matched, HeldBack, OnePlace, None
<1>a. Acked(a, an) =>
        ~HoldsS(ca, NoMshr, rp \ {t}, rs) /\ ~HoldsM(ca, NoMshr, rp \ {t}, rs)
  BY <1>0, <1>1 DEF ReadToken, WriteToken, BcastToken, Acked, Refused, Has,
     HeldBack, Sound, Settled, HoldsS, HoldsM, Matched, None, Ack, Nak
<1>n. Refused(a, an) => (\A u \in rp \ {t} : FALSE) \/ (NoMshr).nak \/ (NoMshr).poison
  BY <1>0, <1>1 DEF ReadToken, WriteToken, BcastToken, Acked, Refused, Has,
     HeldBack, Sound, Settled, Matched, None, Ack, Nak
<1>r. /\ bl => "BCAST_PROBE" \in pr /\ "READ_REQ" \notin rp \ {t}
      /\ ca # "I" => NoMshr = NoMshr /\ a = None
  BY <1>0, <1>1 DEF Sound, OnePlace, Matched
<1> QED
  BY <1>t, <1>h, <1>o, <1>m, <1>a, <1>n, <1>r DEF Sound, Known, Settled

(* A marked reply is given back.                                             *)
LEMMA FillMarkedSound ==
  ASSUME NEW c, NEW e, NEW ca, NEW m, NEW a, NEW rq, NEW rp, NEW pr, NEW bl,
         NEW an, NEW rs, NEW rc,
         Typed(ca, m, a, rq, rp, pr, bl, an, rs, rc),
         Sound(c, e, ca, m, a, rq, rp, pr, bl, an, rs, rc),
         NEW t \in rp,
         ~m.poison,
         m.nak,
         NEW n,
         n.type = IF t = "WRITE_REQ" THEN "EVICT_REQ" ELSE "RD_RELEASE_REQ",
         n.acked = FALSE,
         n.poison = FALSE
  PROVE  Sound(c, e, ca, n, a, rq, rp \ {t}, pr, bl, an, rs, rc)
<1>1. /\ m.type = t /\ m.acked /\ t \in {"READ_REQ", "WRITE_REQ"} /\ m # NoMshr
      /\ \A u \in rp \ {t} : FALSE
      /\ \A u \in rq \cup rs \cup rc : FALSE
  BY DEF Sound, Matched, Typed, Demands, NoMshr, Releases
<1>t. /\ ReadToken(a, pr, an) => ReadToken(a, pr, an)
      /\ WriteToken(a, pr, an) => WriteToken(a, pr, an)
      /\ BcastToken(n, a, pr, an) => BcastToken(m, a, pr, an)
  BY <1>1 DEF ReadToken, WriteToken, BcastToken, Acked, Refused, Has, HeldBack,
     None, Ack, Nak
<1>h. /\ HoldsS(ca, n, rp \ {t}, rs) => HoldsS(ca, m, rp, rs)
      /\ HoldsM(ca, n, rp \ {t}, rs) => HoldsM(ca, m, rp, rs)
  BY <1>1 DEF HoldsS, HoldsM, Sound, Matched, None
<1>o. OnePlace(n, a, pr, an)
  BY <1>1 DEF Sound, OnePlace, HeldBack, None
<1>m. Matched(n, rq, rp \ {t}, rs, rc)
  BY <1>1 DEF Sound, Matched, HeldBack, OnePlace, None
<1>a. Acked(a, an) =>
        ~HoldsS(ca, n, rp \ {t}, rs) /\ ~HoldsM(ca, n, rp \ {t}, rs)
  BY <1>1 DEF ReadToken, WriteToken, BcastToken, Acked, Refused, Has, HeldBack,
     Sound, Settled, HoldsS, HoldsM, Matched, None, Ack, Nak
<1>n. Refused(a, an) => (\A u \in rp \ {t} : FALSE) \/ (n).nak \/ (n).poison
  BY <1>1 DEF ReadToken, WriteToken, BcastToken, Acked, Refused, Has, HeldBack,
     Sound, Settled, Matched, None, Ack, Nak
<1>r. /\ bl => "BCAST_PROBE" \in pr /\ "READ_REQ" \notin rp \ {t}
      /\ ca # "I" => n = NoMshr /\ a = None
  BY <1>1 DEF Sound, OnePlace, Matched
<1> QED
  BY <1>t, <1>h, <1>o, <1>m, <1>a, <1>n, <1>r DEF Sound, Known, Settled

(* A reply fills the line.                                                   *)
LEMMA FillSound ==
  ASSUME NEW c, NEW e, NEW ca, NEW m, NEW a, NEW rq, NEW rp, NEW pr, NEW bl,
         NEW an, NEW rs, NEW rc,
         Typed(ca, m, a, rq, rp, pr, bl, an, rs, rc),
         Sound(c, e, ca, m, a, rq, rp, pr, bl, an, rs, rc),
         NEW t \in rp,
         ~m.poison,
         ~m.nak,
         NEW s,
         t = "WRITE_REQ" => s = "M",
         t # "WRITE_REQ" => s = "S"
  PROVE  Sound(c, e, s, NoMshr, a, rq, rp \ {t}, pr, bl, an, rs, rc)
<1>0. /\ NoMshr.type = None /\ NoMshr.acked = FALSE /\ NoMshr.poison = FALSE
      /\ None = "none"
  BY DEF NoMshr, None
<1>1. /\ m.type = t /\ t \in {"READ_REQ", "WRITE_REQ"} /\ m # NoMshr
      /\ \A u \in rp \ {t} : FALSE
      /\ \A u \in rq \cup rs \cup rc : FALSE
  BY DEF Sound, Matched, Typed, Demands, NoMshr, Releases
<1>2. HoldsS(ca, m, rp, rs) \/ HoldsM(ca, m, rp, rs)
  BY <1>1 DEF HoldsS, HoldsM
<1>3. ~Acked(a, an) /\ ~Refused(a, an)
  BY <1>2, <1>1 DEF Sound, Settled
<1>4. a = None /\ an = {}
  BY <1>3 DEF Typed, Answers, Naks, Acked, Refused, Has
<1>t. /\ ReadToken(a, pr, an) => ReadToken(a, pr, an)
      /\ WriteToken(a, pr, an) => WriteToken(a, pr, an)
      /\ BcastToken(NoMshr, a, pr, an) => BcastToken(m, a, pr, an)
  BY <1>0, <1>1, <1>4 DEF ReadToken, WriteToken, BcastToken, Acked, Refused,
     Has, HeldBack, None, Ack, Nak
<1>h. /\ HoldsS(s, NoMshr, rp \ {t}, rs) => HoldsS(ca, m, rp, rs)
      /\ HoldsM(s, NoMshr, rp \ {t}, rs) => HoldsM(ca, m, rp, rs)
  BY <1>0, <1>1, <1>4 DEF HoldsS, HoldsM, Sound, Matched, None
<1>o. OnePlace(NoMshr, a, pr, an)
  BY <1>0, <1>1, <1>4 DEF Sound, OnePlace, HeldBack, None
<1>m. Matched(NoMshr, rq, rp \ {t}, rs, rc)
  BY <1>0, <1>1, <1>4 DEF Sound, Matched, HeldBack, OnePlace, None
<1>a. Acked(a, an) =>
        ~HoldsS(s, NoMshr, rp \ {t}, rs) /\ ~HoldsM(s, NoMshr, rp \ {t}, rs)
  BY <1>0, <1>1, <1>4 DEF ReadToken, WriteToken, BcastToken, Acked, Refused,
     Has, HeldBack, Sound, Settled, HoldsS, HoldsM, Matched, None, Ack, Nak
<1>n. Refused(a, an) => (\A u \in rp \ {t} : FALSE) \/ (NoMshr).nak \/ (NoMshr).poison
  BY <1>0, <1>1, <1>4 DEF ReadToken, WriteToken, BcastToken, Acked, Refused,
     Has, HeldBack, Sound, Settled, Matched, None, Ack, Nak
<1>r. /\ bl => "BCAST_PROBE" \in pr /\ "READ_REQ" \notin rp \ {t}
      /\ s # "I" => NoMshr = NoMshr /\ a = None
  BY <1>0, <1>1, <1>4 DEF Sound, OnePlace, Matched
<1> QED
  BY <1>t, <1>h, <1>o, <1>m, <1>a, <1>n, <1>r DEF Sound, Known, Settled

(* A recall finds nothing pending.                                           *)
LEMMA ProbeIdleSound ==
  ASSUME NEW c, NEW e, NEW ca, NEW m, NEW a, NEW rq, NEW rp, NEW pr, NEW bl,
         NEW an, NEW rs, NEW rc,
         Typed(ca, m, a, rq, rp, pr, bl, an, rs, rc),
         Sound(c, e, ca, m, a, rq, rp, pr, bl, an, rs, rc),
         NEW t \in pr,
         t \in Recalls,
         NEW bl2 \in BOOLEAN,
         bl2 => bl,
         m = NoMshr,
         a = None
  PROVE  Sound(c, e, "I", m, IF ca = "I" THEN Nak(t) ELSE Ack(t), rq, rp, pr \ {t}, bl2, an, rs, rc)
<1>0. /\ NoMshr.type = None /\ NoMshr.acked = FALSE /\ NoMshr.poison = FALSE
      /\ None = "none"
  BY DEF NoMshr, None
<1>2. /\ t \in {"INVALIDATE_PROBE", "WR_RELEASE_PROBE"} /\ ~bl /\ ~bl2
      /\ \A u \in an : FALSE
      /\ \A u \in pr \ {t} : FALSE
      /\ ~HeldBack(m)
  BY DEF Sound, OnePlace, Recalls, Typed
<1>3. \A u \in rs \cup rc \cup rq \cup rp : FALSE
  BY <1>0 DEF Sound, Matched
<1>t. /\ ReadToken(IF ca = "I" THEN Nak(t) ELSE Ack(t), pr \ {t}, an) => ReadToken(a, pr, an)
      /\ WriteToken(IF ca = "I" THEN Nak(t) ELSE Ack(t), pr \ {t}, an) => WriteToken(a, pr, an)
      /\ BcastToken(m, IF ca = "I" THEN Nak(t) ELSE Ack(t), pr \ {t}, an) => BcastToken(m, a, pr, an)
  BY <1>0, <1>2, <1>3 DEF ReadToken, WriteToken, BcastToken, Acked, Refused,
     Has, HeldBack, None, Ack, Nak
<1>h. /\ HoldsS("I", m, rp, rs) => HoldsS(ca, m, rp, rs)
      /\ HoldsM("I", m, rp, rs) => HoldsM(ca, m, rp, rs)
  BY <1>0, <1>2, <1>3 DEF HoldsS, HoldsM, Sound, Matched, None
<1>o. OnePlace(m, IF ca = "I" THEN Nak(t) ELSE Ack(t), pr \ {t}, an)
  BY <1>0, <1>2, <1>3 DEF Sound, OnePlace, HeldBack, None
<1>m. Matched(m, rq, rp, rs, rc)
  BY <1>0, <1>2, <1>3 DEF Sound, Matched, HeldBack, OnePlace, None
<1>a. Acked(IF ca = "I" THEN Nak(t) ELSE Ack(t), an) =>
        ~HoldsS("I", m, rp, rs) /\ ~HoldsM("I", m, rp, rs)
  BY <1>0, <1>2, <1>3 DEF ReadToken, WriteToken, BcastToken, Acked, Refused,
     Has, HeldBack, Sound, Settled, HoldsS, HoldsM, Matched, None, Ack, Nak
<1>n. Refused(IF ca = "I" THEN Nak(t) ELSE Ack(t), an) => (\A u \in rp : FALSE) \/ (m).nak \/ (m).poison
  BY <1>0, <1>2, <1>3 DEF ReadToken, WriteToken, BcastToken, Acked, Refused,
     Has, HeldBack, Sound, Settled, Matched, None, Ack, Nak
<1>r. /\ bl2 => "BCAST_PROBE" \in pr \ {t} /\ "READ_REQ" \notin rp
      /\ "I" # "I" => m = NoMshr /\ IF ca = "I" THEN Nak(t) ELSE Ack(t) = None
  BY <1>0, <1>2, <1>3 DEF Sound, OnePlace, Matched
<1> QED
  BY <1>t, <1>h, <1>o, <1>m, <1>a, <1>n, <1>r DEF Sound, Known, Settled

(* A recall squashes a request that has not left.                            *)
LEMMA ProbeSquashesSound ==
  ASSUME NEW c, NEW e, NEW ca, NEW m, NEW a, NEW rq, NEW rp, NEW pr, NEW bl,
         NEW an, NEW rs, NEW rc,
         Typed(ca, m, a, rq, rp, pr, bl, an, rs, rc),
         Sound(c, e, ca, m, a, rq, rp, pr, bl, an, rs, rc),
         NEW t \in pr,
         t \in Recalls,
         NEW bl2 \in BOOLEAN,
         bl2 => bl,
         m.type \in Demands,
         ~m.acked,
         a = None
  PROVE  Sound(c, e, ca, NoMshr, Nak(t), rq, rp, pr \ {t}, bl2, an, rs, rc)
<1>0. /\ NoMshr.type = None /\ NoMshr.acked = FALSE /\ NoMshr.poison = FALSE
      /\ None = "none"
  BY DEF NoMshr, None
<1>1. m # NoMshr
  BY DEF NoMshr, Demands, None
<1>2. /\ t \in {"INVALIDATE_PROBE", "WR_RELEASE_PROBE"} /\ ~bl /\ ~bl2
      /\ \A u \in an : FALSE
      /\ \A u \in pr \ {t} : FALSE
      /\ ~HeldBack(m)
  BY DEF Sound, OnePlace, Recalls, Typed
<1>3. ca = "I" /\ \A u \in rs \cup rc \cup rq \cup rp : FALSE
  BY <1>1 DEF Sound, Matched
<1>t. /\ ReadToken(Nak(t), pr \ {t}, an) => ReadToken(a, pr, an)
      /\ WriteToken(Nak(t), pr \ {t}, an) => WriteToken(a, pr, an)
      /\ BcastToken(NoMshr, Nak(t), pr \ {t}, an) => BcastToken(m, a, pr, an)
  BY <1>0, <1>2, <1>3 DEF ReadToken, WriteToken, BcastToken, Acked, Refused,
     Has, HeldBack, None, Ack, Nak
<1>h. /\ HoldsS(ca, NoMshr, rp, rs) => HoldsS(ca, m, rp, rs)
      /\ HoldsM(ca, NoMshr, rp, rs) => HoldsM(ca, m, rp, rs)
  BY <1>0, <1>2, <1>3 DEF HoldsS, HoldsM, Sound, Matched, None
<1>o. OnePlace(NoMshr, Nak(t), pr \ {t}, an)
  BY <1>0, <1>2, <1>3 DEF Sound, OnePlace, HeldBack, None
<1>m. Matched(NoMshr, rq, rp, rs, rc)
  BY <1>0, <1>2, <1>3 DEF Sound, Matched, HeldBack, OnePlace, None
<1>a. Acked(Nak(t), an) =>
        ~HoldsS(ca, NoMshr, rp, rs) /\ ~HoldsM(ca, NoMshr, rp, rs)
  BY <1>0, <1>2, <1>3 DEF ReadToken, WriteToken, BcastToken, Acked, Refused,
     Has, HeldBack, Sound, Settled, HoldsS, HoldsM, Matched, None, Ack, Nak
<1>n. Refused(Nak(t), an) => (\A u \in rp : FALSE) \/ (NoMshr).nak \/ (NoMshr).poison
  BY <1>0, <1>2, <1>3 DEF ReadToken, WriteToken, BcastToken, Acked, Refused,
     Has, HeldBack, Sound, Settled, Matched, None, Ack, Nak
<1>r. /\ bl2 => "BCAST_PROBE" \in pr \ {t} /\ "READ_REQ" \notin rp
      /\ ca # "I" => NoMshr = NoMshr /\ Nak(t) = None
  BY <1>0, <1>2, <1>3 DEF Sound, OnePlace, Matched
<1> QED
  BY <1>t, <1>h, <1>o, <1>m, <1>a, <1>n, <1>r DEF Sound, Known, Settled

(* A recall marks a request that has left.                                   *)
LEMMA ProbeMarksSound ==
  ASSUME NEW c, NEW e, NEW ca, NEW m, NEW a, NEW rq, NEW rp, NEW pr, NEW bl,
         NEW an, NEW rs, NEW rc,
         Typed(ca, m, a, rq, rp, pr, bl, an, rs, rc),
         Sound(c, e, ca, m, a, rq, rp, pr, bl, an, rs, rc),
         NEW t \in pr,
         t \in Recalls,
         NEW bl2 \in BOOLEAN,
         bl2 => bl,
         m.acked,
         a = None,
         NEW n,
         Marked(m, n)
  PROVE  Sound(c, e, ca, n, Nak(t), rq, rp, pr \ {t}, bl2, an, rs, rc)
<1>5. /\ n.type = m.type /\ n.acked = m.acked /\ n.poison = m.poison
      /\ m.type \in Demands => n.nak
  BY DEF Marked
<1>4. m # NoMshr
  BY DEF NoMshr
<1>2. /\ t \in {"INVALIDATE_PROBE", "WR_RELEASE_PROBE"} /\ ~bl /\ ~bl2
      /\ \A u \in an : FALSE
      /\ \A u \in pr \ {t} : FALSE
      /\ ~HeldBack(m)
  BY DEF Sound, OnePlace, Recalls, Typed
<1>3. ca = "I" /\ \A u \in rp : n.nak
  BY <1>4, <1>5 DEF Sound, Matched, Typed
<1>t. /\ ReadToken(Nak(t), pr \ {t}, an) => ReadToken(a, pr, an)
      /\ WriteToken(Nak(t), pr \ {t}, an) => WriteToken(a, pr, an)
      /\ BcastToken(n, Nak(t), pr \ {t}, an) => BcastToken(m, a, pr, an)
  BY <1>2, <1>3, <1>5 DEF ReadToken, WriteToken, BcastToken, Acked, Refused,
     Has, HeldBack, None, Ack, Nak
<1>h. /\ HoldsS(ca, n, rp, rs) => HoldsS(ca, m, rp, rs)
      /\ HoldsM(ca, n, rp, rs) => HoldsM(ca, m, rp, rs)
  BY <1>2, <1>3, <1>5 DEF HoldsS, HoldsM, Sound, Matched, None
<1>o. OnePlace(n, Nak(t), pr \ {t}, an)
  BY <1>2, <1>3, <1>5 DEF Sound, OnePlace, HeldBack, None
<1>m. Matched(n, rq, rp, rs, rc)
  BY <1>2, <1>3, <1>5 DEF Sound, Matched, HeldBack, OnePlace, None
<1>a. Acked(Nak(t), an) =>
        ~HoldsS(ca, n, rp, rs) /\ ~HoldsM(ca, n, rp, rs)
  BY <1>2, <1>3, <1>5 DEF ReadToken, WriteToken, BcastToken, Acked, Refused,
     Has, HeldBack, Sound, Settled, HoldsS, HoldsM, Matched, None, Ack, Nak
<1>n. Refused(Nak(t), an) => (\A u \in rp : FALSE) \/ (n).nak \/ (n).poison
  BY <1>2, <1>3, <1>5 DEF ReadToken, WriteToken, BcastToken, Acked, Refused,
     Has, HeldBack, Sound, Settled, Matched, None, Ack, Nak
<1>r. /\ bl2 => "BCAST_PROBE" \in pr \ {t} /\ "READ_REQ" \notin rp
      /\ ca # "I" => n = NoMshr /\ Nak(t) = None
  BY <1>2, <1>3, <1>5 DEF Sound, OnePlace, Matched
<1> QED
  BY <1>t, <1>h, <1>o, <1>m, <1>a, <1>n, <1>r DEF Sound, Known, Settled

(* A broadcast squashes what has not left.                                   *)
LEMMA BroadcastSquashesSound ==
  ASSUME NEW c, NEW e, NEW ca, NEW m, NEW a, NEW rq, NEW rp, NEW pr, NEW bl,
         NEW an, NEW rs, NEW rc,
         Typed(ca, m, a, rq, rp, pr, bl, an, rs, rc),
         Sound(c, e, ca, m, a, rq, rp, pr, bl, an, rs, rc),
         "BCAST_PROBE" \in pr,
         NEW bl2 \in BOOLEAN,
         bl2 => "BCAST_PROBE" \in pr \ {"BCAST_PROBE"},
         a = None,
         m.type \in {"READ_REQ", "RD_RELEASE_REQ"},
         ~m.acked
  PROVE  Sound(c, e, "I", NoMshr, "BCAST_ACK", rq, rp, pr \ {"BCAST_PROBE"}, bl2, an, rs, rc)
<1>0. /\ NoMshr.type = None /\ NoMshr.acked = FALSE /\ NoMshr.poison = FALSE
      /\ None = "none"
  BY DEF NoMshr, None
<1>2. /\ \A u \in an : FALSE
      /\ \A u \in pr \ {"BCAST_PROBE"} : FALSE
      /\ ~bl2 /\ ~HeldBack(m)
      /\ ~HoldsM(ca, m, rp, rs)
  BY DEF Sound, OnePlace, Known, BcastToken, BcastStates, WriteLocks
<1>3. \A u \in rs \cup rc \cup rq \cup rp : FALSE
  BY DEF Sound, Matched
<1>t. /\ ReadToken("BCAST_ACK", pr \ {"BCAST_PROBE"}, an) => ReadToken(a, pr, an)
      /\ WriteToken("BCAST_ACK", pr \ {"BCAST_PROBE"}, an) => WriteToken(a, pr, an)
      /\ BcastToken(NoMshr, "BCAST_ACK", pr \ {"BCAST_PROBE"}, an) => BcastToken(m, a, pr, an)
  BY <1>0, <1>2, <1>3 DEF ReadToken, WriteToken, BcastToken, Acked, Refused,
     Has, HeldBack, None, Ack, Nak
<1>h. /\ HoldsS("I", NoMshr, rp, rs) => HoldsS(ca, m, rp, rs)
      /\ HoldsM("I", NoMshr, rp, rs) => HoldsM(ca, m, rp, rs)
  BY <1>0, <1>2, <1>3 DEF HoldsS, HoldsM, Sound, Matched, None
<1>o. OnePlace(NoMshr, "BCAST_ACK", pr \ {"BCAST_PROBE"}, an)
  BY <1>0, <1>2, <1>3 DEF Sound, OnePlace, HeldBack, None
<1>m. Matched(NoMshr, rq, rp, rs, rc)
  BY <1>0, <1>2, <1>3 DEF Sound, Matched, HeldBack, OnePlace, None
<1>a. Acked("BCAST_ACK", an) =>
        ~HoldsS("I", NoMshr, rp, rs) /\ ~HoldsM("I", NoMshr, rp, rs)
  BY <1>0, <1>2, <1>3 DEF ReadToken, WriteToken, BcastToken, Acked, Refused,
     Has, HeldBack, Sound, Settled, HoldsS, HoldsM, Matched, None, Ack, Nak
<1>n. Refused("BCAST_ACK", an) => (\A u \in rp : FALSE) \/ (NoMshr).nak \/ (NoMshr).poison
  BY <1>0, <1>2, <1>3 DEF ReadToken, WriteToken, BcastToken, Acked, Refused,
     Has, HeldBack, Sound, Settled, Matched, None, Ack, Nak
<1>r. /\ bl2 => "BCAST_PROBE" \in pr \ {"BCAST_PROBE"} /\ "READ_REQ" \notin rp
      /\ "I" # "I" => NoMshr = NoMshr /\ "BCAST_ACK" = None
  BY <1>0, <1>2, <1>3 DEF Sound, OnePlace, Matched
<1> QED
  BY <1>t, <1>h, <1>o, <1>m, <1>a, <1>n, <1>r DEF Sound, Known, Settled

(* A broadcast takes the line.                                               *)
LEMMA BroadcastInvalidatesSound ==
  ASSUME NEW c, NEW e, NEW ca, NEW m, NEW a, NEW rq, NEW rp, NEW pr, NEW bl,
         NEW an, NEW rs, NEW rc,
         Typed(ca, m, a, rq, rp, pr, bl, an, rs, rc),
         Sound(c, e, ca, m, a, rq, rp, pr, bl, an, rs, rc),
         "BCAST_PROBE" \in pr,
         NEW bl2 \in BOOLEAN,
         bl2 => "BCAST_PROBE" \in pr \ {"BCAST_PROBE"},
         a = None,
         ~(m.type = "RD_RELEASE_REQ" /\ m.acked),
         ~(m.type \in {"READ_REQ", "RD_RELEASE_REQ"} /\ ~m.acked),
         NEW seen \in BOOLEAN,
         ~seen => bl,
         NEW n,
         n.type = m.type,
         n.acked = m.acked,
         n.poison <=> m.type = "READ_REQ" /\ seen,
         n.nak = m.nak
  PROVE  Sound(c, e, "I", n, "BCAST_ACK", rq, rp, pr \ {"BCAST_PROBE"}, bl2, an, rs, rc)
<1>1. m.type # "RD_RELEASE_REQ"
  OBVIOUS
<1>2. /\ \A u \in an : FALSE
      /\ \A u \in pr \ {"BCAST_PROBE"} : FALSE
      /\ ~bl2 /\ ~HeldBack(m)
      /\ ~HoldsM(ca, m, rp, rs)
  BY DEF Sound, OnePlace, Known, BcastToken, BcastStates, WriteLocks
<1>3. "WRITE_REQ" \notin rp
  BY <1>2 DEF HoldsM, Sound, Matched
<1>4. "READ_REQ" \in rp => n.poison
  BY <1>1 DEF Sound, Matched
<1>5. ~HoldsS("I", n, rp, rs) /\ ~HoldsM("I", n, rp, rs)
  BY <1>1, <1>2, <1>3, <1>4 DEF HoldsS, HoldsM
<1>t. /\ ReadToken("BCAST_ACK", pr \ {"BCAST_PROBE"}, an) => ReadToken(a, pr, an)
      /\ WriteToken("BCAST_ACK", pr \ {"BCAST_PROBE"}, an) => WriteToken(a, pr, an)
      /\ BcastToken(n, "BCAST_ACK", pr \ {"BCAST_PROBE"}, an) => BcastToken(m, a, pr, an)
  BY <1>1, <1>2, <1>5 DEF ReadToken, WriteToken, BcastToken, Acked, Refused,
     Has, HeldBack, None, Ack, Nak
<1>h. /\ HoldsS("I", n, rp, rs) => HoldsS(ca, m, rp, rs)
      /\ HoldsM("I", n, rp, rs) => HoldsM(ca, m, rp, rs)
  BY <1>1, <1>2, <1>5 DEF HoldsS, HoldsM, Sound, Matched, None
<1>o. OnePlace(n, "BCAST_ACK", pr \ {"BCAST_PROBE"}, an)
  BY <1>1, <1>2, <1>5 DEF Sound, OnePlace, HeldBack, None
<1>m. Matched(n, rq, rp, rs, rc)
  BY <1>1, <1>2, <1>5 DEF Sound, Matched, HeldBack, OnePlace, None
<1>a. Acked("BCAST_ACK", an) =>
        ~HoldsS("I", n, rp, rs) /\ ~HoldsM("I", n, rp, rs)
  BY <1>1, <1>2, <1>5 DEF ReadToken, WriteToken, BcastToken, Acked, Refused,
     Has, HeldBack, Sound, Settled, HoldsS, HoldsM, Matched, None, Ack, Nak
<1>n. Refused("BCAST_ACK", an) => (\A u \in rp : FALSE) \/ (n).nak \/ (n).poison
  BY <1>1, <1>2, <1>5 DEF ReadToken, WriteToken, BcastToken, Acked, Refused,
     Has, HeldBack, Sound, Settled, Matched, None, Ack, Nak
<1>r. /\ bl2 => "BCAST_PROBE" \in pr \ {"BCAST_PROBE"} /\ "READ_REQ" \notin rp
      /\ "I" # "I" => n = NoMshr /\ "BCAST_ACK" = None
  BY <1>1, <1>2, <1>5 DEF Sound, OnePlace, Matched
<1> QED
  BY <1>t, <1>h, <1>o, <1>m, <1>a, <1>n, <1>r DEF Sound, Known, Settled

(* A broadcast meets a release that has left.                                *)
LEMMA BroadcastPoisonsSound ==
  ASSUME NEW c, NEW e, NEW ca, NEW m, NEW a, NEW rq, NEW rp, NEW pr, NEW bl,
         NEW an, NEW rs, NEW rc,
         Typed(ca, m, a, rq, rp, pr, bl, an, rs, rc),
         Sound(c, e, ca, m, a, rq, rp, pr, bl, an, rs, rc),
         "BCAST_PROBE" \in pr,
         NEW bl2 \in BOOLEAN,
         bl2 => "BCAST_PROBE" \in pr \ {"BCAST_PROBE"},
         a = None,
         m.type = "RD_RELEASE_REQ" /\ m.acked,
         NEW n,
         n.type = m.type,
         n.acked,
         n.poison,
         n.nak = m.nak
  PROVE  Sound(c, e, ca, n, a, rq, rp, pr \ {"BCAST_PROBE"}, bl2, an, rs, rc)
<1>4. m # NoMshr
  BY DEF NoMshr
<1>2. /\ \A u \in an : FALSE
      /\ \A u \in pr \ {"BCAST_PROBE"} : FALSE
      /\ ~bl2 /\ ~HeldBack(m)
      /\ ~HoldsM(ca, m, rp, rs)
  BY DEF Sound, OnePlace, Known, BcastToken, BcastStates, WriteLocks
<1>3. ca = "I" /\ \A t \in rq \cup rp : FALSE
  BY <1>4 DEF Sound, Matched, Typed, Demands
<1>t. /\ ReadToken(a, pr \ {"BCAST_PROBE"}, an) => ReadToken(a, pr, an)
      /\ WriteToken(a, pr \ {"BCAST_PROBE"}, an) => WriteToken(a, pr, an)
      /\ BcastToken(n, a, pr \ {"BCAST_PROBE"}, an) => BcastToken(m, a, pr, an)
  BY <1>2, <1>3 DEF ReadToken, WriteToken, BcastToken, Acked, Refused, Has,
     HeldBack, None, Ack, Nak
<1>h. /\ HoldsS(ca, n, rp, rs) => HoldsS(ca, m, rp, rs)
      /\ HoldsM(ca, n, rp, rs) => HoldsM(ca, m, rp, rs)
  BY <1>2, <1>3 DEF HoldsS, HoldsM, Sound, Matched, None
<1>o. OnePlace(n, a, pr \ {"BCAST_PROBE"}, an)
  BY <1>2, <1>3 DEF Sound, OnePlace, HeldBack, None
<1>m. Matched(n, rq, rp, rs, rc)
  BY <1>2, <1>3 DEF Sound, Matched, HeldBack, OnePlace, None
<1>a. Acked(a, an) =>
        ~HoldsS(ca, n, rp, rs) /\ ~HoldsM(ca, n, rp, rs)
  BY <1>2, <1>3 DEF ReadToken, WriteToken, BcastToken, Acked, Refused, Has,
     HeldBack, Sound, Settled, HoldsS, HoldsM, Matched, None, Ack, Nak
<1>n. Refused(a, an) => (\A u \in rp : FALSE) \/ (n).nak \/ (n).poison
  BY <1>2, <1>3 DEF ReadToken, WriteToken, BcastToken, Acked, Refused, Has,
     HeldBack, Sound, Settled, Matched, None, Ack, Nak
<1>r. /\ bl2 => "BCAST_PROBE" \in pr \ {"BCAST_PROBE"} /\ "READ_REQ" \notin rp
      /\ ca # "I" => n = NoMshr /\ a = None
  BY <1>2, <1>3 DEF Sound, OnePlace, Matched
<1> QED
  BY <1>t, <1>h, <1>o, <1>m, <1>a, <1>n, <1>r DEF Sound, Known, Settled

(* The reply to a poisoned release makes way for the answer.                 *)
LEMMA ReleaseDonePoisonSound ==
  ASSUME NEW c, NEW e, NEW ca, NEW m, NEW a, NEW rq, NEW rp, NEW pr, NEW bl,
         NEW an, NEW rs, NEW rc,
         Typed(ca, m, a, rq, rp, pr, bl, an, rs, rc),
         Sound(c, e, ca, m, a, rq, rp, pr, bl, an, rs, rc),
         NEW t \in rc,
         m.poison,
         t = "RD_RELEASE_REQ"
  PROVE  Sound(c, e, ca, NoMshr, "BCAST_ACK", rq, rp, pr, bl, an, rs, rc \ {t})
<1>0. /\ NoMshr.type = None /\ NoMshr.acked = FALSE /\ NoMshr.poison = FALSE
      /\ None = "none"
  BY DEF NoMshr, None
<1>1. /\ m.type = "RD_RELEASE_REQ" /\ m # NoMshr /\ HeldBack(m) /\ ca = "I"
      /\ \A u \in rq \cup rp \cup rs \cup (rc \ {t}) : FALSE
  BY DEF Sound, Matched, Typed, Releases, Demands, NoMshr, HeldBack
<1>2. \A u \in an \cup pr : FALSE
  BY <1>1 DEF Sound, OnePlace
<1>t. /\ ReadToken("BCAST_ACK", pr, an) => ReadToken(a, pr, an)
      /\ WriteToken("BCAST_ACK", pr, an) => WriteToken(a, pr, an)
      /\ BcastToken(NoMshr, "BCAST_ACK", pr, an) => BcastToken(m, a, pr, an)
  BY <1>0, <1>1, <1>2 DEF ReadToken, WriteToken, BcastToken, Acked, Refused,
     Has, HeldBack, None, Ack, Nak
<1>h. /\ HoldsS(ca, NoMshr, rp, rs) => HoldsS(ca, m, rp, rs)
      /\ HoldsM(ca, NoMshr, rp, rs) => HoldsM(ca, m, rp, rs)
  BY <1>0, <1>1, <1>2 DEF HoldsS, HoldsM, Sound, Matched, None
<1>o. OnePlace(NoMshr, "BCAST_ACK", pr, an)
  BY <1>0, <1>1, <1>2 DEF Sound, OnePlace, HeldBack, None
<1>m. Matched(NoMshr, rq, rp, rs, rc \ {t})
  BY <1>0, <1>1, <1>2 DEF Sound, Matched, HeldBack, OnePlace, None
<1>a. Acked("BCAST_ACK", an) =>
        ~HoldsS(ca, NoMshr, rp, rs) /\ ~HoldsM(ca, NoMshr, rp, rs)
  BY <1>0, <1>1, <1>2 DEF ReadToken, WriteToken, BcastToken, Acked, Refused,
     Has, HeldBack, Sound, Settled, HoldsS, HoldsM, Matched, None, Ack, Nak
<1>n. Refused("BCAST_ACK", an) => (\A u \in rp : FALSE) \/ (NoMshr).nak \/ (NoMshr).poison
  BY <1>0, <1>1, <1>2 DEF ReadToken, WriteToken, BcastToken, Acked, Refused,
     Has, HeldBack, Sound, Settled, Matched, None, Ack, Nak
<1>r. /\ bl => "BCAST_PROBE" \in pr /\ "READ_REQ" \notin rp
      /\ ca # "I" => NoMshr = NoMshr /\ "BCAST_ACK" = None
  BY <1>0, <1>1, <1>2 DEF Sound, OnePlace, Matched
<1> QED
  BY <1>t, <1>h, <1>o, <1>m, <1>a, <1>n, <1>r DEF Sound, Known, Settled

(* The reply to a release frees the entry or lets the store go on.           *)
LEMMA ReleaseDoneSound ==
  ASSUME NEW c, NEW e, NEW ca, NEW m, NEW a, NEW rq, NEW rp, NEW pr, NEW bl,
         NEW an, NEW rs, NEW rc,
         Typed(ca, m, a, rq, rp, pr, bl, an, rs, rc),
         Sound(c, e, ca, m, a, rq, rp, pr, bl, an, rs, rc),
         NEW t \in rc,
         ~m.poison,
         NEW n,
         Restarted(n)
  PROVE  Sound(c, e, ca, n, a, rq, rp, pr, bl, an, rs, rc \ {t})
<1>0. /\ NoMshr.type = None /\ NoMshr.acked = FALSE /\ NoMshr.poison = FALSE
      /\ None = "none"
  BY DEF NoMshr, None
<1>1. /\ m.type = t /\ t \in {"RD_RELEASE_REQ", "EVICT_REQ"} /\ m # NoMshr /\ ca = "I"
      /\ \A u \in rq \cup rp \cup rs \cup (rc \ {t}) : FALSE
  BY DEF Sound, Matched, Typed, Releases, Demands, NoMshr, None
<1>2. /\ n.type \in {"none", "WRITE_REQ"}
      /\ n.acked = FALSE /\ n.poison = FALSE
  BY DEF None, Restarted
<1>t. /\ ReadToken(a, pr, an) => ReadToken(a, pr, an)
      /\ WriteToken(a, pr, an) => WriteToken(a, pr, an)
      /\ BcastToken(n, a, pr, an) => BcastToken(m, a, pr, an)
  BY <1>0, <1>1, <1>2 DEF ReadToken, WriteToken, BcastToken, Acked, Refused,
     Has, HeldBack, None, Ack, Nak
<1>h. /\ HoldsS(ca, n, rp, rs) => HoldsS(ca, m, rp, rs)
      /\ HoldsM(ca, n, rp, rs) => HoldsM(ca, m, rp, rs)
  BY <1>0, <1>1, <1>2 DEF HoldsS, HoldsM, Sound, Matched, None
<1>o. OnePlace(n, a, pr, an)
  BY <1>0, <1>1, <1>2 DEF Sound, OnePlace, HeldBack, None
<1>m. Matched(n, rq, rp, rs, rc \ {t})
  BY <1>0, <1>1, <1>2 DEF Sound, Matched, HeldBack, OnePlace, None
<1>a. Acked(a, an) =>
        ~HoldsS(ca, n, rp, rs) /\ ~HoldsM(ca, n, rp, rs)
  BY <1>0, <1>1, <1>2 DEF ReadToken, WriteToken, BcastToken, Acked, Refused,
     Has, HeldBack, Sound, Settled, HoldsS, HoldsM, Matched, None, Ack, Nak
<1>n. Refused(a, an) => (\A u \in rp : FALSE) \/ (n).nak \/ (n).poison
  BY <1>0, <1>1, <1>2 DEF ReadToken, WriteToken, BcastToken, Acked, Refused,
     Has, HeldBack, Sound, Settled, Matched, None, Ack, Nak
<1>r. /\ bl => "BCAST_PROBE" \in pr /\ "READ_REQ" \notin rp
      /\ ca # "I" => n = NoMshr /\ a = None
  BY <1>0, <1>1, <1>2 DEF Sound, OnePlace, Matched
<1> QED
  BY <1>t, <1>h, <1>o, <1>m, <1>a, <1>n, <1>r DEF Sound, Known, Settled

(* No token is about, the cluster has no claim, and neither.                 *)
Tokenless(m, a, pr, an) ==
  /\ ~ReadToken(a, pr, an) /\ ~WriteToken(a, pr, an)
  /\ ~BcastToken(m, a, pr, an)
Holdless(ca, m, rp, rs) == ~HoldsS(ca, m, rp, rs) /\ ~HoldsM(ca, m, rp, rs)
Gone(ca, m, a, rp, pr, an, rs) ==
  Tokenless(m, a, pr, an) /\ Holdless(ca, m, rp, rs)

(* A cluster with nothing of a line agrees with any entry.                   *)
LEMMA GoneSound ==
  ASSUME NEW c, NEW e, NEW ca, NEW m, NEW a, NEW rq, NEW rp, NEW pr, NEW bl,
         NEW an, NEW rs, NEW rc,
         Sound(c, e, ca, m, a, rq, rp, pr, bl, an, rs, rc),
         NEW e2,
         Gone(ca, m, a, rp, pr, an, rs)
  PROVE  Sound(c, e2, ca, m, a, rq, rp, pr, bl, an, rs, rc)
BY DEF Sound, Known, Settled, Acked, Refused, ReadToken, WriteToken,
   BcastToken, Gone, Tokenless, Holdless

(* A cluster the entry does not name has nothing of the line.                *)
LEMMA StrangerGone ==
  ASSUME NEW c, NEW e, NEW ca, NEW m, NEW a, NEW rq, NEW rp, NEW pr, NEW bl,
         NEW an, NEW rs, NEW rc,
         Sound(c, e, ca, m, a, rq, rp, pr, bl, an, rs, rc),
         c \notin e.sharers
  PROVE  Gone(ca, m, a, rp, pr, an, rs)
BY DEF Sound, Known, Gone, Tokenless, Holdless

(* No probe or answer is under way for a line that is not locked.            *)
LEMMA UnlockedTokenless ==
  ASSUME NEW c, NEW e, NEW ca, NEW m, NEW a, NEW rq, NEW rp, NEW pr, NEW bl,
         NEW an, NEW rs, NEW rc,
         Sound(c, e, ca, m, a, rq, rp, pr, bl, an, rs, rc),
         e.state \notin LockedStates
  PROVE  Tokenless(m, a, pr, an)
BY DEF Sound, Known, Tokenless, LockedStates, EvictionLocks, BcastStates,
   ReadLocks, WriteLocks

(* A cluster whose request waits holds nothing of the line.                  *)
LEMMA RequesterHoldless ==
  ASSUME NEW c, NEW e, NEW ca, NEW m, NEW a, NEW rq, NEW rp, NEW pr, NEW bl,
         NEW an, NEW rs, NEW rc,
         Typed(ca, m, a, rq, rp, pr, bl, an, rs, rc),
         Sound(c, e, ca, m, a, rq, rp, pr, bl, an, rs, rc),
         NEW t \in rq
  PROVE  Holdless(ca, m, rp, rs)
<1>1. m.type = t /\ t \in {"READ_REQ", "WRITE_REQ"} /\ m # NoMshr
  BY DEF Sound, Matched, Typed, Demands, NoMshr, None
<1>2. ca = "I" /\ \A u \in rp : FALSE
  BY <1>1 DEF Sound, Matched
<1> QED
  BY <1>1, <1>2 DEF Holdless, HoldsS, HoldsM

(* The entry still says the same of the cluster.                             *)
LEMMA KeepSound ==
  ASSUME NEW c, NEW e, NEW ca, NEW m, NEW a, NEW rq, NEW rp, NEW pr, NEW bl,
         NEW an, NEW rs, NEW rc,
         Sound(c, e, ca, m, a, rq, rp, pr, bl, an, rs, rc),
         NEW e2,
         e2.state = e.state,
         c \in e2.sharers <=> c \in e.sharers,
         e.sharers = {c} => e2.sharers = {c},
         c \in e2.nakWaitlist <=> c \in e.nakWaitlist
  PROVE  Sound(c, e2, ca, m, a, rq, rp, pr, bl, an, rs, rc)
BY DEF Sound, Known, Settled

(* The first message of a pair is noted.                                     *)
LEMMA NoteSound ==
  ASSUME NEW c, NEW e, NEW ca, NEW m, NEW a, NEW rq, NEW rp, NEW pr, NEW bl,
         NEW an, NEW rs, NEW rc,
         Sound(c, e, ca, m, a, rq, rp, pr, bl, an, rs, rc),
         NEW e2,
         e2.state = e.state,
         e2.sharers = e.sharers,
         Tokenless(m, a, pr, an) \/ Holdless(ca, m, rp, rs)
  PROVE  Sound(c, e2, ca, m, a, rq, rp, pr, bl, an, rs, rc)
BY DEF Sound, Known, Settled, Tokenless, Holdless

(* A reader joins the others.                                                *)
LEMMA SharersGrowSound ==
  ASSUME NEW c, NEW e, NEW ca, NEW m, NEW a, NEW rq, NEW rp, NEW pr, NEW bl,
         NEW an, NEW rs, NEW rc,
         Sound(c, e, ca, m, a, rq, rp, pr, bl, an, rs, rc),
         NEW e2,
         e.state = "READ_SHARED",
         e2.state = "READ_SHARED",
         e.sharers \subseteq e2.sharers
  PROVE  Sound(c, e2, ca, m, a, rq, rp, pr, bl, an, rs, rc)
<1>1. Tokenless(m, a, pr, an)
  BY UnlockedTokenless DEF LockedStates, EvictionLocks, BcastStates
<1>2. Tokenless(m, a, pr, an) /\ ~HoldsM(ca, m, rp, rs)
  BY <1>1 DEF Sound, Known, WriteLocks
<1> QED
  BY <1>2 DEF Sound, Known, Settled, Acked, Refused, Tokenless, ReadToken,
     WriteToken, BcastToken

(* A permitted request is answered.                                          *)
LEMMA ReplySound ==
  ASSUME NEW c, NEW e, NEW ca, NEW m, NEW a, NEW rq, NEW rp, NEW pr, NEW bl,
         NEW an, NEW rs, NEW rc,
         Typed(ca, m, a, rq, rp, pr, bl, an, rs, rc),
         Sound(c, e, ca, m, a, rq, rp, pr, bl, an, rs, rc),
         NEW t \in rq,
         NEW e2,
         e.state \notin LockedStates,
         c \in e2.sharers,
         t = "READ_REQ" => e2.state = "READ_SHARED",
         t = "WRITE_REQ" => e2.sharers = {c} /\ e2.state = "WRITE_PRIV"
  PROVE  Sound(c, e2, ca, m, a, rq \ {t}, rp \cup {t}, pr, bl, an, rs, rc)
<1>1. m.type = t /\ m.acked /\ t \in {"READ_REQ", "WRITE_REQ"} /\ m # NoMshr
  BY DEF Sound, Matched, Typed, Demands, NoMshr, None
<1>2. /\ ca = "I" /\ \A u \in rp \cup rs \cup rc : FALSE
      /\ \A u \in rq \ {t} : FALSE
  BY <1>1 DEF Sound, Matched, Typed, Releases
<1>3. Tokenless(m, a, pr, an)
  BY UnlockedTokenless
<1>4. /\ HoldsS(ca, m, rp \cup {t}, rs) => t = "READ_REQ"
      /\ HoldsM(ca, m, rp \cup {t}, rs) => t = "WRITE_REQ"
  BY <1>1, <1>2 DEF HoldsS, HoldsM
<1>5. ~bl
  BY <1>3 DEF Sound, Tokenless, BcastToken
<1>6. Known(c, e2, ca, m, a, rp \cup {t}, pr, an, rs)
  BY <1>3, <1>4 DEF Known, Tokenless
<1>7. Settled(c, e2, ca, m, a, rp \cup {t}, pr, an, rs)
  BY <1>3 DEF Settled, Acked, Refused, Tokenless, ReadToken, WriteToken,
     BcastToken
<1>8. Matched(m, rq \ {t}, rp \cup {t}, rs, rc)
  BY <1>1, <1>2 DEF Sound, Matched
<1> QED
  BY <1>2, <1>5, <1>6, <1>7, <1>8 DEF Sound

(* A sharer of a line that is now locked gets a probe.                       *)
LEMMA RecallReadSound ==
  ASSUME NEW c, NEW e, NEW ca, NEW m, NEW a, NEW rq, NEW rp, NEW pr, NEW bl,
         NEW an, NEW rs, NEW rc,
         Typed(ca, m, a, rq, rp, pr, bl, an, rs, rc),
         Sound(c, e, ca, m, a, rq, rp, pr, bl, an, rs, rc),
         NEW e2,
         e.state = "READ_SHARED",
         e.state \notin LockedStates,
         e2.state \in ReadLocks,
         c \in e2.sharers,
         c \notin e2.nakWaitlist
  PROVE  Sound(c, e2, ca, m, a, rq, rp, pr \cup {"INVALIDATE_PROBE"}, bl, an, rs, rc)
<1>1. Tokenless(m, a, pr, an)
  BY UnlockedTokenless
<1>2. /\ \A u \in pr : FALSE
      /\ a = None /\ ~HeldBack(m) /\ ~bl
      /\ \A u \in an : FALSE
  BY <1>1 DEF Typed, Sound, Tokenless, ReadToken, WriteToken, BcastToken, Has,
     Probes, Recalls, Answers, Naks
<1>3. ~HoldsM(ca, m, rp, rs)
  BY DEF Sound, Known, WriteLocks
<1>4. OnePlace(m, a, pr \cup {"INVALIDATE_PROBE"}, an)
  BY <1>2 DEF OnePlace
<1>5. /\ ReadToken(a, pr \cup {"INVALIDATE_PROBE"}, an) => "INVALIDATE_PROBE" = "INVALIDATE_PROBE"
      /\ WriteToken(a, pr \cup {"INVALIDATE_PROBE"}, an) => "INVALIDATE_PROBE" = "WR_RELEASE_PROBE"
      /\ BcastToken(m, a, pr \cup {"INVALIDATE_PROBE"}, an) => "INVALIDATE_PROBE" = "BCAST_PROBE"
      /\ ~Acked(a, an) /\ ~Refused(a, an)
  BY <1>2 DEF ReadToken, WriteToken, BcastToken, Acked, Refused, Has, None
<1>6. Known(c, e2, ca, m, a, rp, pr \cup {"INVALIDATE_PROBE"}, an, rs)
  BY <1>3, <1>5 DEF Sound, Known, ReadLocks, WriteLocks, BcastStates
<1>7. Settled(c, e2, ca, m, a, rp, pr \cup {"INVALIDATE_PROBE"}, an, rs)
  BY <1>3, <1>5 DEF Sound, Settled
<1> QED
  BY <1>2, <1>4, <1>6, <1>7 DEF Sound

(* The owner of a line that is now locked gets a probe.                      *)
LEMMA RecallWriteSound ==
  ASSUME NEW c, NEW e, NEW ca, NEW m, NEW a, NEW rq, NEW rp, NEW pr, NEW bl,
         NEW an, NEW rs, NEW rc,
         Typed(ca, m, a, rq, rp, pr, bl, an, rs, rc),
         Sound(c, e, ca, m, a, rq, rp, pr, bl, an, rs, rc),
         NEW e2,
         e.state = "WRITE_PRIV",
         e.state \notin LockedStates,
         e2.state \in WriteLocks,
         e2.sharers = {c},
         c \notin e2.nakWaitlist
  PROVE  Sound(c, e2, ca, m, a, rq, rp, pr \cup {"WR_RELEASE_PROBE"}, bl, an, rs, rc)
<1>1. Tokenless(m, a, pr, an)
  BY UnlockedTokenless
<1>2. /\ \A u \in pr : FALSE
      /\ a = None /\ ~HeldBack(m) /\ ~bl
      /\ \A u \in an : FALSE
  BY <1>1 DEF Typed, Sound, Tokenless, ReadToken, WriteToken, BcastToken, Has,
     Probes, Recalls, Answers, Naks
<1>3. ~HoldsS(ca, m, rp, rs)
  BY DEF Sound, Known, BcastStates, ReadLocks
<1>4. OnePlace(m, a, pr \cup {"WR_RELEASE_PROBE"}, an)
  BY <1>2 DEF OnePlace
<1>5. /\ ReadToken(a, pr \cup {"WR_RELEASE_PROBE"}, an) => "WR_RELEASE_PROBE" = "INVALIDATE_PROBE"
      /\ WriteToken(a, pr \cup {"WR_RELEASE_PROBE"}, an) => "WR_RELEASE_PROBE" = "WR_RELEASE_PROBE"
      /\ BcastToken(m, a, pr \cup {"WR_RELEASE_PROBE"}, an) => "WR_RELEASE_PROBE" = "BCAST_PROBE"
      /\ ~Acked(a, an) /\ ~Refused(a, an)
  BY <1>2 DEF ReadToken, WriteToken, BcastToken, Acked, Refused, Has, None
<1>6. Known(c, e2, ca, m, a, rp, pr \cup {"WR_RELEASE_PROBE"}, an, rs)
  BY <1>3, <1>5 DEF Sound, Known, ReadLocks, WriteLocks, BcastStates
<1>7. Settled(c, e2, ca, m, a, rp, pr \cup {"WR_RELEASE_PROBE"}, an, rs)
  BY <1>3, <1>5 DEF Sound, Settled
<1> QED
  BY <1>2, <1>4, <1>6, <1>7 DEF Sound

(* A cluster gets the broadcast that locks the line.                         *)
LEMMA BroadcastSound ==
  ASSUME NEW c, NEW e, NEW ca, NEW m, NEW a, NEW rq, NEW rp, NEW pr, NEW bl,
         NEW an, NEW rs, NEW rc,
         Typed(ca, m, a, rq, rp, pr, bl, an, rs, rc),
         Sound(c, e, ca, m, a, rq, rp, pr, bl, an, rs, rc),
         NEW e2,
         e.state = "READ_SHARED",
         e.state \notin LockedStates,
         e2.state \in BcastStates,
         c \in e2.sharers,
         NEW bl2,
         bl2 => "READ_REQ" \notin rp
  PROVE  Sound(c, e2, ca, m, a, rq, rp, pr \cup {"BCAST_PROBE"}, bl2, an, rs, rc)
<1>1. Tokenless(m, a, pr, an)
  BY UnlockedTokenless
<1>2. /\ \A u \in pr : FALSE
      /\ a = None /\ ~HeldBack(m) /\ ~bl
      /\ \A u \in an : FALSE
  BY <1>1 DEF Typed, Sound, Tokenless, ReadToken, WriteToken, BcastToken, Has,
     Probes, Recalls, Answers, Naks
<1>3. ~HoldsM(ca, m, rp, rs)
  BY DEF Sound, Known, WriteLocks
<1>4. OnePlace(m, a, pr \cup {"BCAST_PROBE"}, an)
  BY <1>2 DEF OnePlace
<1>5. /\ ReadToken(a, pr \cup {"BCAST_PROBE"}, an) => "BCAST_PROBE" = "INVALIDATE_PROBE"
      /\ WriteToken(a, pr \cup {"BCAST_PROBE"}, an) => "BCAST_PROBE" = "WR_RELEASE_PROBE"
      /\ BcastToken(m, a, pr \cup {"BCAST_PROBE"}, an) => "BCAST_PROBE" = "BCAST_PROBE"
      /\ ~Acked(a, an) /\ ~Refused(a, an)
  BY <1>2 DEF ReadToken, WriteToken, BcastToken, Acked, Refused, Has, None
<1>6. Known(c, e2, ca, m, a, rp, pr \cup {"BCAST_PROBE"}, an, rs)
  BY <1>3, <1>5 DEF Sound, Known, ReadLocks, WriteLocks, BcastStates
<1>7. Settled(c, e2, ca, m, a, rp, pr \cup {"BCAST_PROBE"}, an, rs)
  BY <1>3, <1>5 DEF Sound, Settled
<1> QED
  BY <1>2, <1>4, <1>6, <1>7 DEF Sound

(* The directory takes an answer.                                            *)
LEMMA AnswerTakenSound ==
  ASSUME NEW c, NEW e, NEW ca, NEW m, NEW a, NEW rq, NEW rp, NEW pr, NEW bl,
         NEW an, NEW rs, NEW rc,
         Sound(c, e, ca, m, a, rq, rp, pr, bl, an, rs, rc),
         NEW t \in an
  PROVE  /\ Sound(c, e, ca, m, a, rq, rp, pr, bl, an \ {t}, rs, rc)
         /\ Tokenless(m, a, pr, an \ {t})
<1>1. /\ \A u \in pr : FALSE
      /\ a = None /\ ~HeldBack(m)
      /\ \A u \in an \ {t} : FALSE
  BY DEF Sound, OnePlace
<1>2. Tokenless(m, a, pr, an \ {t}) /\ ~Acked(a, an \ {t}) /\ ~Refused(a, an \ {t})
  BY <1>1 DEF Tokenless, ReadToken, WriteToken, BcastToken, Has, None, Acked,
     Refused
<1>3. OnePlace(m, a, pr, an \ {t})
  BY <1>1 DEF OnePlace
<1> QED
  BY <1>2, <1>3 DEF Sound, Known, Settled, Tokenless

(* The directory takes a release and replies to it.                          *)
LEMMA ReleaseTakenSound ==
  ASSUME NEW c, NEW e, NEW ca, NEW m, NEW a, NEW rq, NEW rp, NEW pr, NEW bl,
         NEW an, NEW rs, NEW rc,
         Typed(ca, m, a, rq, rp, pr, bl, an, rs, rc),
         Sound(c, e, ca, m, a, rq, rp, pr, bl, an, rs, rc),
         NEW t \in rs
  PROVE  /\ Sound(c, e, ca, m, a, rq, rp, pr, bl, an, rs \ {t}, rc \cup {t})
         /\ Holdless(ca, m, rp, rs \ {t})
<1>1. m.type = t /\ m.acked /\ t \in {"RD_RELEASE_REQ", "EVICT_REQ"} /\ m # NoMshr
  BY DEF Sound, Matched, Typed, Releases, NoMshr, None
<1>2. /\ ca = "I" /\ \A u \in rq \cup rp \cup rc : FALSE
      /\ \A u \in rs \ {t} : FALSE
  BY <1>1 DEF Sound, Matched, Typed, Demands
<1>3. Holdless(ca, m, rp, rs \ {t})
  BY <1>1, <1>2 DEF Holdless, HoldsS, HoldsM
<1>4. Matched(m, rq, rp, rs \ {t}, rc \cup {t})
  BY <1>1, <1>2 DEF Sound, Matched
<1> QED
  BY <1>3, <1>4 DEF Sound, Known, Settled, Holdless

(* What completes an answer: the copy is gone.                               *)
LEMMA AnsweredHoldless ==
  ASSUME NEW c, NEW e, NEW ca, NEW m, NEW a, NEW rq, NEW rp, NEW pr, NEW bl,
         NEW an, NEW rs, NEW rc,
         Sound(c, e, ca, m, a, rq, rp, pr, bl, an, rs, rc),
         NEW t \in an,
         t \in {"INVALIDATE_ACK", "WR_RELEASE_ACK", "BCAST_ACK"}
  PROVE  Holdless(ca, m, rp, rs)
BY DEF Sound, Settled, Acked, Has, Holdless

(* The second message of a pair finds nothing else left.                     *)
LEMMA WaitlistedPair ==
  ASSUME NEW c, NEW e, NEW ca, NEW m, NEW a, NEW rq, NEW rp, NEW pr, NEW bl,
         NEW an, NEW rs, NEW rc,
         Sound(c, e, ca, m, a, rq, rp, pr, bl, an, rs, rc),
         c \in e.sharers,
         c \in e.nakWaitlist,
         e.state \notin BcastStates
  PROVE  Holdless(ca, m, rp, rs) \/ Tokenless(m, a, pr, an)
BY DEF Sound, Known, Settled, Holdless, Tokenless

(* A refusal or a release names a cluster the entry names.                   *)
LEMMA NakHolds ==
  ASSUME NEW c, NEW e, NEW ca, NEW m, NEW a, NEW rq, NEW rp, NEW pr, NEW bl,
         NEW an, NEW rs, NEW rc,
         Typed(ca, m, a, rq, rp, pr, bl, an, rs, rc),
         Sound(c, e, ca, m, a, rq, rp, pr, bl, an, rs, rc),
         an # {} \/ (\E t \in rs : t \in Releases)
  PROVE  c \in e.sharers
<1>1. CASE an # {}
  BY <1>1 DEF Typed, Sound, Known, ReadToken, WriteToken, BcastToken, Has,
     Answers, Naks
<1>2. CASE \E t \in rs : t \in Releases
  BY <1>2 DEF Sound, Known, Matched, HoldsS, HoldsM, Releases
<1> QED
  BY <1>1, <1>2

(***************************************************************************)
(* Type correctness, with the shape of the entries, and the lemmas about   *)
(* the queues.                                                             *)
(***************************************************************************)

(* A probe in the outbox of the directory.                                   *)
Probe == [cluster: Clusters, message: Message]

(* What the variables of Directory hold.                                     *)
TypeOK ==
  /\ cache \in [Clusters -> [Lines -> {"I", "S", "M"}]]
  /\ mshr \in [Clusters -> [Lines -> Mshr]]
  /\ answer \in [Clusters -> [Lines -> Answers \cup {None}]]
  /\ requests \in SUBSET Request
  /\ replies \in SUBSET Request
  /\ up \in [Clusters -> Seq(Message)]
  /\ down \in [Clusters -> Seq(Message)]
  /\ entry \in [Ways -> Entry]
  /\ replacing \in Replacement
  /\ outbox \in Seq(Probe)
  /\ pointers \in Nat \ {0}

(* A directory entry: one that stands for a line names it, one for a written *)
(* line names one owner, one that waits names who waits, and only a locked   *)
(* one has messages noted. A line has at most one entry in the set.          *)
WriteStates == {"WRITE_PRIV", "PENDING_WB", "EVICTION_LOCK_WRITE"}
EntryShape(e) ==
  /\ e.state # "INVALID" => e.addr \in Lines
  /\ e.state \in WriteStates => \E c \in Clusters : e.sharers = {c}
  /\ e.state \in {"PENDING_WB", "PENDING_WRITE"} => e.waiting \in Clusters
  /\ e.state \notin LockedStates => e.nakWaitlist = {}
EntryOK ==
  /\ \A w \in Ways : EntryShape(entry[w])
  /\ \A l \in Lines : \A v, w \in Tracked(l) : v = w

Types == TypeOK /\ EntryOK

-----------------------------------------------------------------------------
(* The elements of a queue.                                                  *)

(* The elements of a queue.                                                  *)
LEMMA QueueElements ==
  ASSUME NEW S, NEW q \in Seq(S)
  PROVE  \A x \in ToSet(q) : x \in S
<1>1. /\ DOMAIN q = 1 .. Len(q)
      /\ \A i \in 1 .. Len(q) : q[i] \in S
  OBVIOUS
<1> QED
  BY <1>1 DEF ToSet

(* What is appended to a queue is added to its elements.                     *)
LEMMA AppendElements ==
  ASSUME NEW S, NEW q \in Seq(S), NEW x \in S
  PROVE  /\ Append(q, x) \in Seq(S)
         /\ ToSet(Append(q, x)) = ToSet(q) \cup {x}
<1>1. /\ Append(q, x) \in Seq(S)
      /\ DOMAIN Append(q, x) = 1 .. Len(q) + 1
      /\ Append(q, x)[Len(q) + 1] = x
      /\ \A i \in 1 .. Len(q) : Append(q, x)[i] = q[i]
      /\ Len(q) \in Nat
      /\ DOMAIN q = 1 .. Len(q)
  OBVIOUS
<1>2. ASSUME NEW y \in ToSet(Append(q, x)) PROVE y \in ToSet(q) \cup {x}
  BY <1>1, <1>2 DEF ToSet
<1>3. ASSUME NEW y \in ToSet(q) PROVE y \in ToSet(Append(q, x))
  BY <1>1, <1>3 DEF ToSet
<1>4. x \in ToSet(Append(q, x))
  BY <1>1 DEF ToSet
<1> QED
  BY <1>1, <1>2, <1>3, <1>4

(* The head of a queue is one of its elements, the tail has the others.      *)
LEMMA TailElements ==
  ASSUME NEW S, NEW q \in Seq(S), q # <<>>
  PROVE  /\ Head(q) \in S /\ Head(q) = q[1] /\ Head(q) \in ToSet(q)
         /\ Tail(q) \in Seq(S)
         /\ ToSet(q) = ToSet(Tail(q)) \cup {Head(q)}
<1>1. /\ Head(q) \in S /\ Head(q) = q[1]
      /\ Tail(q) \in Seq(S)
      /\ Len(q) \in Nat \ {0}
      /\ DOMAIN q = 1 .. Len(q)
      /\ DOMAIN Tail(q) = 1 .. Len(q) - 1
      /\ \A i \in 1 .. Len(q) - 1 : Tail(q)[i] = q[i + 1]
  OBVIOUS
<1>2. Head(q) \in ToSet(q)
  BY <1>1 DEF ToSet
<1>3. ASSUME NEW y \in ToSet(q) PROVE y \in ToSet(Tail(q)) \cup {Head(q)}
  <2>1. PICK i \in 1 .. Len(q) : y = q[i]
    BY <1>1, <1>3 DEF ToSet
  <2>2. CASE i = 1
    BY <2>1, <2>2, <1>1
  <2>3. CASE i # 1
    <3>1. i - 1 \in 1 .. Len(q) - 1 /\ Tail(q)[i - 1] = q[i]
      BY <1>1, <2>3
    <3> QED
      BY <3>1, <2>1, <1>1 DEF ToSet
  <2> QED
    BY <2>2, <2>3
<1>4. ASSUME NEW y \in ToSet(Tail(q)) PROVE y \in ToSet(q)
  <2>1. PICK i \in 1 .. Len(q) - 1 : y = q[i + 1]
    BY <1>1, <1>4 DEF ToSet
  <2>2. i + 1 \in 1 .. Len(q)
    BY <1>1
  <2> QED
    BY <2>1, <2>2, <1>1 DEF ToSet
<1> QED
  BY <1>1, <1>2, <1>3, <1>4

(* The elements of a concatenation, and where they are.                      *)
LEMMA ConcatElements ==
  ASSUME NEW S, NEW p \in Seq(S), NEW q \in Seq(S)
  PROVE  /\ p \o q \in Seq(S)
         /\ ToSet(p \o q) = ToSet(p) \cup ToSet(q)
         /\ DOMAIN (p \o q) = 1 .. Len(p) + Len(q)
         /\ Len(p) \in Nat /\ Len(q) \in Nat
         /\ DOMAIN p = 1 .. Len(p) /\ DOMAIN q = 1 .. Len(q)
         /\ \A i \in 1 .. Len(p) : (p \o q)[i] = p[i]
         /\ \A i \in 1 .. Len(q) : (p \o q)[i + Len(p)] = q[i]
         /\ \A i \in 1 .. Len(p) + Len(q) : i > Len(p) => (p \o q)[i] = q[i - Len(p)] /\ i - Len(p) \in 1 .. Len(q)
<1>1. /\ p \o q \in Seq(S)
      /\ DOMAIN (p \o q) = 1 .. Len(p) + Len(q)
      /\ DOMAIN p = 1 .. Len(p) /\ DOMAIN q = 1 .. Len(q)
      /\ Len(p) \in Nat /\ Len(q) \in Nat
  OBVIOUS
<1>2. \A i \in 1 .. Len(p) : (p \o q)[i] = p[i]
  OBVIOUS
<1>3. \A i \in 1 .. Len(p) + Len(q) : i > Len(p) =>
        (p \o q)[i] = q[i - Len(p)] /\ i - Len(p) \in 1 .. Len(q)
  OBVIOUS
<1>4. \A i \in 1 .. Len(q) : (p \o q)[i + Len(p)] = q[i]
  BY <1>1, <1>3
<1>5. ToSet(p \o q) \subseteq ToSet(p) \cup ToSet(q)
  BY <1>1, <1>2, <1>3 DEF ToSet
<1>6. ASSUME NEW y \in ToSet(p) PROVE y \in ToSet(p \o q)
  BY <1>1, <1>2, <1>6 DEF ToSet
<1>7. ASSUME NEW y \in ToSet(q) PROVE y \in ToSet(p \o q)
  <2>1. PICK i \in 1 .. Len(q) : y = q[i]
    BY <1>1, <1>7 DEF ToSet
  <2>2. i + Len(p) \in DOMAIN (p \o q)
    BY <1>1
  <2> QED
    BY <2>1, <2>2, <1>4 DEF ToSet
<1> QED
  BY <1>1, <1>2, <1>3, <1>4, <1>5, <1>6, <1>7

(* A finite set put in a sequence: each element, once.                       *)
LEMMA SetToSeqElements ==
  ASSUME NEW S, IsFiniteSet(S)
  PROVE  /\ SetToSeq(S) \in Seq(S)
         /\ ToSet(SetToSeq(S)) = S
         /\ \A i, j \in DOMAIN SetToSeq(S) : SetToSeq(S)[i] = SetToSeq(S)[j] => i = j
<1> DEFINE n == Cardinality(S)
           f == SetToSeq(S)
<1>1. n \in Nat /\ ExistsBijection(1 .. n, S)
  BY FS_CardinalityType
<1>2. PICK g : g \in Bijection(1 .. n, S)
  BY <1>1 DEF ExistsBijection
<1>3. g \in [1 .. n -> S] /\ IsInjective(g)
  BY <1>2 DEF Bijection, Injection, Surjection, IsInjective
<1>4. f \in [1 .. n -> S] /\ IsInjective(f)
  BY <1>3 DEF SetToSeq
<1>5. f \in Injection(1 .. n, S)
  BY <1>4 DEF Injection, IsInjective
<1>6. f \in Surjection(1 .. n, S)
  <2>1. IsFiniteSet(1 .. n) /\ Cardinality(1 .. n) = n
    BY <1>1, FS_Interval
  <2> QED
    BY <1>5, <2>1, FS_Injection
<1>7. f \in Seq(S)
  BY <1>1, <1>4
<1>8. ToSet(f) = S
  BY <1>4, <1>6 DEF Surjection, ToSet
<1> QED
  BY <1>4, <1>7, <1>8 DEF IsInjective

-----------------------------------------------------------------------------
(* MSHRs the caches make out or change are MSHRs.                            *)
LEMMA MshrTypes ==
  /\ NoMshr \in Mshr
  /\ \A t \in Demands \cup Releases : Pend(t) \in Mshr
  /\ \A m \in Mshr : /\ m.type \in Demands \cup Releases \cup {None}
                     /\ m.acked \in BOOLEAN /\ m.nak \in BOOLEAN
                     /\ m.poison \in BOOLEAN /\ m.upgrade \in BOOLEAN
                     /\ [m EXCEPT !.acked = TRUE] \in Mshr
                     /\ [m EXCEPT !.upgrade = TRUE] \in Mshr
                     /\ \A b \in BOOLEAN : /\ [m EXCEPT !.nak = b] \in Mshr
                                           /\ [m EXCEPT !.poison = b] \in Mshr
  BY DEF Mshr, NoMshr, Pend, Demands, Releases

(* The messages that are made out or stamped are messages.                   *)
LEMMA MessageTypes ==
  /\ \A t \in Releases \cup Probes \cup Answers, l \in Lines : Plain(t, l) \in Message
  /\ \A m \in Message : /\ m.line \in Lines
                        /\ m.type \in Releases \cup Probes \cup Answers
                        /\ \A b \in BOOLEAN : [m EXCEPT !.seen = b] \in Message
                        /\ \A l \in Lines : Unseen(m, l) \in Message
  BY DEF Message, Plain, Unseen

(* The probes for a set of clusters.                                         *)
LEMMA ProbesToTypes ==
  ASSUME NEW cs \in SUBSET Clusters, NEW t \in Probes, NEW l \in Lines
  PROVE  ProbesTo(cs, t, l) \in Seq(Probe)
<1> DEFINE P(c) == [cluster |-> c, message |-> [Plain(t, l) EXCEPT !.seen =
               t = "BCAST_PROBE" /\ Read(c, l) \in replies]]
           S == {P(c) : c \in cs}
<1>1. IsFiniteSet(S)
  <2>1. IsFiniteSet(cs)
    BY ClustersAssumption, FS_Subset
  <2> DEFINE f == [c \in cs |-> P(c)]
  <2>2. f \in Bijection(cs, S)
    BY DEF Bijection, Injection, Surjection, IsInjective
  <2> QED
    BY <2>1, <2>2, FS_Bijection DEF ExistsBijection
<1>2. S \subseteq Probe
  <2> SUFFICES ASSUME NEW c \in cs PROVE P(c) \in Probe
    OBVIOUS
  <2> DEFINE seen == t = "BCAST_PROBE" /\ Read(c, l) \in replies
  <2>1. Plain(t, l) \in Message /\ seen \in BOOLEAN
    BY MessageTypes
  <2>2. [Plain(t, l) EXCEPT !.seen = seen] \in Message
    BY <2>1, MessageTypes
  <2> QED
    BY <2>2 DEF Probe
<1>3. SetToSeq(S) \in Seq(S)
  BY <1>1, SetToSeqElements
<1>4. SetToSeq(S) = ProbesTo(cs, t, l)
  BY DEF ProbesTo
<1>5. \A q \in Seq(S) : q \in Seq(Probe)
  <2> HIDE DEF S
  <2> QED
    BY <1>2, SeqMonotonic
<1> QED
  BY <1>3, <1>4, <1>5

(* The first states have the types.                                          *)
LEMMA InitTypes == Init => Types
<1> SUFFICES ASSUME Init PROVE Types
  OBVIOUS
<1>1. NoMshr \in Mshr
  BY MshrTypes
<1>2. Reset \in Entry
  BY DEF Reset, Entry, States, LockedStates
<1>3. NoReplacement \in Replacement
  BY DEF Replacement
<1>4. TypeOK
  BY <1>1, <1>2, <1>3, PointersAssumption DEF Init, TypeOK
<1>5. EntryOK
  BY DEF Init, EntryOK, EntryShape, Tracked, Reset, WriteStates, LockedStates,
     EvictionLocks, BcastStates
<1> QED
  BY <1>4, <1>5 DEF Types

(* A well-formed entry put in a way keeps the set well formed if it stands  *)
(* for the line the way stands for, or for none, or for a line that has no  *)
(* entry.                                                                   *)
LEMMA EntrySet ==
  ASSUME Types, NEW w \in Ways, NEW e \in Entry, SetEntry(w, e), EntryShape(e),
         \/ e.state = "INVALID"
         \/ entry[w].state # "INVALID" /\ e.addr = entry[w].addr
         \/ Tracked(e.addr) = {}
  PROVE  entry' \in [Ways -> Entry] /\ EntryOK'
<1>1. entry' \in [Ways -> Entry] /\ \A v \in Ways : entry'[v] = IF v = w THEN e ELSE entry[v]
  BY DEF SetEntry, Types, TypeOK
<1>2. (\A v \in Ways : EntryShape(entry[v]))'
  BY <1>1 DEF Types, EntryOK, EntryShape
<1>3. (\A l \in Lines : \A u, v \in Tracked(l) : u = v)'
  BY <1>1 DEF Types, EntryOK, Tracked
<1> QED
  BY <1>1, <1>2, <1>3 DEF EntryOK

(* Probes sent join the outbox.                                              *)
LEMMA ProbesSent ==
  ASSUME Types, NEW cs \in SUBSET Clusters, NEW t \in Probes, NEW l \in Lines,
         SendProbes(cs, t, l)
  PROVE  outbox' \in Seq(Probe)
BY ProbesToTypes, ConcatElements DEF SendProbes, Types, TypeOK

(* The owner of an entry that names one cluster is that cluster.             *)
LEMMA OwnerNamed ==
  ASSUME NEW e, NEW c, e.sharers = {c}
  PROVE  Owner(e) = c
BY DEF Owner

(* The fields of an entry.                                                   *)
LEMMA EntryFields ==
  \A e \in Entry : /\ e.state \in States /\ e.sharers \in SUBSET Clusters
                  /\ e.fillPending \in SUBSET Clusters /\ e.nakWaitlist \in SUBSET Clusters
                  /\ e.bcast \in BOOLEAN /\ e.addr \in Lines \cup {None}
                  /\ e.waiting \in Clusters \cup {None}
BY DEF Entry

(* A freed entry is well formed.                                             *)
LEMMA ResetTypes == Reset \in Entry /\ EntryShape(Reset) /\ Reset.state = "INVALID"
BY DEF Reset, Entry, EntryShape, States, LockedStates, WriteStates,
   EvictionLocks, BcastStates

(* So is one made out for one cluster.                                       *)
LEMMA OwnedTypes ==
  ASSUME NEW l \in Lines, NEW s \in {"READ_SHARED", "WRITE_PRIV"}, NEW c \in Clusters
  PROVE  Owned(l, s, c) \in Entry /\ EntryShape(Owned(l, s, c)) /\ Owned(l, s, c).addr = l
<1>0. {c} \in SUBSET Clusters
  OBVIOUS
<1>1. /\ Owned(l, s, c).addr = l /\ Owned(l, s, c).state = s
      /\ Owned(l, s, c).sharers = {c} /\ Owned(l, s, c).nakWaitlist = {}
  BY DEF Owned, Reset
<1>2. s \in States
  BY DEF States
<1>3. Owned(l, s, c) \in Entry
  BY <1>0, <1>2 DEF Entry, Owned, Reset
<1>4. EntryShape(Owned(l, s, c))
  BY <1>1 DEF EntryShape, LockedStates, WriteStates, EvictionLocks, BcastStates
<1> QED
  BY <1>1, <1>3, <1>4

(* An entry with one field changed is an entry.                              *)
LEMMA EntryUpdates ==
  \A e \in Entry :
    /\ \A s \in States : [e EXCEPT !.state = s] \in Entry
    /\ \A cs \in SUBSET Clusters : /\ [e EXCEPT !.sharers = cs] \in Entry
                                   /\ [e EXCEPT !.nakWaitlist = cs] \in Entry
                                   /\ [e EXCEPT !.fillPending = cs] \in Entry
    /\ \A c \in Clusters : [e EXCEPT !.waiting = c] \in Entry
    /\ \A b \in BOOLEAN : [e EXCEPT !.bcast = b] \in Entry
BY DEF Entry

(* What the caches set has its type.                                         *)
LEMMA SetTypes ==
  ASSUME TypeOK, NEW c \in Clusters, NEW l \in Lines
  PROVE  /\ \A m \in Mshr : SetMshr(c, l, m) => mshr' \in [Clusters -> [Lines -> Mshr]]
         /\ \A s \in {"I", "S", "M"} :
               SetCache(c, l, s) => cache' \in [Clusters -> [Lines -> {"I", "S", "M"}]]
         /\ \A a \in Answers \cup {None} :
               SetAnswer(c, l, a) => answer' \in [Clusters -> [Lines -> Answers \cup {None}]]
<1>1. mshr \in [Clusters -> [Lines -> Mshr]]
  BY DEF TypeOK
<1>2. cache \in [Clusters -> [Lines -> {"I", "S", "M"}]]
  BY DEF TypeOK
<1>3. answer \in [Clusters -> [Lines -> Answers \cup {None}]]
  BY DEF TypeOK
<1>4. \A m \in Mshr : SetMshr(c, l, m) => mshr' \in [Clusters -> [Lines -> Mshr]]
  BY <1>1 DEF SetMshr
<1>5. \A s \in {"I", "S", "M"} :
               SetCache(c, l, s) => cache' \in [Clusters -> [Lines -> {"I", "S", "M"}]]
  BY <1>2 DEF SetCache
<1>6. \A a \in Answers \cup {None} :
               SetAnswer(c, l, a) => answer' \in [Clusters -> [Lines -> Answers \cup {None}]]
  BY <1>3 DEF SetAnswer
<1> QED
  BY <1>4, <1>5, <1>6

(* Every step keeps the types and the shape of the entries.                  *)
LEMMA StepTypes ==
  ASSUME Types, Next
  PROVE  Types'
<1> USE DEF Types
<1>1. ASSUME NEW c \in Clusters, NEW l \in Lines, NEW d \in Demands, Miss(c, l, d)
      PROVE  Types'
  <2>1. Pend(d) \in Mshr
    BY MshrTypes
  <2>2. TypeOK'
    BY <1>1, <2>1 DEF Miss, SetMshr, TypeOK, bankVars
  <2>3. EntryOK'
    BY <1>1 DEF Miss, bankVars, EntryOK, Tracked
  <2> QED
    BY <2>2, <2>3
<1>2. ASSUME NEW c \in Clusters, NEW l \in Lines, StoreToShared(c, l)
      PROVE  Types'
  <2>1. [Pend("RD_RELEASE_REQ") EXCEPT !.upgrade = TRUE] \in Mshr
    BY MshrTypes DEF Releases
  <2>2. TypeOK'
    BY <1>2, <2>1 DEF StoreToShared, SetMshr, SetCache, TypeOK, bankVars
  <2>3. EntryOK'
    BY <1>2 DEF StoreToShared, bankVars, EntryOK, Tracked
  <2> QED
    BY <2>2, <2>3
<1>3. ASSUME NEW c \in Clusters, NEW l \in Lines, GiveBack(c, l)
      PROVE  Types'
  <2>1. Pend("RD_RELEASE_REQ") \in Mshr /\ Pend("EVICT_REQ") \in Mshr
    BY MshrTypes DEF Releases
  <2>2. TypeOK'
    BY <1>3, <2>1 DEF GiveBack, SetMshr, SetCache, TypeOK, bankVars
  <2>3. EntryOK'
    BY <1>3 DEF GiveBack, bankVars, EntryOK, Tracked
  <2> QED
    BY <2>2, <2>3
<1>4. ASSUME NEW c \in Clusters, NEW l \in Lines, Inject(c, l)
      PROVE  Types'
  <2> DEFINE type == mshr[c][l].type
  <2>0. /\ mshr' = [mshr EXCEPT ![c][l].acked = TRUE]
        /\ type # None
        /\ IF type \in Demands
             THEN /\ requests' = requests \cup {[cluster |-> c, line |-> l, type |-> type]}
                  /\ up' = up
             ELSE SendUp(c, type, l) /\ requests' = requests
        /\ StampRead(c, l) \/ (down' = down /\ outbox' = outbox)
        /\ UNCHANGED <<cache, answer, replies, entry, replacing, pointers>>
    BY <1>4 DEF Inject
  <2>a. mshr[c][l] \in Mshr /\ mshr[c] \in [Lines -> Mshr] /\ mshr \in [Clusters -> [Lines -> Mshr]]
    BY DEF TypeOK
  <2>b. [mshr[c][l] EXCEPT !.acked = TRUE] \in Mshr /\ type \in Demands \cup Releases \cup {None}
    BY <2>a, MshrTypes
  <2>1. mshr' \in [Clusters -> [Lines -> Mshr]]
    <3>1. mshr' = [mshr EXCEPT ![c][l] = [mshr[c][l] EXCEPT !.acked = TRUE]]
      BY <2>0, <2>a
    <3> QED
      BY <3>1, <2>a, <2>b
  <2>2. requests' \in SUBSET Request
    <3>1. type \in Demands => [cluster |-> c, line |-> l, type |-> type] \in Request
      BY DEF Request
    <3> QED
      BY <2>0, <3>1 DEF TypeOK
  <2>3. up' \in [Clusters -> Seq(Message)]
    <3>1. type \in Demands \cup Releases
      BY <2>0, <2>b
    <3>2. type \notin Demands => Plain(type, l) \in Message
      BY <3>1, MessageTypes
    <3>3. CASE type \in Demands
      BY <3>3, <2>0 DEF TypeOK
    <3>4. CASE type \notin Demands
      <4>1. Append(up[c], Plain(type, l)) \in Seq(Message)
        BY <3>2, <3>4, AppendElements DEF TypeOK
      <4> QED
        BY <2>0, <3>4, <4>1 DEF SendUp, TypeOK
    <3> QED
      BY <3>3, <3>4
  <2>4. /\ down' \in [Clusters -> Seq(Message)]
        /\ outbox' \in Seq(Probe)
    <3>1. CASE StampRead(c, l)
      <4>1. [i \in DOMAIN down[c] |-> Unseen(down[c][i], l)] \in Seq(Message)
        <5>1. /\ down[c] \in Seq(Message) /\ DOMAIN down[c] = 1 .. Len(down[c])
              /\ Len(down[c]) \in Nat
              /\ \A i \in 1 .. Len(down[c]) : down[c][i] \in Message
          BY DEF TypeOK
        <5> QED
          BY <5>1, MessageTypes
      <4>2. [i \in DOMAIN outbox |->
               IF outbox[i].cluster = c
                 THEN [outbox[i] EXCEPT !.message = Unseen(outbox[i].message, l)]
                 ELSE outbox[i]] \in Seq(Probe)
        <5>1. \A p \in Probe : [p EXCEPT !.message = Unseen(p.message, l)] \in Probe
          BY MessageTypes DEF Probe
        <5>2. /\ DOMAIN outbox = 1 .. Len(outbox) /\ Len(outbox) \in Nat
              /\ \A i \in 1 .. Len(outbox) : outbox[i] \in Probe
          BY DEF TypeOK
        <5> QED
          BY <5>1, <5>2
      <4> QED
        BY <3>1, <4>1, <4>2 DEF StampRead, TypeOK
    <3> QED
      BY <2>0, <3>1 DEF TypeOK
  <2>5. EntryOK'
    BY <2>0 DEF EntryOK, Tracked
  <2> QED
    BY <2>0, <2>1, <2>2, <2>3, <2>4, <2>5 DEF TypeOK
<1>5. ASSUME NEW c \in Clusters, NEW l \in Lines, InjectAnswer(c, l)
      PROVE  Types'
  <2>1. Plain(answer[c][l], l) \in Message
    BY <1>5, MessageTypes DEF InjectAnswer, TypeOK
  <2>2. Append(up[c], Plain(answer[c][l], l)) \in Seq(Message)
    BY <2>1, AppendElements DEF TypeOK
  <2>3. TypeOK'
    BY <1>5, <2>2 DEF InjectAnswer, SendUp, SetAnswer, TypeOK, bankVars
  <2>4. EntryOK'
    BY <1>5 DEF InjectAnswer, bankVars, EntryOK, Tracked
  <2> QED
    BY <2>3, <2>4
<1>6. ASSUME NEW c \in Clusters, NEW l \in Lines, Fill(c, l)
      PROVE  Types'
  <2>1. Pend("RD_RELEASE_REQ") \in Mshr /\ Pend("EVICT_REQ") \in Mshr /\ NoMshr \in Mshr
    BY MshrTypes DEF Releases
  <2>2. \/ /\ \E m \in {Pend("RD_RELEASE_REQ"), Pend("EVICT_REQ"), NoMshr} : SetMshr(c, l, m)
           /\ cache' = cache
        \/ SetMshr(c, l, NoMshr) /\ (SetCache(c, l, "M") \/ SetCache(c, l, "S"))
    BY <1>6 DEF Fill
  <2>4. /\ mshr' \in [Clusters -> [Lines -> Mshr]]
        /\ cache' \in [Clusters -> [Lines -> {"I", "S", "M"}]]
    <3>1. \E m \in {Pend("RD_RELEASE_REQ"), Pend("EVICT_REQ"), NoMshr} : SetMshr(c, l, m)
      BY <2>2
    <3>2. cache' = cache \/ \E s \in {"I", "S", "M"} : SetCache(c, l, s)
      BY <2>2
    <3> QED
      BY <2>1, <3>1, <3>2, SetTypes DEF TypeOK
  <2>5. /\ replies' \in SUBSET Request
        /\ UNCHANGED <<answer, requests, up, down, bankVars>>
    BY <1>6 DEF Fill, TypeOK
  <2>6. TypeOK'
    BY <2>4, <2>5 DEF TypeOK, bankVars
  <2>3. EntryOK'
    BY <2>5 DEF bankVars, EntryOK, Tracked
  <2> QED
    BY <2>6, <2>3
<1>a. \A c \in Clusters : down[c] # <<>> => Tail(down[c]) \in Seq(Message)
  BY TailElements DEF TypeOK
<1>b. \A c \in Clusters : \A m \in FirstOf(down[c]) : m \in Message /\ m.line \in Lines
                                  /\ down[c] # <<>>
  BY TailElements, MessageTypes DEF TypeOK, FirstOf
<1>c. ASSUME NEW c \in Clusters, NEW m \in FirstOf(down[c]), NEW ts, ReceiveProbe(c, m, ts)
      PROVE  /\ down' \in [Clusters -> Seq(Message)]
             /\ UNCHANGED <<requests, replies, up, bankVars>>
             /\ EntryOK'
  <2>1. Tail(down[c]) \in Seq(Message)
    BY <1>a, <1>b
  <2> QED
    BY <1>c, <2>1 DEF ReceiveProbe, TypeOK, bankVars, EntryOK, Tracked
<1>7. ASSUME NEW c \in Clusters,
             ProbeIdle(c) \/ ProbeSquashes(c) \/ ProbeMarks(c)
      PROVE  Types'
  <2>1. \A t : Ack(t) \in Answers /\ Nak(t) \in Answers
    BY DEF Ack, Nak, Answers, Naks
  <2>2. CASE ProbeIdle(c)
    <3>1. PICK m \in FirstOf(down[c]) :
              /\ ReceiveProbe(c, m, Recalls)
              /\ SetCache(c, m.line, "I")
              /\ SetAnswer(c, m.line, IF cache[c][m.line] = "I" THEN Nak(m.type) ELSE Ack(m.type))
              /\ UNCHANGED mshr
      BY <2>2 DEF ProbeIdle
    <3> QED
      BY <3>1, <2>1, <1>b, <1>c DEF SetCache, SetAnswer, TypeOK, bankVars
  <2>3. CASE ProbeSquashes(c)
    <3>1. PICK m \in FirstOf(down[c]) :
              /\ ReceiveProbe(c, m, Recalls)
              /\ SetMshr(c, m.line, NoMshr)
              /\ SetAnswer(c, m.line, Nak(m.type))
              /\ UNCHANGED cache
      BY <2>3 DEF ProbeSquashes
    <3> QED
      BY <3>1, <2>1, <1>b, <1>c, MshrTypes DEF SetMshr, SetAnswer, TypeOK,
         bankVars
  <2>4. CASE ProbeMarks(c)
    <3>1. PICK m \in FirstOf(down[c]) :
              /\ ReceiveProbe(c, m, Recalls)
              /\ mshr' = [mshr EXCEPT ![c][m.line].nak = @ \/ mshr[c][m.line].type \in Demands]
              /\ SetAnswer(c, m.line, Nak(m.type))
              /\ UNCHANGED cache
      BY <2>4 DEF ProbeMarks
    <3> DEFINE nak == mshr[c][m.line].nak \/ mshr[c][m.line].type \in Demands
    <3>2. mshr[c][m.line] \in Mshr /\ nak \in BOOLEAN
      BY <1>b DEF TypeOK
    <3>3. [mshr[c][m.line] EXCEPT !.nak = nak] \in Mshr
      BY <3>2, MshrTypes
    <3>4. mshr' = [mshr EXCEPT ![c][m.line] = [mshr[c][m.line] EXCEPT !.nak = nak]]
      BY <3>1
    <3>5. mshr' \in [Clusters -> [Lines -> Mshr]]
      BY <3>4, <3>3, <1>b DEF TypeOK
    <3> QED
      BY <3>1, <3>5, <2>1, <1>b, <1>c DEF SetAnswer, TypeOK, bankVars
  <2> QED
    BY <1>7, <2>2, <2>3, <2>4
<1>8. ASSUME NEW c \in Clusters,
             BroadcastInvalidates(c) \/ BroadcastPoisonsRelease(c)
      PROVE  Types'
  <2>2. CASE BroadcastInvalidates(c)
    <3>1. PICK m \in FirstOf(down[c]) :
              /\ ReceiveProbe(c, m, {"BCAST_PROBE"})
              /\ SetMshr(c, m.line, IF Squashable(c, m.line) THEN NoMshr ELSE
                    [mshr[c][m.line] EXCEPT !.poison = mshr[c][m.line].type = "READ_REQ" /\ m.seen])
              /\ SetCache(c, m.line, "I")
              /\ SetAnswer(c, m.line, "BCAST_ACK")
      BY <2>2 DEF BroadcastInvalidates
    <3> DEFINE poison == mshr[c][m.line].type = "READ_REQ" /\ m.seen
    <3>2. mshr[c][m.line] \in Mshr /\ poison \in BOOLEAN
      BY <1>b DEF TypeOK
    <3>3. [mshr[c][m.line] EXCEPT !.poison = poison] \in Mshr /\ NoMshr \in Mshr
      BY <3>2, MshrTypes
    <3>5. mshr' \in [Clusters -> [Lines -> Mshr]]
      BY <3>1, <3>3, <1>b DEF TypeOK, SetMshr
    <3> QED
      BY <3>1, <3>5, <1>b, <1>c DEF SetAnswer, SetCache, TypeOK, bankVars,
         Answers
  <2>3. CASE BroadcastPoisonsRelease(c)
    <3>1. PICK m \in FirstOf(down[c]) :
              /\ ReceiveProbe(c, m, {"BCAST_PROBE"})
              /\ mshr' = [mshr EXCEPT ![c][m.line].poison = TRUE]
              /\ UNCHANGED <<cache, answer>>
      BY <2>3 DEF BroadcastPoisonsRelease
    <3>2. mshr[c][m.line] \in Mshr
      BY <1>b DEF TypeOK
    <3>3. [mshr[c][m.line] EXCEPT !.poison = TRUE] \in Mshr
      BY <3>2, MshrTypes
    <3>4. mshr' = [mshr EXCEPT ![c][m.line] = [mshr[c][m.line] EXCEPT !.poison = TRUE]]
      BY <3>1
    <3>5. mshr' \in [Clusters -> [Lines -> Mshr]]
      BY <3>4, <3>3, <1>b DEF TypeOK
    <3> QED
      BY <3>1, <3>5, <1>c DEF TypeOK, bankVars
  <2> QED
    BY <1>8, <2>2, <2>3
<1>9. ASSUME NEW c \in Clusters, ReleaseDone(c)
      PROVE  Types'
  <2>1. PICK l \in Lines :
    /\ down[c] # <<>>
    /\ down' = [down EXCEPT ![c] = Tail(@)]
    /\ \/ SetMshr(c, l, NoMshr) /\ SetAnswer(c, l, "BCAST_ACK")
       \/ /\ SetMshr(c, l, Pend("WRITE_REQ")) \/ SetMshr(c, l, NoMshr)
          /\ UNCHANGED answer
    /\ UNCHANGED <<cache, requests, replies, up, bankVars>>
    BY <1>9 DEF ReleaseDone
  <2>2. Pend("WRITE_REQ") \in Mshr /\ NoMshr \in Mshr
    BY MshrTypes DEF Demands
  <2>3. Tail(down[c]) \in Seq(Message)
    BY <1>a, <2>1
  <2>6. mshr' \in [Clusters -> [Lines -> Mshr]]
    BY <2>1, <2>2, SetTypes
  <2>7. answer' \in [Clusters -> [Lines -> Answers \cup {None}]]
    BY <2>1, SetTypes DEF TypeOK, Answers
  <2>8. down' \in [Clusters -> Seq(Message)]
    BY <2>1, <2>3 DEF TypeOK
  <2>4. TypeOK'
    BY <2>1, <2>6, <2>7, <2>8 DEF TypeOK, bankVars
  <2>5. EntryOK'
    BY <2>1 DEF bankVars, EntryOK, Tracked
  <2> QED
    BY <2>4, <2>5
<1>10. ASSUME NEW r \in requests, Reply(r)
       PROVE  Types'
  <2>1. PICK w \in Tracked(r.line) :
    /\ SetEntry(w, ClearFillPending(Downgrade(entry[w], r.type), r.cluster))
    /\ Permitted(entry[w], r)
    /\ requests' = requests \ {r} /\ replies' = replies \cup {r}
    /\ UNCHANGED <<clusterVars, up, down, replacing, outbox, pointers>>
    BY <1>10 DEF Reply
  <2> DEFINE e == ClearFillPending(Downgrade(entry[w], r.type), r.cluster)
  <2>2. w \in Ways /\ entry[w] \in Entry /\ EntryShape(entry[w])
    BY DEF TypeOK, EntryOK, Tracked
  <2>3. e \in Entry /\ e.addr = entry[w].addr
    <3>1. "READ_SHARED" \in States
      BY DEF States
    <3>2. Downgrade(entry[w], r.type) \in Entry /\ Downgrade(entry[w], r.type).addr = entry[w].addr
      BY <2>2, <3>1, EntryUpdates DEF Downgrade, Entry
    <3>3. Downgrade(entry[w], r.type).fillPending \ {r.cluster} \in SUBSET Clusters
      BY <3>2, EntryFields
    <3> HIDE DEF e
    <3> QED
      BY <3>2, <3>3, EntryUpdates DEF ClearFillPending, Entry, e
  <2>4. EntryShape(e)
    BY <2>1, <2>2 DEF EntryShape, ClearFillPending, Downgrade, Entry,
       WriteStates,
       LockedStates, EvictionLocks, BcastStates, Permitted, WritePermitted, ReadPermitted
  <2>5. entry[w].state # "INVALID"
    BY DEF Tracked
  <2> HIDE DEF e
  <2>6. entry' \in [Ways -> Entry] /\ EntryOK'
    BY <2>1, <2>2, <2>3, <2>4, <2>5, EntrySet DEF e
  <2> QED
    BY <2>1, <2>6 DEF TypeOK, clusterVars
<1>d. \A r \in requests : r.cluster \in Clusters /\ r.line \in Lines /\ r.type \in Demands
  BY DEF TypeOK, Request
<1>e. ASSUME NEW w \in Ways
      PROVE  /\ entry[w] \in Entry /\ EntryShape(entry[w])
             /\ entry[w].sharers \in SUBSET Clusters
             /\ entry[w].addr \in Lines \cup {None}
             /\ entry[w].state \in WriteStates => Owner(entry[w]) \in Clusters
  <2>1. entry[w] \in Entry /\ EntryShape(entry[w])
    BY DEF TypeOK, EntryOK
  <2>2. entry[w].state \in WriteStates => Owner(entry[w]) \in Clusters
    BY <2>1, OwnerNamed DEF EntryShape
  <2> QED
    BY <2>1, <2>2, EntryFields
<1>f. /\ {"INVALIDATE_PROBE", "WR_RELEASE_PROBE", "BCAST_PROBE"} = Probes
      /\ States = {"INVALID", "READ_SHARED", "WRITE_PRIV", "PENDING_WB", "PENDING_WRITE",
                   "EVICTION_LOCK_READ", "EVICTION_LOCK_WRITE", "PENDING_WRITE_BCAST",
                   "EVICTION_LOCK_READ_BCAST"}
  BY DEF Probes, Recalls, States, LockedStates, EvictionLocks, BcastStates
<1>11. ASSUME NEW r \in requests, ShareLine(r)
       PROVE  Types'
  <2>1. PICK w \in Ways :
    /\ Hit(r, w) /\ entry[w].state = "READ_SHARED"
    /\ SetEntry(w, [Join(entry[w], r.cluster) EXCEPT !.fillPending = @ \cup {r.cluster}])
    /\ UNCHANGED outbox
    BY <1>11 DEF ShareLine
  <2> DEFINE j == Join(entry[w], r.cluster)
             e == [j EXCEPT !.fillPending = @ \cup {r.cluster}]
  <2>2. j \in Entry
    BY <1>d, <1>e DEF Join, Entry
  <2>3. /\ j.addr = entry[w].addr /\ j.state = entry[w].state
        /\ j.nakWaitlist = entry[w].nakWaitlist
    BY <1>e DEF Join, Entry
  <2> HIDE DEF j
  <2>4. e \in Entry /\ e.addr = entry[w].addr /\ e.state = entry[w].state
        /\ e.nakWaitlist = entry[w].nakWaitlist
    BY <2>2, <2>3, <1>d DEF Entry
  <2> HIDE DEF e
  <2>5. EntryShape(e)
    BY <2>1, <2>4, <1>e DEF EntryShape, WriteStates
  <2>6. SetEntry(w, e)
    BY <2>1 DEF e, j
  <2>7. entry' \in [Ways -> Entry] /\ EntryOK'
    BY <2>1, <2>4, <2>5, <2>6, EntrySet
  <2> QED
    BY <2>1, <2>7 DEF Hit, TypeOK, clusterVars
<1>12. ASSUME NEW r \in requests, InvalidateSharers(r)
       PROVE  Types'
  <2>1. PICK w \in Ways :
    LET others == entry[w].sharers \ {r.cluster} IN
    /\ Hit(r, w) /\ entry[w].state = "READ_SHARED"
    /\ SetEntry(w, IF entry[w].sharers = {r.cluster}
         THEN [entry[w] EXCEPT !.state = "WRITE_PRIV",
                               !.fillPending = @ \cup {r.cluster}]
         ELSE [entry[w] EXCEPT !.state = "PENDING_WRITE", !.sharers = others,
                               !.waiting = r.cluster])
    /\ SendProbes(others, "INVALIDATE_PROBE", r.line)
    BY <1>12 DEF InvalidateSharers
  <2> DEFINE others == entry[w].sharers \ {r.cluster}
             e == IF entry[w].sharers = {r.cluster}
         THEN [entry[w] EXCEPT !.state = "WRITE_PRIV",
                               !.fillPending = @ \cup {r.cluster}]
         ELSE [entry[w] EXCEPT !.state = "PENDING_WRITE", !.sharers = others,
                               !.waiting = r.cluster]
  <2>2. e \in Entry /\ e.addr = entry[w].addr
    BY <1>d, <1>e, <1>f DEF Entry
  <2>3. EntryShape(e)
    BY <1>d, <1>e, <2>1 DEF Entry, EntryShape, WriteStates, LockedStates,
       EvictionLocks, BcastStates
  <2>4. others \in SUBSET Clusters
    BY <1>e
  <2>6. SetEntry(w, e) /\ SendProbes(others, "INVALIDATE_PROBE", r.line)
    BY <2>1
  <2> HIDE DEF e, others
  <2>7. entry' \in [Ways -> Entry] /\ EntryOK'
    BY <2>1, <2>2, <2>3, <2>6, EntrySet
  <2>8. outbox' \in Seq(Probe)
    BY <1>d, <1>f, <2>4, <2>6, ProbesSent
  <2> QED
    BY <2>1, <2>7, <2>8 DEF Hit, TypeOK, clusterVars
<1>g. ASSUME NEW w \in Ways, NEW s \in BcastStates, NEW cs \in SUBSET Clusters,
             Broadcast(w, s, cs), entry[w].state = "READ_SHARED"
      PROVE  /\ entry' \in [Ways -> Entry] /\ EntryOK'
             /\ outbox' \in Seq(Probe)
  <2> DEFINE e == [entry[w] EXCEPT !.state = s, !.sharers = cs]
  <2>1. e \in Entry /\ e.addr = entry[w].addr
    BY <1>e, <1>f DEF Entry, BcastStates
  <2>2. EntryShape(e)
    BY <1>e, <1>g DEF Entry, EntryShape, WriteStates, LockedStates, BcastStates
  <2>3. SetEntry(w, e) /\ SendProbes(cs, "BCAST_PROBE", entry[w].addr)
    BY <1>g DEF Broadcast
  <2>4. entry[w].addr \in Lines
    BY <1>e, <1>g DEF EntryShape
  <2> HIDE DEF e
  <2> QED
    BY <1>f, <1>g, <2>1, <2>2, <2>3, <2>4, EntrySet, ProbesSent
<1>13. ASSUME NEW r \in requests, InvalidateByBroadcast(r)
       PROVE  Types'
  <2>1. PICK w \in Ways :
    /\ Hit(r, w) /\ entry[w].state = "READ_SHARED"
    /\ Broadcast(w, "PENDING_WRITE_BCAST", Clusters \ {r.cluster})
    BY <1>13 DEF InvalidateByBroadcast
  <2>2. entry' \in [Ways -> Entry] /\ EntryOK' /\ outbox' \in Seq(Probe)
    BY <2>1, <1>g DEF BcastStates
  <2> QED
    BY <2>1, <2>2 DEF Hit, TypeOK, clusterVars
<1>14. ASSUME NEW r \in requests, RecallOwner(r)
       PROVE  Types'
  <2>1. PICK w \in Ways :
    /\ Hit(r, w) /\ entry[w].state = "WRITE_PRIV"
    /\ SetEntry(w, [entry[w] EXCEPT
         !.state = IF r.type = "READ_REQ" THEN "PENDING_WB"
                                          ELSE "PENDING_WRITE",
         !.waiting = r.cluster])
    /\ SendProbes({Owner(entry[w])}, "WR_RELEASE_PROBE", r.line)
    BY <1>14 DEF RecallOwner
  <2> DEFINE s == IF r.type = "READ_REQ" THEN "PENDING_WB" ELSE "PENDING_WRITE"
             e == [entry[w] EXCEPT !.state = s, !.waiting = r.cluster]
  <2>0. s \in {"PENDING_WB", "PENDING_WRITE"}
    OBVIOUS
  <2> HIDE DEF s
  <2>2. e \in Entry /\ e.addr = entry[w].addr
    BY <2>0, <1>d, <1>e, <1>f DEF Entry
  <2>3. EntryShape(e)
    BY <2>0, <1>d, <1>e, <2>1 DEF Entry, EntryShape, WriteStates, LockedStates,
       EvictionLocks, BcastStates
  <2>4. {Owner(entry[w])} \in SUBSET Clusters
    BY <1>e, <2>1 DEF WriteStates
  <2>6. SetEntry(w, e)
    BY <2>1 DEF s
  <2> HIDE DEF e
  <2>7. entry' \in [Ways -> Entry] /\ EntryOK'
    BY <2>1, <2>2, <2>3, <2>6, EntrySet
  <2>8. outbox' \in Seq(Probe)
    BY <1>d, <1>f, <2>1, <2>4, ProbesSent
  <2> QED
    BY <2>1, <2>7, <2>8 DEF Hit, TypeOK, clusterVars
<1>15. ASSUME NEW r \in requests, Allocate(r)
       PROVE  Types'
  <2>1. PICK w \in Ways :
    /\ MayReplace(r, w)
    /\ SetEntry(w, Owned(r.line, IF r.type = "READ_REQ" THEN "READ_SHARED"
                                                        ELSE "WRITE_PRIV",
                         r.cluster))
    /\ replacing' = NoReplacement
    /\ UNCHANGED outbox
    BY <1>15 DEF Allocate
  <2> DEFINE s == IF r.type = "READ_REQ" THEN "READ_SHARED" ELSE "WRITE_PRIV"
             e == Owned(r.line, s, r.cluster)
  <2>2. s \in {"READ_SHARED", "WRITE_PRIV"}
    OBVIOUS
  <2>3. Tracked(r.line) = {}
    BY <2>1 DEF MayReplace
  <2> HIDE DEF s
  <2>4. e \in Entry /\ EntryShape(e) /\ e.addr = r.line
    BY <2>2, <1>d, OwnedTypes
  <2>5. SetEntry(w, e)
    BY <2>1 DEF s
  <2> HIDE DEF e
  <2>6. entry' \in [Ways -> Entry] /\ EntryOK'
    BY <2>3, <2>4, <2>5, EntrySet
  <2> QED
    BY <2>1, <2>6 DEF MayReplace, TypeOK, clusterVars, Replacement
<1>16. ASSUME NEW r \in requests, Evict(r)
       PROVE  Types'
  <2>1. PICK w \in Ways :
    /\ MayReplace(r, w) /\ entry[w].state # "INVALID"
    /\ replacing' = [way |-> w, aggressor |-> r.line]
    /\ \/ ~Blocked(entry[w]) /\ RecallVictim(w)
       \/ UNCHANGED <<entry, outbox>>
    BY <1>16 DEF Evict
  <2>2. replacing' \in Replacement
    BY <2>1, <1>d DEF Replacement
  <2>3. entry' \in [Ways -> Entry] /\ EntryOK' /\ outbox' \in Seq(Probe)
    <3>1. CASE UNCHANGED <<entry, outbox>>
      BY <3>1 DEF TypeOK, EntryOK, Tracked
    <3>2. CASE ~Blocked(entry[w]) /\ RecallVictim(w)
      <4> DEFINE e == entry[w]
      <4>1. e.state \in {"READ_SHARED", "WRITE_PRIV"} /\ e.addr \in Lines /\ e.sharers \in SUBSET Clusters
        BY <2>1, <3>2, <1>e, <1>f, EntryFields DEF Blocked, LockedStates,
           EvictionLocks, BcastStates, EntryShape
      <4>2. CASE e.state = "WRITE_PRIV"
        <5> DEFINE f == [e EXCEPT !.state = "EVICTION_LOCK_WRITE"]
        <5>1. SetEntry(w, f) /\ SendProbes({Owner(e)}, "WR_RELEASE_PROBE", e.addr)
          BY <3>2, <4>2 DEF RecallVictim
        <5>2. f \in Entry /\ f.addr = e.addr
          BY <1>e, <1>f DEF Entry
        <5>3. EntryShape(f) /\ {Owner(e)} \in SUBSET Clusters
          BY <4>2, <1>e DEF Entry, EntryShape, WriteStates, LockedStates,
             EvictionLocks
        <5> HIDE DEF f
        <5> QED
          BY <2>1, <4>1, <5>1, <5>2, <5>3, <1>f, EntrySet, ProbesSent
      <4>3. CASE e.state = "READ_SHARED" /\ e.bcast
        <5>1. Broadcast(w, "EVICTION_LOCK_READ_BCAST", Clusters)
          BY <3>2, <4>3 DEF RecallVictim
        <5> QED
          BY <5>1, <4>3, <1>g DEF BcastStates
      <4>4. CASE e.state = "READ_SHARED" /\ ~e.bcast
        <5> DEFINE f == [e EXCEPT !.state = "EVICTION_LOCK_READ"]
        <5>1. SetEntry(w, f) /\ SendProbes(e.sharers, "INVALIDATE_PROBE", e.addr)
          BY <3>2, <4>4 DEF RecallVictim
        <5>2. f \in Entry /\ f.addr = e.addr
          BY <1>e, <1>f DEF Entry
        <5>3. EntryShape(f)
          BY <4>4, <1>e DEF Entry, EntryShape, WriteStates, LockedStates,
             EvictionLocks
        <5> HIDE DEF f
        <5> QED
          BY <2>1, <4>1, <5>1, <5>2, <5>3, <1>f, EntrySet, ProbesSent
      <4> QED
        BY <4>1, <4>2, <4>3, <4>4
    <3> QED
      BY <2>1, <3>1, <3>2
  <2> QED
    BY <2>1, <2>2, <2>3 DEF MayReplace, TypeOK, clusterVars
<1>17. ASSUME SendProbe
       PROVE  Types'
  <2>1. /\ outbox # <<>>
        /\ down' = [down EXCEPT ![NextProbe.cluster] = Append(@, NextProbe.message)]
        /\ outbox' = Tail(outbox)
        /\ UNCHANGED <<clusterVars, requests, replies, up, entry, replacing, pointers>>
    BY <1>17 DEF SendProbe
  <2>2. NextProbe \in Probe /\ outbox' \in Seq(Probe)
    BY <2>1, TailElements DEF NextProbe, TypeOK
  <2>3. NextProbe.cluster \in Clusters /\ NextProbe.message \in Message
    BY <2>2 DEF Probe
  <2>4. Append(down[NextProbe.cluster], NextProbe.message) \in Seq(Message)
    BY <2>3, AppendElements DEF TypeOK
  <2>5. down' \in [Clusters -> Seq(Message)]
    BY <2>1, <2>3, <2>4 DEF TypeOK
  <2>6. EntryOK'
    BY <2>1 DEF EntryOK, Tracked
  <2> QED
    BY <2>1, <2>2, <2>5, <2>6 DEF TypeOK, clusterVars
<1>h. ASSUME NEW c \in Clusters, NEW m \in FirstOf(up[c]), NEW w \in Ways, Receive(c, m, w)
      PROVE  /\ m \in Message /\ w \in Tracked(m.line)
             /\ up' \in [Clusters -> Seq(Message)]
             /\ down' \in [Clusters -> Seq(Message)]
             /\ UNCHANGED <<clusterVars, requests, replies, outbox, pointers>>
  <2>1. up[c] # <<>> /\ m = Head(up[c]) /\ up[c] \in Seq(Message)
    BY DEF FirstOf, TypeOK
  <2>2. m \in Message /\ Tail(up[c]) \in Seq(Message)
    BY <2>1, TailElements
  <2>3. Append(down[c], m) \in Seq(Message)
    BY <2>2, AppendElements DEF TypeOK
  <2>4. /\ up' = [up EXCEPT ![c] = Tail(@)]
        /\ down' = [down EXCEPT ![c] = Append(@, m)] \/ down' = down
        /\ w \in Tracked(m.line)
        /\ UNCHANGED <<clusterVars, requests, replies, outbox, pointers>>
    BY <1>h DEF Receive
  <2>5. up' \in [Clusters -> Seq(Message)]
    BY <2>2, <2>4 DEF TypeOK
  <2>6. down' \in [Clusters -> Seq(Message)]
    BY <2>3, <2>4 DEF TypeOK
  <2> QED
    BY <2>2, <2>4, <2>5, <2>6
<1>i. ASSUME NEW c \in Clusters, NEW m \in FirstOf(up[c]), NEW w \in Ways, Receive(c, m, w),
             entry' \in [Ways -> Entry], EntryOK', replacing' \in Replacement
      PROVE  Types'
  BY <1>h, <1>i DEF TypeOK, clusterVars
<1>j. ASSUME NEW w \in Ways, entry[w].state # "INVALID"
      PROVE  /\ SetEntry(w, Reset) => entry' \in [Ways -> Entry] /\ EntryOK'
             /\ SetEntry(w, entry[w]) => entry' \in [Ways -> Entry] /\ EntryOK'
             /\ \A cs \in SUBSET Clusters :
                  entry[w].state \notin WriteStates
                     /\ SetEntry(w, [entry[w] EXCEPT !.sharers = cs])
                     => entry' \in [Ways -> Entry] /\ EntryOK'
             /\ \A c \in Clusters :
                  entry[w].state \in LockedStates /\ Note(w, c)
                     => entry' \in [Ways -> Entry] /\ EntryOK'
  <2>1. SetEntry(w, Reset) => entry' \in [Ways -> Entry] /\ EntryOK'
    BY ResetTypes, EntrySet
  <2>2. SetEntry(w, entry[w]) => entry' \in [Ways -> Entry] /\ EntryOK'
    BY <1>e, <1>j, EntrySet
  <2>3. ASSUME NEW cs \in SUBSET Clusters, entry[w].state \notin WriteStates,
               SetEntry(w, [entry[w] EXCEPT !.sharers = cs])
        PROVE  entry' \in [Ways -> Entry] /\ EntryOK'
    <3> DEFINE f == [entry[w] EXCEPT !.sharers = cs]
    <3>1. f \in Entry /\ f.addr = entry[w].addr
      BY <1>e DEF Entry
    <3>2. EntryShape(f)
      BY <2>3, <1>e DEF EntryShape, Entry
    <3> HIDE DEF f
    <3>3. SetEntry(w, f)
      BY <2>3 DEF f
    <3> QED
      BY <1>j, <3>1, <3>2, <3>3, EntrySet
  <2>4. ASSUME NEW c \in Clusters, entry[w].state \in LockedStates, Note(w, c)
        PROVE  entry' \in [Ways -> Entry] /\ EntryOK'
    <3> DEFINE f == [entry[w] EXCEPT !.nakWaitlist = @ \cup {c}]
    <3>1. f \in Entry /\ f.addr = entry[w].addr
      BY <1>e DEF Entry
    <3>2. EntryShape(f)
      BY <2>4, <1>e DEF EntryShape, Entry
    <3> HIDE DEF f
    <3>3. SetEntry(w, f)
      BY <2>4 DEF f, Note
    <3> QED
      BY <1>j, <3>1, <3>2, <3>3, EntrySet
  <2> QED
    BY <2>1, <2>2, <2>3, <2>4
<1>18. ASSUME NEW c \in Clusters, SharerLeaves(c)
       PROVE  Types'
  <2>1. PICK w \in Ways, m \in FirstOf(up[c]) :
    LET rest == entry[w].sharers \ {c} IN
    /\ Receive(c, m, w)
    /\ entry[w].state = "READ_SHARED"
    /\ SetEntry(w, IF rest = {} THEN Reset
                                ELSE [entry[w] EXCEPT !.sharers = rest])
    /\ UNCHANGED replacing
    BY <1>18 DEF SharerLeaves
  <2>2. entry[w].sharers \ {c} \in SUBSET Clusters
    BY <1>e
  <2>3. entry' \in [Ways -> Entry] /\ EntryOK'
    BY <2>1, <2>2, <1>j DEF WriteStates
  <2> QED
    BY <2>1, <2>3, <1>i DEF TypeOK
<1>19. ASSUME NEW c \in Clusters, ReadRelease(c)
       PROVE  Types'
  <2>1. PICK w \in Ways, m \in FirstOf(up[c]) :
    LET rest == entry[w].sharers \ {c} IN
    /\ Receive(c, m, w)
    /\ entry[w].state \in EvictionLocks \cup {"PENDING_WRITE"}
    /\ IF ~Completes(entry[w], c, m) THEN Note(w, c) /\ UNCHANGED replacing
       ELSE IF rest # {}
         THEN SetEntry(w, [entry[w] EXCEPT !.sharers = rest])
              /\ UNCHANGED replacing
         ELSE SetEntry(w, Reset) /\ replacing' = NoReplacement
    BY <1>19 DEF ReadRelease
  <2> DEFINE rest == entry[w].sharers \ {c}
  <2>2. rest \in SUBSET Clusters
    BY <1>e
  <2>3. replacing' \in Replacement
    BY <2>1 DEF Replacement, TypeOK
  <2>4. \/ Note(w, c) \/ SetEntry(w, Reset)
        \/ rest # {} /\ SetEntry(w, [entry[w] EXCEPT !.sharers = rest])
    BY <2>1
  <2>5. CASE Note(w, c) \/ SetEntry(w, Reset)
    <3>1. entry[w].state # "INVALID" /\ entry[w].state \in LockedStates
      BY <2>1 DEF LockedStates, EvictionLocks
    <3>2. entry' \in [Ways -> Entry] /\ EntryOK'
      BY <2>5, <3>1, <1>j
    <3> QED
      BY <2>1, <2>3, <3>2, <1>i
  <2>6. CASE rest # {} /\ SetEntry(w, [entry[w] EXCEPT !.sharers = rest])
    <3>1. CASE entry[w].state \notin WriteStates
      <4>1. entry' \in [Ways -> Entry] /\ EntryOK'
        BY <2>1, <2>2, <2>6, <3>1, <1>j DEF EvictionLocks
      <4> QED
        BY <2>1, <2>3, <4>1, <1>i
    <3>2. CASE entry[w].state \in WriteStates
      <4>1. rest = entry[w].sharers
        BY <2>6, <3>2, <1>e DEF EntryShape
      <4>2. [entry[w] EXCEPT !.sharers = rest] = entry[w]
        BY <4>1, <1>e DEF Entry
      <4>3. entry' \in [Ways -> Entry] /\ EntryOK'
        BY <2>1, <2>6, <4>2, <1>j DEF EvictionLocks
      <4> QED
        BY <2>1, <2>3, <4>3, <1>i
    <3> QED
      BY <3>1, <3>2
  <2> QED
    BY <2>4, <2>5, <2>6
<1>20. ASSUME NEW c \in Clusters, BroadcastRelease(c)
       PROVE  Types'
  <2>1. PICK w \in Ways, m \in FirstOf(up[c]) :
    LET rest == entry[w].sharers \ {c} IN
    /\ Receive(c, m, w)
    /\ entry[w].state \in BcastStates
    /\ SetEntry(w, IF m.type = "RD_RELEASE_REQ" THEN entry[w]
                   ELSE IF rest = {} THEN Reset
                   ELSE [entry[w] EXCEPT !.sharers = rest])
    /\ UNCHANGED replacing
    BY <1>20 DEF BroadcastRelease
  <2>2. entry[w].sharers \ {c} \in SUBSET Clusters
    BY <1>e
  <2>3. entry' \in [Ways -> Entry] /\ EntryOK'
    BY <2>1, <2>2, <1>j DEF WriteStates, BcastStates
  <2> QED
    BY <2>1, <2>3, <1>i DEF TypeOK
<1>21. ASSUME NEW c \in Clusters, OwnerLeaves(c)
       PROVE  Types'
  <2>1. PICK w \in Ways, m \in FirstOf(up[c]) :
    /\ Receive(c, m, w)
    /\ entry[w].state = "WRITE_PRIV"
    /\ SetEntry(w, Reset)
    /\ UNCHANGED replacing
    BY <1>21 DEF OwnerLeaves
  <2>3. entry' \in [Ways -> Entry] /\ EntryOK'
    BY <2>1, <1>j
  <2> QED
    BY <2>1, <2>3, <1>i DEF TypeOK
<1>22. ASSUME NEW c \in Clusters, WriteRelease(c)
       PROVE  Types'
  <2>1. PICK w \in Ways, m \in FirstOf(up[c]) :
    LET e == entry[w] IN
    /\ Receive(c, m, w)
    /\ e.state \in LockedStates \ BcastStates /\ e.sharers = {c}
    /\ IF ~Completes(e, c, m) THEN Note(w, c) /\ UNCHANGED replacing
       ELSE IF e.state \in EvictionLocks
         THEN SetEntry(w, Reset) /\ replacing' = NoReplacement
         ELSE /\ SetEntry(w, Owned(e.addr, IF e.state = "PENDING_WB"
                                THEN "READ_SHARED" ELSE "WRITE_PRIV",
                              e.waiting))
              /\ UNCHANGED replacing
    BY <1>22 DEF WriteRelease
  <2> DEFINE s == IF entry[w].state = "PENDING_WB" THEN "READ_SHARED" ELSE "WRITE_PRIV"
             f == Owned(entry[w].addr, s, entry[w].waiting)
  <2>2. entry[w].state # "INVALID" /\ entry[w].state \in LockedStates
    BY <2>1 DEF LockedStates, EvictionLocks, BcastStates
  <2>3. replacing' \in Replacement
    BY <2>1 DEF Replacement, TypeOK
  <2>4. \/ Note(w, c) \/ SetEntry(w, Reset)
        \/ entry[w].state \in {"PENDING_WB", "PENDING_WRITE"} /\ SetEntry(w, f)
    BY <2>1 DEF LockedStates
  <2>5. CASE Note(w, c) \/ SetEntry(w, Reset)
    BY <2>1, <2>2, <2>3, <2>5, <1>i, <1>j
  <2>6. CASE entry[w].state \in {"PENDING_WB", "PENDING_WRITE"} /\ SetEntry(w, f)
    <3>1. entry[w].addr \in Lines /\ entry[w].waiting \in Clusters
      BY <2>6, <2>2, <1>e DEF EntryShape
    <3>2. s \in {"READ_SHARED", "WRITE_PRIV"}
      OBVIOUS
    <3> HIDE DEF s
    <3>3. f \in Entry /\ EntryShape(f) /\ f.addr = entry[w].addr
      BY <3>1, <3>2, OwnedTypes
    <3> HIDE DEF f
    <3>4. entry' \in [Ways -> Entry] /\ EntryOK'
      BY <2>2, <2>6, <3>3, EntrySet
    <3> QED
      BY <2>1, <2>3, <3>4, <1>i
  <2> QED
    BY <2>4, <2>5, <2>6
<1>23. CASE \E c \in Clusters : Cluster(c)
  BY <1>23, <1>1, <1>2, <1>3, <1>4, <1>5, <1>6, <1>7, <1>8, <1>9 DEF Cluster
<1>24. CASE \E c \in Clusters : ProbeResponse(c)
  BY <1>24, <1>18, <1>19, <1>20, <1>21, <1>22 DEF ProbeResponse, ReleaseRead,
     ReleaseWrite
<1>25. CASE \E r \in requests : Serve(r)
  BY <1>25, <1>10, <1>11, <1>12, <1>13, <1>14, <1>15, <1>16 DEF Serve,
     RequestRead, RequestWrite
<1> QED
  BY <1>17, <1>23, <1>24, <1>25 DEF Next

(* The variables have their types, every directory entry is well formed and  *)
(* a line never has two entries in its set (directory.cpp).                  *)
THEOREM TypesInvariant == Spec => []Types
<1>1. Types /\ UNCHANGED vars => Types'
  BY DEF Types, TypeOK, EntryOK, Tracked, vars, clusterVars, bankVars
<1>2. Types /\ [Next]_vars => Types'
  BY <1>1, StepTypes
<1> QED
  BY InitTypes, <1>2, PTL DEF Spec
----------------------------------------------------------------------------
(***************************************************************************)
(* The coherence of the protocol.                                          *)
(***************************************************************************)

(* The entry of a line.                                                      *)
EntryOf(l) == IF Tracked(l) = {} THEN Reset
              ELSE entry[CHOOSE w \in Tracked(l) : TRUE]

(* The requests and replies of a cluster and a line; the messages on their   *)
(* way down to a cluster, those in the outbox included; the types of those   *)
(* that are about a line; and whether one is a broadcast that has not seen a *)
(* reply.                                                                    *)
Ask(c, l, t) == [cluster |-> c, line |-> l, type |-> t]
ReqOf(c, l) == {t \in Demands : Ask(c, l, t) \in requests}
RepOf(c, l) == {t \in Demands : Ask(c, l, t) \in replies}

ComingTo(c) == {m \in Message :
  m \in ToSet(down[c]) \/ [cluster |-> c, message |-> m] \in ToSet(outbox)}
TypesIn(S, l, T) == {t \in T : \E m \in S : m.line = l /\ m.type = t}
ProbesOf(c, l) == TypesIn(ComingTo(c), l, Probes)
Blind(c, l) ==
  \E m \in ComingTo(c) : m.line = l /\ m.type = "BCAST_PROBE" /\ ~m.seen
(* The answers and releases on their way up, and the replies to releases on  *)
(* their way down.                                                           *)
AnsOf(c, l) == TypesIn(ToSet(up[c]), l, Answers)
RelOf(c, l) == TypesIn(ToSet(up[c]), l, Releases)
RepRelOf(c, l) == TypesIn(ToSet(down[c]), l, Releases)

(* The entry of every line agrees with what every cluster has of it.         *)
Agrees(c, l, e) ==
  Sound(c, e, cache[c][l], mshr[c][l], answer[c][l], ReqOf(c, l), RepOf(c, l),
        ProbesOf(c, l), Blind(c, l), AnsOf(c, l), RelOf(c, l), RepRelOf(c, l))
Coherent == \A c \in Clusters, l \in Lines : Agrees(c, l, EntryOf(l))

(* No two messages of a queue say the same, and what is to be sent has not   *)
(* been sent yet.                                                            *)
Alike(m, n) == m.line = n.line /\ m.type = n.type
AlikeProbes(p, q) == p.cluster = q.cluster /\ Alike(p.message, q.message)
NoTwins(q) == \A i, j \in DOMAIN q : Alike(q[i], q[j]) => i = j
Distinct ==
  /\ \A c \in Clusters : NoTwins(up[c]) /\ NoTwins(down[c])
  /\ \A i, j \in DOMAIN outbox : AlikeProbes(outbox[i], outbox[j]) => i = j
  /\ \A p \in ToSet(outbox) :
       \A m \in ToSet(down[p.cluster]) : ~Alike(m, p.message)
(* Only probes and replies to releases go down, only answers and releases go *)
(* up.                                                                       *)
Directed ==
  /\ \A p \in ToSet(outbox) : p.message.type \in Probes
  /\ \A c \in Clusters :
       /\ \A m \in ToSet(down[c]) : m.type \in Probes \cup Releases
       /\ \A m \in ToSet(up[c]) : m.type \in Answers \cup Releases

(* The inductive invariant.                                                  *)
IInv == Types /\ Distinct /\ Directed /\ Coherent

-----------------------------------------------------------------------------
(* What the views depend on.                                                 *)

(* The views of a cluster and a line have their types.                       *)
LEMMA ViewsTyped ==
  ASSUME Types, NEW c \in Clusters, NEW l \in Lines
  PROVE  Typed(cache[c][l], mshr[c][l], answer[c][l], ReqOf(c, l),
               RepOf(c, l), ProbesOf(c, l), Blind(c, l), AnsOf(c, l),
               RelOf(c, l), RepRelOf(c, l))
BY DEF Types, TypeOK, Typed, ReqOf, RepOf, ProbesOf, Blind, AnsOf, RelOf,
       RepRelOf, TypesIn

(* The entry of a line is the one in the way that tracks it.                 *)
LEMMA EntryFound ==
  ASSUME Types, NEW w, NEW l \in Lines, w \in Tracked(l)
  PROVE  EntryOf(l) = entry[w]
BY DEF Types, EntryOK, EntryOf

(* A line no way tracks has the empty entry.                                 *)
LEMMA EntryMissing ==
  ASSUME NEW l, Tracked(l) = {}
  PROVE  EntryOf(l) = Reset
BY DEF EntryOf

(* Views a step does not touch: of requests and replies,                     *)
LEMMA DemandFrame ==
  /\ requests' = requests => \A c, l : ReqOf(c, l)' = ReqOf(c, l)
  /\ replies' = replies => \A c, l : RepOf(c, l)' = RepOf(c, l)
BY DEF ReqOf, RepOf

(* of what goes up,                                                          *)
LEMMA UpFrame ==
  ASSUME NEW c, up'[c] = up[c]
  PROVE  \A l : AnsOf(c, l)' = AnsOf(c, l) /\ RelOf(c, l)' = RelOf(c, l)
BY DEF AnsOf, RelOf

(* of the replies to releases,                                               *)
LEMMA DownFrame ==
  ASSUME NEW c, down'[c] = down[c]
  PROVE  \A l : RepRelOf(c, l)' = RepRelOf(c, l)
BY DEF RepRelOf

(* of what is on its way down,                                               *)
LEMMA ComingFrame ==
  ASSUME NEW c, down'[c] = down[c], outbox' = outbox
  PROVE  ComingTo(c)' = ComingTo(c)
BY DEF ComingTo

(* of the probes,                                                            *)
LEMMA ProbeFrame ==
  ASSUME NEW c, ComingTo(c)' = ComingTo(c)
  PROVE  \A l : ProbesOf(c, l)' = ProbesOf(c, l) /\ Blind(c, l)' = Blind(c, l)
BY DEF ProbesOf, Blind

(* and of the entries.                                                       *)
LEMMA EntryFrame ==
  ASSUME entry' = entry
  PROVE  \A l : EntryOf(l)' = EntryOf(l)
BY DEF EntryOf, Tracked

(* Nothing a pair's soundness depends on changes.                            *)
SameHeld(c, l) ==
  /\ cache'[c][l] = cache[c][l] /\ mshr'[c][l] = mshr[c][l]
  /\ answer'[c][l] = answer[c][l]
SameSent(c, l) ==
  /\ ReqOf(c, l)' = ReqOf(c, l) /\ RepOf(c, l)' = RepOf(c, l)
  /\ ProbesOf(c, l)' = ProbesOf(c, l) /\ Blind(c, l)' = Blind(c, l)
  /\ AnsOf(c, l)' = AnsOf(c, l) /\ RelOf(c, l)' = RelOf(c, l)
  /\ RepRelOf(c, l)' = RepRelOf(c, l)

(* Then a pair agrees as before.                                             *)
LEMMA SameAgrees ==
  ASSUME NEW c, NEW l, NEW e, SameHeld(c, l), SameSent(c, l), Agrees(c, l, e)
  PROVE  Sound(c, e, cache'[c][l], mshr'[c][l], answer'[c][l], ReqOf(c, l)',
               RepOf(c, l)', ProbesOf(c, l)', Blind(c, l)', AnsOf(c, l)',
               RelOf(c, l)', RepRelOf(c, l)')
BY DEF SameHeld, SameSent, Agrees

(* A step of one cluster for one line.                                       *)
LEMMA LocalStep ==
  ASSUME Coherent, NEW c \in Clusters, NEW l \in Lines, entry' = entry,
         \A d \in Clusters, k \in Lines :
           ~(d = c /\ k = l) => SameHeld(d, k) /\ SameSent(d, k),
         Sound(c, EntryOf(l), cache'[c][l], mshr'[c][l], answer'[c][l],
               ReqOf(c, l)', RepOf(c, l)', ProbesOf(c, l)', Blind(c, l)',
               AnsOf(c, l)', RelOf(c, l)', RepRelOf(c, l)')
  PROVE  Coherent'
<1> SUFFICES ASSUME NEW d \in Clusters, NEW k \in Lines
             PROVE  Agrees(d, k, EntryOf(k))'
  BY DEF Coherent
<1>1. EntryOf(k)' = EntryOf(k)
  BY EntryFrame
<1>2. CASE d = c /\ k = l
  BY <1>1, <1>2 DEF Agrees
<1>3. CASE ~(d = c /\ k = l)
  <2>1. Agrees(d, k, EntryOf(k))
    BY DEF Coherent
  <2>2. Sound(d, EntryOf(k), cache'[d][k], mshr'[d][k], answer'[d][k],
              ReqOf(d, k)', RepOf(d, k)', ProbesOf(d, k)', Blind(d, k)',
              AnsOf(d, k)', RelOf(d, k)', RepRelOf(d, k)')
    BY <1>3, <2>1, SameAgrees
  <2> QED
    BY <1>1, <2>2 DEF Agrees
<1> QED
  BY <1>2, <1>3

(* The queues stay as they are.                                              *)
LEMMA QuietQueues ==
  ASSUME Distinct, Directed, UNCHANGED <<up, down, outbox>>
  PROVE  Distinct' /\ Directed'
BY DEF Distinct, Directed

(* What setting an MSHR, a copy or an answer does, and to no other pair.     *)
LEMMA SetHeld ==
  ASSUME Types, NEW c \in Clusters, NEW l \in Lines
  PROVE  /\ \A m : SetMshr(c, l, m) =>
              /\ mshr'[c][l] = m
              /\ \A d \in Clusters, k \in Lines :
                   ~(d = c /\ k = l) => mshr'[d][k] = mshr[d][k]
         /\ \A s : SetCache(c, l, s) =>
              /\ cache'[c][l] = s
              /\ \A d \in Clusters, k \in Lines :
                   ~(d = c /\ k = l) => cache'[d][k] = cache[d][k]
         /\ \A a : SetAnswer(c, l, a) =>
              /\ answer'[c][l] = a
              /\ \A d \in Clusters, k \in Lines :
                   ~(d = c /\ k = l) => answer'[d][k] = answer[d][k]
BY DEF Types, TypeOK, SetMshr, SetCache, SetAnswer

(* A new MSHR has not been sent, marked or poisoned.                         *)
LEMMA NewMshr ==
  /\ NoMshr.type = None /\ NoMshr.acked = FALSE /\ NoMshr.poison = FALSE
  /\ \A t : /\ Pend(t).type = t /\ Pend(t).acked = FALSE
            /\ Pend(t).poison = FALSE /\ Pend(t).nak = FALSE
BY DEF NoMshr, Pend

(* A core misses: a request is made out.                                     *)
LEMMA MissKeeps ==
  ASSUME IInv, NEW c \in Clusters, NEW l \in Lines, NEW t \in Demands,
         Miss(c, l, t)
  PROVE  Distinct' /\ Directed' /\ Coherent'
<1>1. /\ cache[c][l] = "I" /\ mshr[c][l] = NoMshr /\ answer[c][l] = None
      /\ SetMshr(c, l, Pend(t))
      /\ UNCHANGED <<cache, answer, requests, replies, up, down, entry, outbox>>
  BY DEF Miss, IsPending, bankVars
<1>2. /\ mshr'[c][l].type = t /\ mshr'[c][l].acked = FALSE
      /\ mshr'[c][l].poison = FALSE
  BY <1>1, SetHeld, NewMshr DEF IInv
<1>3. \A d \in Clusters, k \in Lines : SameSent(d, k)
  BY <1>1, DemandFrame, UpFrame, DownFrame, ComingFrame, ProbeFrame DEF SameSent
<1>4. \A d \in Clusters, k \in Lines : ~(d = c /\ k = l) => SameHeld(d, k)
  BY <1>1, SetHeld DEF SameHeld, IInv
<1>5. Agrees(c, l, EntryOf(l))
  BY DEF IInv, Coherent
<1>6. Sound(c, EntryOf(l), cache[c][l], mshr'[c][l], answer[c][l],
            ReqOf(c, l), RepOf(c, l), ProbesOf(c, l), Blind(c, l),
            AnsOf(c, l), RelOf(c, l), RepRelOf(c, l))
  BY <1>1, <1>2, <1>5, ViewsTyped, MissSound DEF Agrees, IInv
<1>7. Coherent'
  BY <1>1, <1>3, <1>4, <1>6, LocalStep DEF IInv, SameSent
<1> QED
  BY <1>1, <1>7, QuietQueues DEF IInv

(* A store to a clean line and a write-back both drop the copy.              *)
LEMMA GiveBackKeeps ==
  ASSUME IInv, NEW c \in Clusters, NEW l \in Lines,
         StoreToShared(c, l) \/ GiveBack(c, l)
  PROVE  Distinct' /\ Directed' /\ Coherent'
<1>1. /\ cache[c][l] # "I" /\ mshr[c][l] = NoMshr /\ answer[c][l] = None
      /\ SetCache(c, l, "I")
      /\ UNCHANGED <<answer, requests, replies, up, down, entry, outbox>>
  BY DEF StoreToShared, GiveBack, IsPending, bankVars
<1>2. /\ mshr'[c][l].type = IF cache[c][l] = "M" THEN "EVICT_REQ"
                                                 ELSE "RD_RELEASE_REQ"
      /\ mshr'[c][l].acked = FALSE /\ mshr'[c][l].poison = FALSE
      /\ \A d \in Clusters, k \in Lines :
           ~(d = c /\ k = l) => mshr'[d][k] = mshr[d][k]
  <2>1. CASE StoreToShared(c, l)
    <3>1. /\ SetMshr(c, l, [Pend("RD_RELEASE_REQ") EXCEPT !.upgrade = TRUE])
          /\ cache[c][l] = "S"
      BY <2>1 DEF StoreToShared
    <3> DEFINE n == [Pend("RD_RELEASE_REQ") EXCEPT !.upgrade = TRUE]
    <3>2. n.type = "RD_RELEASE_REQ" /\ n.acked = FALSE /\ n.poison = FALSE
      BY DEF Pend, NoMshr
    <3>3. SetMshr(c, l, n)
      BY <3>1
    <3> HIDE DEF n
    <3> QED
      BY <3>1, <3>2, <3>3, SetHeld DEF IInv
  <2>2. CASE GiveBack(c, l)
    <3>1. SetMshr(c, l, Pend(IF cache[c][l] = "M" THEN "EVICT_REQ"
                                                  ELSE "RD_RELEASE_REQ"))
      BY <2>2 DEF GiveBack
    <3> QED
      BY <3>1, SetHeld, NewMshr DEF IInv
  <2> QED
    BY <2>1, <2>2
<1>3. \A d \in Clusters, k \in Lines : SameSent(d, k)
  BY <1>1, DemandFrame, UpFrame, DownFrame, ComingFrame, ProbeFrame DEF SameSent
<1>4. /\ cache'[c][l] = "I"
      /\ \A d \in Clusters, k \in Lines : ~(d = c /\ k = l) => SameHeld(d, k)
  BY <1>1, <1>2, SetHeld DEF SameHeld, IInv
<1>5. Agrees(c, l, EntryOf(l))
  BY DEF IInv, Coherent
<1>6. Sound(c, EntryOf(l), "I", mshr'[c][l], answer[c][l],
            ReqOf(c, l), RepOf(c, l), ProbesOf(c, l), Blind(c, l),
            AnsOf(c, l), RelOf(c, l), RepRelOf(c, l))
  BY <1>1, <1>2, <1>5, ViewsTyped, GiveBackSound DEF Agrees, IInv
<1>7. Coherent'
  BY <1>1, <1>3, <1>4, <1>6, LocalStep DEF IInv, SameSent
<1> QED
  BY <1>1, <1>7, QuietQueues DEF IInv

(* A reply arrives.                                                          *)
LEMMA FillKeeps ==
  ASSUME IInv, NEW c \in Clusters, NEW l \in Lines, Fill(c, l)
  PROVE  Distinct' /\ Directed' /\ Coherent'
<1>1. PICK r \in replies :
        /\ r.cluster = c /\ r.line = l /\ replies' = replies \ {r}
        /\ \/ /\ mshr[c][l].poison
              /\ SetMshr(c, l, NoMshr) /\ UNCHANGED cache
           \/ /\ mshr[c][l].nak /\ ~mshr[c][l].poison
              /\ SetMshr(c, l, Pend(IF r.type = "WRITE_REQ"
                                    THEN "EVICT_REQ" ELSE "RD_RELEASE_REQ"))
              /\ UNCHANGED cache
           \/ /\ ~mshr[c][l].nak /\ ~mshr[c][l].poison
              /\ SetMshr(c, l, NoMshr)
              /\ SetCache(c, l, IF r.type = "WRITE_REQ" THEN "M" ELSE "S")
        /\ UNCHANGED <<answer, requests, up, down, entry, outbox>>
  BY DEF Fill, bankVars
<1> DEFINE t == r.type
<1>2. r = Ask(c, l, t) /\ t \in Demands /\ t \in RepOf(c, l)
  BY <1>1 DEF IInv, Types, TypeOK, Request, Ask, RepOf
<1>3. /\ RepOf(c, l)' = RepOf(c, l) \ {t}
      /\ \A d \in Clusters, k \in Lines :
           ~(d = c /\ k = l) => RepOf(d, k)' = RepOf(d, k)
  BY <1>1, <1>2 DEF RepOf, Ask
<1> HIDE DEF t
<1>4. /\ \A d \in Clusters, k \in Lines : ~(d = c /\ k = l) => SameSent(d, k)
      /\ ReqOf(c, l)' = ReqOf(c, l) /\ ProbesOf(c, l)' = ProbesOf(c, l)
      /\ Blind(c, l)' = Blind(c, l) /\ AnsOf(c, l)' = AnsOf(c, l)
      /\ RelOf(c, l)' = RelOf(c, l) /\ RepRelOf(c, l)' = RepRelOf(c, l)
  BY <1>1, <1>3, DemandFrame, UpFrame, DownFrame, ComingFrame, ProbeFrame DEF
     SameSent
<1>5. \A d \in Clusters, k \in Lines : ~(d = c /\ k = l) => SameHeld(d, k)
  BY <1>1, SetHeld DEF SameHeld, IInv
<1>6. /\ Agrees(c, l, EntryOf(l))
      /\ Typed(cache[c][l], mshr[c][l], answer[c][l], ReqOf(c, l),
               RepOf(c, l), ProbesOf(c, l), Blind(c, l), AnsOf(c, l),
               RelOf(c, l), RepRelOf(c, l))
  BY ViewsTyped DEF IInv, Coherent
<1>7. Sound(c, EntryOf(l), cache'[c][l], mshr'[c][l], answer[c][l],
            ReqOf(c, l), RepOf(c, l) \ {t}, ProbesOf(c, l), Blind(c, l),
            AnsOf(c, l), RelOf(c, l), RepRelOf(c, l))
  <2>1. CASE mshr[c][l].poison
    <3>1. mshr'[c][l] = NoMshr /\ cache' = cache
      BY <1>1, <2>1, SetHeld DEF IInv
    <3> QED
      BY <1>2, <1>6, <2>1, <3>1, FillPoisonSound DEF Agrees
  <2>2. CASE ~mshr[c][l].poison /\ mshr[c][l].nak
    <3>1. /\ mshr'[c][l] = Pend(IF t = "WRITE_REQ" THEN "EVICT_REQ"
                                                   ELSE "RD_RELEASE_REQ")
          /\ cache' = cache
      BY <1>1, <2>2, SetHeld DEF IInv, t
    <3>2. /\ mshr'[c][l].type = IF t = "WRITE_REQ" THEN "EVICT_REQ"
                                                   ELSE "RD_RELEASE_REQ"
          /\ mshr'[c][l].acked = FALSE /\ mshr'[c][l].poison = FALSE
      BY <3>1, NewMshr
    <3> QED
      BY <1>2, <1>6, <2>2, <3>1, <3>2, FillMarkedSound DEF Agrees
  <2>3. CASE ~mshr[c][l].poison /\ ~mshr[c][l].nak
    <3>1. /\ mshr'[c][l] = NoMshr
          /\ t = "WRITE_REQ" => cache'[c][l] = "M"
          /\ t # "WRITE_REQ" => cache'[c][l] = "S"
      BY <1>1, <2>3, SetHeld DEF IInv, t
    <3> QED
      BY <1>2, <1>6, <2>3, <3>1, FillSound DEF Agrees
  <2> QED
    BY <2>1, <2>2, <2>3
<1>8. Sound(c, EntryOf(l), cache'[c][l], mshr'[c][l], answer'[c][l],
            ReqOf(c, l)', RepOf(c, l)', ProbesOf(c, l)', Blind(c, l)',
            AnsOf(c, l)', RelOf(c, l)', RepRelOf(c, l)')
  BY <1>1, <1>3, <1>4, <1>7
<1>9. Coherent'
  BY <1>1, <1>4, <1>5, <1>8, LocalStep DEF IInv
<1> QED
  BY <1>1, <1>9, QuietQueues DEF IInv

-----------------------------------------------------------------------------
(* Messages sent and received.                                               *)

(* A message unlike those in a queue is added to it.                         *)
LEMMA Enqueue ==
  ASSUME NEW q \in Seq(Message), NEW m \in Message, NoTwins(q),
         \A x \in ToSet(q) : ~Alike(x, m)
  PROVE  NoTwins(Append(q, m)) /\ ToSet(Append(q, m)) = ToSet(q) \cup {m}
<1>1. ToSet(Append(q, m)) = ToSet(q) \cup {m}
  BY AppendElements
<1>2. /\ DOMAIN Append(q, m) = 1 .. Len(q) + 1 /\ DOMAIN q = 1 .. Len(q)
      /\ Append(q, m)[Len(q) + 1] = m /\ Len(q) \in Nat
      /\ \A i \in 1 .. Len(q) : Append(q, m)[i] = q[i]
  OBVIOUS
<1>3. \A i \in 1 .. Len(q) : q[i] \in ToSet(q)
  BY <1>2 DEF ToSet
<1>4. \A i \in 1 .. Len(q) : ~Alike(q[i], m) /\ ~Alike(m, q[i])
  BY <1>3 DEF Alike
<1>5. NoTwins(Append(q, m))
  BY <1>2, <1>4 DEF NoTwins
<1> QED
  BY <1>1, <1>5

(* The head of a queue without twins is not in its tail.                     *)
LEMMA Dequeue ==
  ASSUME NEW q \in Seq(Message), q # <<>>, NoTwins(q)
  PROVE  /\ NoTwins(Tail(q)) /\ Head(q) \in Message
         /\ ToSet(q) = ToSet(Tail(q)) \cup {Head(q)}
         /\ \A x \in ToSet(Tail(q)) : ~Alike(x, Head(q))
<1>1. ToSet(q) = ToSet(Tail(q)) \cup {Head(q)} /\ Head(q) \in Message
  BY TailElements
<1>2. /\ DOMAIN Tail(q) = 1 .. Len(q) - 1 /\ DOMAIN q = 1 .. Len(q)
      /\ Len(q) \in Nat /\ Len(q) # 0 /\ Head(q) = q[1]
      /\ \A i \in 1 .. Len(q) - 1 : Tail(q)[i] = q[i + 1]
  OBVIOUS
<1>3. NoTwins(Tail(q))
  <2> SUFFICES ASSUME NEW i \in 1 .. Len(q) - 1, NEW j \in 1 .. Len(q) - 1,
                      Alike(Tail(q)[i], Tail(q)[j])
               PROVE  i = j
    BY <1>2 DEF NoTwins
  <2>1. i + 1 \in DOMAIN q /\ j + 1 \in DOMAIN q
    BY <1>2
  <2>2. i + 1 = j + 1
    BY <1>2, <2>1 DEF NoTwins
  <2> QED
    BY <2>2
<1>4. ASSUME NEW x \in ToSet(Tail(q)) PROVE ~Alike(x, Head(q))
  <2>1. PICK i \in 1 .. Len(q) - 1 : x = q[i + 1]
    BY <1>2 DEF ToSet
  <2>2. i + 1 \in DOMAIN q /\ 1 \in DOMAIN q /\ i + 1 # 1
    BY <1>2
  <2> QED
    BY <1>2, <2>1, <2>2 DEF NoTwins
<1> QED
  BY <1>1, <1>3, <1>4

(* The types of messages about a line with one message more.                 *)
LEMMA MoreTypes ==
  ASSUME NEW S, NEW m, NEW T
  PROVE  /\ \A l : m.line # l \/ m.type \notin T =>
              TypesIn(S \cup {m}, l, T) = TypesIn(S, l, T)
         /\ m.type \in T =>
              TypesIn(S \cup {m}, m.line, T) = TypesIn(S, m.line, T) \cup {m.type}
BY DEF TypesIn

(* One message less.                                                         *)
LEMMA FewerTypes ==
  ASSUME NEW S, NEW m, NEW T, \A x \in S : ~Alike(x, m)
  PROVE  TypesIn(S, m.line, T) = TypesIn(S \cup {m}, m.line, T) \ {m.type}
BY DEF TypesIn, Alike

(* The kinds of messages are told apart by their types.                      *)
LEMMA MessageKinds ==
  /\ Releases \cap Answers = {} /\ Releases \cap Probes = {}
  /\ Answers \cap Probes = {} /\ None \notin Answers \cup Releases \cup Probes
  /\ Demands \cap Releases = {} /\ Demands \cap Answers = {} /\ None \notin Demands
BY DEF Releases, Answers, Probes, Recalls, Naks, None, Demands

(* A message goes up.                                                        *)
LEMMA SentUp ==
  ASSUME Types, Distinct, Directed, NEW c \in Clusters, NEW l \in Lines,
         NEW t \in Answers \cup Releases, SendUp(c, t, l),
         t \notin AnsOf(c, l), t \notin RelOf(c, l)
  PROVE  /\ \A d \in Clusters, k \in Lines : ~(d = c /\ k = l) =>
              AnsOf(d, k)' = AnsOf(d, k) /\ RelOf(d, k)' = RelOf(d, k)
         /\ t \in Answers => /\ AnsOf(c, l)' = AnsOf(c, l) \cup {t}
                             /\ RelOf(c, l)' = RelOf(c, l)
         /\ t \in Releases => /\ AnsOf(c, l)' = AnsOf(c, l)
                              /\ RelOf(c, l)' = RelOf(c, l) \cup {t}
         /\ UNCHANGED <<down, outbox>> => Distinct' /\ Directed'
<1> DEFINE m == Plain(t, l)
<1>1. m \in Message /\ m.line = l /\ m.type = t
  BY MessageTypes DEF Plain
<1> HIDE DEF m
<1>2. /\ up[c] \in Seq(Message) /\ NoTwins(up[c])
      /\ up'[c] = Append(up[c], m)
      /\ \A d \in Clusters : d # c => up'[d] = up[d]
  BY DEF SendUp, Types, TypeOK, Distinct, m
<1>3. \A x \in ToSet(up[c]) : ~Alike(x, m)
  BY <1>1 DEF Alike, AnsOf, RelOf, TypesIn
<1>4. NoTwins(up'[c]) /\ ToSet(up'[c]) = ToSet(up[c]) \cup {m}
  BY <1>1, <1>2, <1>3, Enqueue
<1>5. \A d \in Clusters : d # c =>
        \A k : AnsOf(d, k)' = AnsOf(d, k) /\ RelOf(d, k)' = RelOf(d, k)
  BY <1>2, UpFrame
<1>6. \A k : /\ k # l \/ t \notin Answers => AnsOf(c, k)' = AnsOf(c, k)
             /\ k # l \/ t \notin Releases => RelOf(c, k)' = RelOf(c, k)
  <2> DEFINE S == ToSet(up[c])
  <2>1. \A k : k # l \/ t \notin Answers =>
             TypesIn(S \cup {m}, k, Answers) = TypesIn(S, k, Answers)
    BY <1>1 DEF TypesIn
  <2>2. \A k : k # l \/ t \notin Releases =>
             TypesIn(S \cup {m}, k, Releases) = TypesIn(S, k, Releases)
    BY <1>1 DEF TypesIn
  <2> QED
    BY <1>4, <2>1, <2>2 DEF AnsOf, RelOf
<1>7. /\ t \in Answers => AnsOf(c, l)' = AnsOf(c, l) \cup {t}
      /\ t \in Releases => RelOf(c, l)' = RelOf(c, l) \cup {t}
  BY <1>1, <1>4, MoreTypes DEF AnsOf, RelOf
<1>8. ASSUME UNCHANGED <<down, outbox>> PROVE Distinct' /\ Directed'
  BY <1>1, <1>2, <1>4, <1>8 DEF Distinct, Directed
<1> QED
  BY <1>5, <1>6, <1>7, <1>8, MessageKinds

(* An answer leaves a cluster.                                               *)
LEMMA InjectAnswerKeeps ==
  ASSUME IInv, NEW c \in Clusters, NEW l \in Lines, InjectAnswer(c, l)
  PROVE  Distinct' /\ Directed' /\ Coherent'
<1>1. /\ answer[c][l] # None /\ SendUp(c, answer[c][l], l)
      /\ SetAnswer(c, l, None)
      /\ UNCHANGED <<cache, mshr, requests, replies, down, entry, outbox>>
  BY DEF InjectAnswer, bankVars
<1>2. /\ Agrees(c, l, EntryOf(l))
      /\ Typed(cache[c][l], mshr[c][l], answer[c][l], ReqOf(c, l),
               RepOf(c, l), ProbesOf(c, l), Blind(c, l), AnsOf(c, l),
               RelOf(c, l), RepRelOf(c, l))
  BY ViewsTyped DEF IInv, Coherent
<1>3. answer[c][l] \in Answers
  BY <1>1, <1>2 DEF Typed
<1>4. answer[c][l] \notin AnsOf(c, l) /\ answer[c][l] \notin RelOf(c, l)
  <2>1. AnsOf(c, l) = {}
    BY <1>1, <1>2 DEF Agrees, Sound, OnePlace
  <2> QED
    BY <2>1, <1>3, MessageKinds DEF RelOf, TypesIn
<1>5. /\ \A d \in Clusters, k \in Lines : ~(d = c /\ k = l) =>
           AnsOf(d, k)' = AnsOf(d, k) /\ RelOf(d, k)' = RelOf(d, k)
      /\ AnsOf(c, l)' = AnsOf(c, l) \cup {answer[c][l]}
      /\ RelOf(c, l)' = RelOf(c, l)
      /\ Distinct' /\ Directed'
  BY <1>1, <1>3, <1>4, SentUp DEF IInv
<1>6. \A d, k : /\ ReqOf(d, k)' = ReqOf(d, k) /\ RepOf(d, k)' = RepOf(d, k)
                /\ ProbesOf(d, k)' = ProbesOf(d, k)
                /\ Blind(d, k)' = Blind(d, k)
                /\ RepRelOf(d, k)' = RepRelOf(d, k)
  BY <1>1, DemandFrame, DownFrame, ComingFrame, ProbeFrame
<1>7. /\ answer'[c][l] = None
      /\ \A d \in Clusters, k \in Lines :
           ~(d = c /\ k = l) => SameHeld(d, k) /\ SameSent(d, k)
  BY <1>1, <1>5, <1>6, SetHeld DEF SameHeld, SameSent, IInv
<1>8. Sound(c, EntryOf(l), cache[c][l], mshr[c][l], None,
            ReqOf(c, l), RepOf(c, l), ProbesOf(c, l), Blind(c, l),
            AnsOf(c, l) \cup {answer[c][l]}, RelOf(c, l), RepRelOf(c, l))
  BY <1>1, <1>2, InjectAnswerSound DEF Agrees
<1>9. Sound(c, EntryOf(l), cache'[c][l], mshr'[c][l], answer'[c][l],
            ReqOf(c, l)', RepOf(c, l)', ProbesOf(c, l)', Blind(c, l)',
            AnsOf(c, l)', RelOf(c, l)', RepRelOf(c, l)')
  BY <1>1, <1>5, <1>6, <1>7, <1>8
<1>10. Coherent'
  BY <1>1, <1>7, <1>9, LocalStep DEF IInv
<1> QED
  BY <1>5, <1>10

(* What a read that leaves does to the probes on their way: it only marks    *)
(* the broadcasts of its line to its cluster unseen.                         *)
LEMMA StampKeeps ==
  ASSUME Types, Distinct, Directed, NEW c \in Clusters, NEW l \in Lines,
         StampRead(c, l)
  PROVE  /\ \A d \in Clusters, k \in Lines :
              /\ ProbesOf(d, k)' = ProbesOf(d, k)
              /\ RepRelOf(d, k)' = RepRelOf(d, k)
              /\ ~(d = c /\ k = l) => Blind(d, k)' = Blind(d, k)
         /\ up' = up => Distinct' /\ Directed'
<1> DEFINE Mark(d, m) == IF d = c THEN Unseen(m, l) ELSE m
<1>1. \A m \in Message :
        /\ Unseen(m, l) \in Message
        /\ Unseen(m, l).line = m.line /\ Unseen(m, l).type = m.type
        /\ m.line # l => Unseen(m, l) = m
  BY DEF Unseen, Message
<1>2. \A d, m : m \in Message => /\ Mark(d, m) \in Message
                                 /\ Mark(d, m).line = m.line
                                 /\ Mark(d, m).type = m.type
                                 /\ ~(d = c /\ m.line = l) => Mark(d, m) = m
  BY <1>1
<1>3. \A d \in Clusters :
        /\ DOMAIN down'[d] = DOMAIN down[d]
        /\ \A i \in DOMAIN down[d] : /\ down[d][i] \in Message
                                     /\ down'[d][i] = Mark(d, down[d][i])
  BY DEF StampRead, Types, TypeOK
<1>4. /\ DOMAIN outbox' = DOMAIN outbox
      /\ \A i \in DOMAIN outbox :
           /\ outbox[i] \in Probe
           /\ outbox'[i] = IF outbox[i].cluster = c
                THEN [outbox[i] EXCEPT !.message = Unseen(outbox[i].message, l)]
                ELSE outbox[i]
  BY DEF StampRead, Types, TypeOK
<1>5. \A i \in DOMAIN outbox :
        /\ outbox[i].cluster \in Clusters /\ outbox[i].message \in Message
        /\ outbox[i] = [cluster |-> outbox[i].cluster, message |-> outbox[i].message]
        /\ outbox'[i] = [cluster |-> outbox[i].cluster,
                         message |-> Mark(outbox[i].cluster, outbox[i].message)]
  BY <1>4 DEF Probe
<1> HIDE DEF Mark
<1>6. \A d \in Clusters :
        /\ \A m \in ToSet(down[d]) : m \in Message /\ Mark(d, m) \in ToSet(down'[d])
        /\ \A n \in ToSet(down'[d]) : \E m \in ToSet(down[d]) : n = Mark(d, m)
  BY <1>3 DEF ToSet
<1>7. /\ \A p \in ToSet(outbox) :
           /\ p.cluster \in Clusters /\ p.message \in Message
           /\ p = [cluster |-> p.cluster, message |-> p.message]
           /\ [cluster |-> p.cluster, message |-> Mark(p.cluster, p.message)]
                \in ToSet(outbox')
      /\ \A q \in ToSet(outbox') : \E p \in ToSet(outbox) :
           q = [cluster |-> p.cluster, message |-> Mark(p.cluster, p.message)]
  BY <1>4, <1>5 DEF ToSet
<1>8. \A d \in Clusters :
        /\ \A m \in ComingTo(d) : Mark(d, m) \in ComingTo(d)'
        /\ \A n \in ComingTo(d)' : \E m \in ComingTo(d) : n = Mark(d, m)
  <2> TAKE d \in Clusters
  <2>1. ASSUME NEW m \in ComingTo(d) PROVE Mark(d, m) \in ComingTo(d)'
    BY <1>2, <1>6, <1>7 DEF ComingTo
  <2>2. ASSUME NEW n \in ComingTo(d)'
        PROVE  \E m \in ComingTo(d) : n = Mark(d, m)
    <3>1. CASE n \in ToSet(down'[d])
      BY <1>6, <3>1 DEF ComingTo
    <3>2. CASE [cluster |-> d, message |-> n] \in ToSet(outbox')
      BY <1>7, <3>2 DEF ComingTo
    <3> QED
      BY <3>1, <3>2 DEF ComingTo
  <2> QED
    BY <2>1, <2>2
<1>9. \A d \in Clusters : ComingTo(d) \subseteq Message
  BY DEF ComingTo
<1>10. ASSUME NEW d \in Clusters, NEW k \in Lines
       PROVE  ProbesOf(d, k)' = ProbesOf(d, k) /\ RepRelOf(d, k)' = RepRelOf(d, k)
  <2>1. ProbesOf(d, k)' = ProbesOf(d, k)
    <3>1. ASSUME NEW t \in ProbesOf(d, k) PROVE t \in ProbesOf(d, k)'
      <4>1. PICK m \in ComingTo(d) : m.line = k /\ m.type = t
        BY <3>1 DEF ProbesOf, TypesIn
      <4> QED
        BY <1>2, <1>8, <1>9, <3>1, <4>1 DEF ProbesOf, TypesIn
    <3>2. ASSUME NEW t \in ProbesOf(d, k)' PROVE t \in ProbesOf(d, k)
      <4>1. PICK n \in ComingTo(d)' : n.line = k /\ n.type = t
        BY <3>2 DEF ProbesOf, TypesIn
      <4>2. PICK m \in ComingTo(d) : n = Mark(d, m)
        BY <1>8
      <4>3. m.line = k /\ m.type = t
        BY <1>2, <1>9, <4>1, <4>2
      <4> QED
        BY <3>2, <4>3 DEF ProbesOf, TypesIn
    <3> QED
      BY <3>1, <3>2
  <2>2. RepRelOf(d, k)' = RepRelOf(d, k)
    <3>1. ASSUME NEW t \in RepRelOf(d, k) PROVE t \in RepRelOf(d, k)'
      <4>1. PICK m \in ToSet(down[d]) : m.line = k /\ m.type = t
        BY <3>1 DEF RepRelOf, TypesIn
      <4> QED
        BY <1>2, <1>6, <3>1, <4>1 DEF RepRelOf, TypesIn
    <3>2. ASSUME NEW t \in RepRelOf(d, k)' PROVE t \in RepRelOf(d, k)
      <4>1. PICK n \in ToSet(down'[d]) : n.line = k /\ n.type = t
        BY <3>2 DEF RepRelOf, TypesIn
      <4>2. PICK m \in ToSet(down[d]) : n = Mark(d, m)
        BY <1>6
      <4>3. m.line = k /\ m.type = t
        BY <1>2, <1>6, <4>1, <4>2
      <4> QED
        BY <3>2, <4>3 DEF RepRelOf, TypesIn
    <3> QED
      BY <3>1, <3>2
  <2> QED
    BY <2>1, <2>2
<1>11. ASSUME NEW d \in Clusters, NEW k \in Lines, ~(d = c /\ k = l)
       PROVE  Blind(d, k)' = Blind(d, k)
  <2>1. Blind(d, k)' => Blind(d, k)
    BY <1>2, <1>8, <1>9, <1>11 DEF Blind
  <2>2. Blind(d, k) => Blind(d, k)'
    BY <1>2, <1>8, <1>9, <1>11 DEF Blind
  <2> QED
    BY <2>1, <2>2 DEF Blind
<1>12. ASSUME up' = up PROVE Distinct' /\ Directed'
  <2>1. Directed'
    BY <1>2, <1>6, <1>7, <1>12 DEF Directed
  <2>2. \A d \in Clusters : NoTwins(down[d])'
    BY <1>2, <1>3 DEF Distinct, NoTwins, Alike
  <2>3. \A i, j \in DOMAIN outbox' : AlikeProbes(outbox'[i], outbox'[j]) => i = j
    BY <1>2, <1>4, <1>5 DEF Distinct, AlikeProbes, Alike
  <2>4. \A p \in ToSet(outbox') :
          \A m \in ToSet(down'[p.cluster]) : ~Alike(m, p.message)
    BY <1>2, <1>6, <1>7 DEF Distinct, Alike
  <2> QED
    BY <1>12, <2>1, <2>2, <2>3, <2>4 DEF Distinct
<1> QED
  BY <1>10, <1>11, <1>12

(* A request or a release leaves a cluster.                                  *)
LEMMA InjectKeeps ==
  ASSUME IInv, NEW c \in Clusters, NEW l \in Lines, Inject(c, l)
  PROVE  Distinct' /\ Directed' /\ Coherent'
<1> DEFINE t == mshr[c][l].type
           n == mshr'[c][l]
<1>1. /\ t # None /\ ~mshr[c][l].acked
      /\ mshr' = [mshr EXCEPT ![c][l].acked = TRUE]
      /\ IF t \in Demands
           THEN requests' = requests \cup {Ask(c, l, t)} /\ up' = up
           ELSE SendUp(c, t, l) /\ requests' = requests
      /\ IF t = "READ_REQ" THEN StampRead(c, l) ELSE UNCHANGED <<down, outbox>>
      /\ UNCHANGED <<cache, answer, replies, entry>>
  BY DEF Inject, Ask
<1>2. /\ Agrees(c, l, EntryOf(l))
      /\ Typed(cache[c][l], mshr[c][l], answer[c][l], ReqOf(c, l),
               RepOf(c, l), ProbesOf(c, l), Blind(c, l), AnsOf(c, l),
               RelOf(c, l), RepRelOf(c, l))
  BY ViewsTyped DEF IInv, Coherent
<1>3. /\ n.type = mshr[c][l].type /\ n.acked = TRUE
      /\ n.poison = mshr[c][l].poison /\ n.nak = mshr[c][l].nak
      /\ \A d \in Clusters, k \in Lines :
           ~(d = c /\ k = l) => mshr'[d][k] = mshr[d][k]
  <2>1. mshr \in [Clusters -> [Lines -> Mshr]]
    BY DEF IInv, Types, TypeOK
  <2>2. n = [mshr[c][l] EXCEPT !.acked = TRUE]
    BY <1>1, <2>1
  <2>3. \A d \in Clusters, k \in Lines :
           ~(d = c /\ k = l) => mshr'[d][k] = mshr[d][k]
    BY <1>1, <2>1
  <2> HIDE DEF n
  <2>4. mshr[c][l] \in Mshr
    BY <2>1
  <2> QED
    BY <2>2, <2>3, <2>4 DEF Mshr
<1>4. \A d, k : RepOf(d, k)' = RepOf(d, k)
  BY <1>1, DemandFrame
<1>5. \A d \in Clusters, k \in Lines : ~(d = c /\ k = l) => SameHeld(d, k)
  BY <1>1, <1>3 DEF SameHeld
<1>8. Coherent /\ entry' = entry
  BY <1>1 DEF IInv
<1> HIDE DEF n, t
<1>6. CASE t \in Demands
  <2>1. /\ ReqOf(c, l)' = ReqOf(c, l) \cup {t}
        /\ \A d, k : ~(d = c /\ k = l) => ReqOf(d, k)' = ReqOf(d, k)
    BY <1>1, <1>6 DEF ReqOf, Ask
  <2>2. /\ \A d \in Clusters, k \in Lines :
             /\ ProbesOf(d, k)' = ProbesOf(d, k)
             /\ RepRelOf(d, k)' = RepRelOf(d, k)
             /\ ~(d = c /\ k = l) => Blind(d, k)' = Blind(d, k)
        /\ Distinct' /\ Directed'
    <3>1. CASE t = "READ_REQ"
      BY <1>1, <1>6, <3>1, StampKeeps DEF IInv
    <3>2. CASE t # "READ_REQ"
      BY <1>1, <1>6, <3>2, DownFrame, ComingFrame, ProbeFrame, QuietQueues DEF
         IInv
    <3> QED
      BY <3>1, <3>2
  <2>3. \A d, k : AnsOf(d, k)' = AnsOf(d, k) /\ RelOf(d, k)' = RelOf(d, k)
    BY <1>1, <1>6, UpFrame
  <2>4. \A d \in Clusters, k \in Lines : ~(d = c /\ k = l) => SameSent(d, k)
    BY <1>4, <2>1, <2>2, <2>3 DEF SameSent
  <2>5. Blind(c, l)' \in BOOLEAN /\ (Blind(c, l)' => "BCAST_PROBE" \in ProbesOf(c, l))
    <3>1. Blind(c, l)' => "BCAST_PROBE" \in ProbesOf(c, l)'
      BY DEF Blind, ProbesOf, TypesIn, Probes
    <3> QED
      BY <2>2, <3>1 DEF Blind
  <2>6. Sound(c, EntryOf(l), cache[c][l], n, answer[c][l],
              ReqOf(c, l) \cup {t}, RepOf(c, l), ProbesOf(c, l), Blind(c, l)',
              AnsOf(c, l), RelOf(c, l), RepRelOf(c, l))
    BY <1>1, <1>2, <1>3, <1>6, <2>5, InjectDemandSound DEF Agrees, t
  <2>7. Sound(c, EntryOf(l), cache'[c][l], mshr'[c][l], answer'[c][l],
              ReqOf(c, l)', RepOf(c, l)', ProbesOf(c, l)', Blind(c, l)',
              AnsOf(c, l)', RelOf(c, l)', RepRelOf(c, l)')
    BY <1>1, <1>4, <2>1, <2>2, <2>3, <2>6 DEF n
  <2>8. Coherent'
    BY <1>5, <1>8, <2>4, <2>7, LocalStep
  <2> QED
    BY <2>2, <2>8
<1>7. CASE t \notin Demands
  <2>1. t \in Releases
    BY <1>1, <1>2, <1>7 DEF Typed, Mshr, t
  <2>2. /\ SendUp(c, t, l) /\ UNCHANGED <<down, outbox, requests>>
    BY <1>1, <1>7 DEF Demands
  <2>3. t \notin RelOf(c, l) /\ t \notin AnsOf(c, l)
    <3>1. t \notin RelOf(c, l)
      BY <1>1, <1>2 DEF Agrees, Sound, Matched
    <3> QED
      BY <2>1, <3>1, MessageKinds DEF AnsOf, TypesIn
  <2>4. /\ \A d \in Clusters, k \in Lines : ~(d = c /\ k = l) =>
             AnsOf(d, k)' = AnsOf(d, k) /\ RelOf(d, k)' = RelOf(d, k)
        /\ RelOf(c, l)' = RelOf(c, l) \cup {t}
        /\ AnsOf(c, l)' = AnsOf(c, l)
        /\ Distinct' /\ Directed'
    BY <2>1, <2>2, <2>3, SentUp DEF IInv
  <2>5. \A d, k : /\ ReqOf(d, k)' = ReqOf(d, k)
                  /\ ProbesOf(d, k)' = ProbesOf(d, k)
                  /\ Blind(d, k)' = Blind(d, k)
                  /\ RepRelOf(d, k)' = RepRelOf(d, k)
    BY <2>2, DemandFrame, DownFrame, ComingFrame, ProbeFrame
  <2>6. \A d \in Clusters, k \in Lines : ~(d = c /\ k = l) => SameSent(d, k)
    BY <1>4, <2>4, <2>5 DEF SameSent
  <2>7. Sound(c, EntryOf(l), cache[c][l], n, answer[c][l],
              ReqOf(c, l), RepOf(c, l), ProbesOf(c, l), Blind(c, l),
              AnsOf(c, l), RelOf(c, l) \cup {t}, RepRelOf(c, l))
    BY <1>1, <1>2, <1>3, <2>1, InjectReleaseSound DEF Agrees, t
  <2>8. Sound(c, EntryOf(l), cache'[c][l], mshr'[c][l], answer'[c][l],
              ReqOf(c, l)', RepOf(c, l)', ProbesOf(c, l)', Blind(c, l)',
              AnsOf(c, l)', RelOf(c, l)', RepRelOf(c, l)')
    BY <1>1, <1>4, <2>4, <2>5, <2>7 DEF n
  <2>9. Coherent'
    BY <1>5, <1>8, <2>6, <2>8, LocalStep
  <2> QED
    BY <2>4, <2>9
<1> QED
  BY <1>6, <1>7

(* The next message to a cluster is received.                                *)
Takes(c, m) ==
  /\ down[c] # <<>> /\ m = Head(down[c])
  /\ down' = [down EXCEPT ![c] = Tail(@)]
  /\ UNCHANGED <<up, outbox>>

(* The views of the queues when a cluster takes its next message.            *)
LEMMA Received ==
  ASSUME Types, Distinct, Directed, NEW c \in Clusters, NEW m, Takes(c, m)
  PROVE  /\ m \in Message /\ m.line \in Lines /\ m.seen \in BOOLEAN
         /\ m.type \in Probes \cup Releases
         /\ \A d \in Clusters, k \in Lines : ~(d = c /\ k = m.line) =>
              /\ ProbesOf(d, k)' = ProbesOf(d, k) /\ Blind(d, k)' = Blind(d, k)
              /\ RepRelOf(d, k)' = RepRelOf(d, k)
         /\ m.type \in Probes =>
              /\ m.type \in ProbesOf(c, m.line)
              /\ ProbesOf(c, m.line)' = ProbesOf(c, m.line) \ {m.type}
              /\ RepRelOf(c, m.line)' = RepRelOf(c, m.line)
              /\ Blind(c, m.line)' \in BOOLEAN
              /\ Blind(c, m.line)' => Blind(c, m.line)
              /\ Blind(c, m.line)' => "BCAST_PROBE" \in ProbesOf(c, m.line)'
              /\ m.type = "BCAST_PROBE" /\ ~m.seen => Blind(c, m.line)
         /\ m.type \in Releases =>
              /\ m.type \in RepRelOf(c, m.line)
              /\ RepRelOf(c, m.line)' = RepRelOf(c, m.line) \ {m.type}
              /\ ProbesOf(c, m.line)' = ProbesOf(c, m.line)
              /\ Blind(c, m.line)' = Blind(c, m.line)
         /\ Distinct' /\ Directed'
<1> USE DEF Takes
<1> DEFINE R == ToSet(down'[c])
           C == ComingTo(c)'
<1>1. /\ down[c] \in Seq(Message) /\ NoTwins(down[c])
      /\ down'[c] = Tail(down[c])
      /\ \A d \in Clusters : d # c => down'[d] = down[d]
  BY DEF Types, TypeOK, Distinct
<1>2. /\ NoTwins(down'[c]) /\ m \in Message
      /\ ToSet(down[c]) = R \cup {m}
      /\ \A x \in R : ~Alike(x, m)
  BY <1>1, Dequeue
<1>3. /\ m.type \in Probes \cup Releases /\ m.line \in Lines
      /\ m.seen \in BOOLEAN
  BY <1>2, MessageTypes DEF Directed, Message
<1>4. ComingTo(c) = C \cup {m}
  BY <1>2 DEF ComingTo
<1>5. \A x \in C : ~Alike(x, m)
  <2> SUFFICES ASSUME NEW x \in C PROVE ~Alike(x, m)
    OBVIOUS
  <2>1. CASE x \in R
    BY <1>2, <2>1
  <2>2. CASE [cluster |-> c, message |-> x] \in ToSet(outbox)
    <3>1. ~Alike(m, x)
      BY <1>2, <2>2 DEF Distinct
    <3> QED
      BY <3>1 DEF Alike
  <2> QED
    BY <2>1, <2>2 DEF ComingTo
<1>6. \A d \in Clusters : d # c =>
        \A k : /\ ProbesOf(d, k)' = ProbesOf(d, k)
               /\ Blind(d, k)' = Blind(d, k)
               /\ RepRelOf(d, k)' = RepRelOf(d, k)
  BY <1>1, DownFrame, ComingFrame, ProbeFrame
<1> HIDE DEF C, R
<1>7. \A k : /\ ProbesOf(c, k) = TypesIn(C \cup {m}, k, Probes)
             /\ RepRelOf(c, k) = TypesIn(R \cup {m}, k, Releases)
             /\ Blind(c, k) <=> \E x \in C \cup {m} :
                  x.line = k /\ x.type = "BCAST_PROBE" /\ ~x.seen
             /\ ProbesOf(c, k)' = TypesIn(C, k, Probes)
             /\ RepRelOf(c, k)' = TypesIn(R, k, Releases)
             /\ Blind(c, k)' <=> \E x \in C :
                  x.line = k /\ x.type = "BCAST_PROBE" /\ ~x.seen
  BY <1>2, <1>4 DEF ProbesOf, RepRelOf, Blind, C, R
<1>8. ASSUME NEW k \in Lines, k # m.line
      PROVE  /\ ProbesOf(c, k)' = ProbesOf(c, k) /\ Blind(c, k)' = Blind(c, k)
             /\ RepRelOf(c, k)' = RepRelOf(c, k)
  <2>1. /\ TypesIn(C \cup {m}, k, Probes) = TypesIn(C, k, Probes)
        /\ TypesIn(R \cup {m}, k, Releases) = TypesIn(R, k, Releases)
    BY <1>8 DEF TypesIn
  <2>2. Blind(c, k)' <=> Blind(c, k)
    BY <1>7, <1>8
  <2>3. Blind(c, k)' = Blind(c, k)
    BY <2>2 DEF Blind
  <2> QED
    BY <1>7, <2>1, <2>3
<1>9. ASSUME m.type \in Probes
      PROVE  /\ m.type \in ProbesOf(c, m.line)
             /\ ProbesOf(c, m.line)' = ProbesOf(c, m.line) \ {m.type}
             /\ RepRelOf(c, m.line)' = RepRelOf(c, m.line)
             /\ Blind(c, m.line)' \in BOOLEAN
             /\ Blind(c, m.line)' => Blind(c, m.line)
             /\ Blind(c, m.line)' => "BCAST_PROBE" \in ProbesOf(c, m.line)'
             /\ m.type = "BCAST_PROBE" /\ ~m.seen => Blind(c, m.line)
  <2>0. /\ ProbesOf(c, m.line) = TypesIn(C \cup {m}, m.line, Probes)
        /\ RepRelOf(c, m.line) = TypesIn(R \cup {m}, m.line, Releases)
        /\ ProbesOf(c, m.line)' = TypesIn(C, m.line, Probes)
        /\ RepRelOf(c, m.line)' = TypesIn(R, m.line, Releases)
    BY <1>7
  <2>1. m.type \notin Releases
    BY <1>9, MessageKinds
  <2>2. /\ m.type \in TypesIn(C \cup {m}, m.line, Probes)
        /\ TypesIn(C, m.line, Probes)
             = TypesIn(C \cup {m}, m.line, Probes) \ {m.type}
    BY <1>5, <1>9, FewerTypes DEF TypesIn
  <2>3. TypesIn(R \cup {m}, m.line, Releases) = TypesIn(R, m.line, Releases)
    BY <2>1 DEF TypesIn
  <2>4. Blind(c, m.line)' => "BCAST_PROBE" \in TypesIn(C, m.line, Probes)
    BY <1>7 DEF TypesIn, Probes
  <2>5. Blind(c, m.line)' \in BOOLEAN
    BY DEF Blind
  <2>6. /\ Blind(c, m.line)' => Blind(c, m.line)
        /\ m.type = "BCAST_PROBE" /\ ~m.seen => Blind(c, m.line)
    BY <1>7
  <2> QED
    BY <2>0, <2>2, <2>3, <2>4, <2>5, <2>6
<1>10. ASSUME m.type \in Releases
       PROVE  /\ m.type \in RepRelOf(c, m.line)
              /\ RepRelOf(c, m.line)' = RepRelOf(c, m.line) \ {m.type}
              /\ ProbesOf(c, m.line)' = ProbesOf(c, m.line)
              /\ Blind(c, m.line)' = Blind(c, m.line)
  <2>0. /\ ProbesOf(c, m.line) = TypesIn(C \cup {m}, m.line, Probes)
        /\ RepRelOf(c, m.line) = TypesIn(R \cup {m}, m.line, Releases)
        /\ ProbesOf(c, m.line)' = TypesIn(C, m.line, Probes)
        /\ RepRelOf(c, m.line)' = TypesIn(R, m.line, Releases)
    BY <1>7
  <2>1. m.type \notin Probes /\ m.type # "BCAST_PROBE"
    BY <1>10, MessageKinds DEF Probes
  <2>2. /\ m.type \in TypesIn(R \cup {m}, m.line, Releases)
        /\ TypesIn(R, m.line, Releases)
             = TypesIn(R \cup {m}, m.line, Releases) \ {m.type}
    <3>1. m.type \in TypesIn(R \cup {m}, m.line, Releases)
      BY <1>10 DEF TypesIn
    <3> QED
      BY <1>2, <3>1, FewerTypes
  <2>3. TypesIn(C \cup {m}, m.line, Probes) = TypesIn(C, m.line, Probes)
    BY <2>1 DEF TypesIn
  <2>4. Blind(c, m.line)' <=> Blind(c, m.line)
    BY <1>7, <2>1
  <2>5. Blind(c, m.line)' = Blind(c, m.line)
    BY <2>4 DEF Blind
  <2> QED
    BY <2>0, <2>2, <2>3, <2>5
<1>11. Distinct'
  <2>1. \A d \in Clusters : /\ NoTwins(up'[d]) /\ NoTwins(down'[d])
                            /\ ToSet(down'[d]) \subseteq ToSet(down[d])
    BY <1>1, <1>2 DEF Distinct, R
  <2>2. \A p \in ToSet(outbox) :
          \A x \in ToSet(down'[p.cluster]) : ~Alike(x, p.message)
    <3>1. \A p \in ToSet(outbox) : p.cluster \in Clusters
      <4>1. outbox \in Seq(Probe)
        BY DEF Types, TypeOK
      <4>2. \A p \in ToSet(outbox) : p \in Probe
        BY <4>1, QueueElements
      <4> QED
        BY <4>2 DEF Probe
    <3> QED
      BY <2>1, <3>1 DEF Distinct
  <2> QED
    BY <2>1, <2>2 DEF Distinct
<1>12. Directed'
  BY <1>1, <1>2 DEF Directed, R
<1> QED
  BY <1>2, <1>3, <1>6, <1>8, <1>9, <1>10, <1>11, <1>12

(* A step that takes a message of the probe channel for one line and does    *)
(* nothing else but change what the cluster has of the line.                 *)
LEMMA ReceiveKeeps ==
  ASSUME IInv, NEW c \in Clusters, NEW m, Takes(c, m),
         UNCHANGED <<requests, replies, entry>>,
         \A d \in Clusters, k \in Lines : ~(d = c /\ k = m.line) => SameHeld(d, k),
         Sound(c, EntryOf(m.line), cache'[c][m.line], mshr'[c][m.line],
               answer'[c][m.line], ReqOf(c, m.line), RepOf(c, m.line),
               ProbesOf(c, m.line)', Blind(c, m.line)', AnsOf(c, m.line),
               RelOf(c, m.line), RepRelOf(c, m.line)')
  PROVE  Distinct' /\ Directed' /\ Coherent'
<1>0. Types /\ Distinct /\ Directed /\ Coherent
  BY DEF IInv
<1>1. m.line \in Lines /\ Distinct' /\ Directed'
  BY <1>0, Received
<1>a. \A d \in Clusters, k \in Lines : ~(d = c /\ k = m.line) =>
        /\ ProbesOf(d, k)' = ProbesOf(d, k) /\ Blind(d, k)' = Blind(d, k)
        /\ RepRelOf(d, k)' = RepRelOf(d, k)
  BY <1>0, Received
<1>2. \A d, k : /\ ReqOf(d, k)' = ReqOf(d, k) /\ RepOf(d, k)' = RepOf(d, k)
                /\ AnsOf(d, k)' = AnsOf(d, k) /\ RelOf(d, k)' = RelOf(d, k)
  BY DemandFrame, UpFrame DEF Takes
<1> DEFINE l == m.line
<1> HIDE DEF l
<1>3. Sound(c, EntryOf(l), cache'[c][l], mshr'[c][l], answer'[c][l],
            ReqOf(c, l)', RepOf(c, l)', ProbesOf(c, l)', Blind(c, l)',
            AnsOf(c, l)', RelOf(c, l)', RepRelOf(c, l)')
  BY <1>2 DEF l
<1>4. \A d \in Clusters, k \in Lines : ~(d = c /\ k = l) => SameSent(d, k)
  BY <1>a, <1>2 DEF SameSent, l
<1>5. \A d \in Clusters, k \in Lines : ~(d = c /\ k = l) => SameHeld(d, k)
  BY DEF l
<1>6. Coherent
  BY DEF IInv
<1>7. Coherent'
  <2>1. l \in Lines /\ entry' = entry
    BY <1>1 DEF l
  <2> QED
    BY <2>1, <1>3, <1>4, <1>5, <1>6, LocalStep
<1> QED
  BY <1>1, <1>7

(* What ReceiveProbe makes of a probe.                                       *)
LEMMA ProbeTaken ==
  ASSUME IInv, NEW c \in Clusters, NEW m \in FirstOf(down[c]), NEW T,
         ReceiveProbe(c, m, T)
  PROVE  /\ Takes(c, m) /\ m.type \in T /\ answer[c][m.line] = None
         /\ UNCHANGED <<requests, replies, entry>>
         /\ m.line \in Lines
         /\ Agrees(c, m.line, EntryOf(m.line))
         /\ Typed(cache[c][m.line], mshr[c][m.line], answer[c][m.line],
                  ReqOf(c, m.line), RepOf(c, m.line), ProbesOf(c, m.line),
                  Blind(c, m.line), AnsOf(c, m.line), RelOf(c, m.line),
                  RepRelOf(c, m.line))
<1>1. /\ Takes(c, m) /\ m.type \in T /\ answer[c][m.line] = None
      /\ UNCHANGED <<requests, replies, entry>>
  BY DEF FirstOf, ReceiveProbe, bankVars, Takes
<1>2. m.line \in Lines
  BY <1>1, Received DEF IInv
<1> QED
  BY <1>1, <1>2, ViewsTyped DEF IInv, Coherent

(* A recall finds nothing pending.                                           *)
LEMMA ProbeIdleKeeps ==
  ASSUME IInv, NEW c \in Clusters, ProbeIdle(c)
  PROVE  Distinct' /\ Directed' /\ Coherent'
<1>1. PICK m \in FirstOf(down[c]) :
        /\ ReceiveProbe(c, m, Recalls) /\ mshr[c][m.line] = NoMshr
        /\ SetCache(c, m.line, "I") /\ UNCHANGED mshr
        /\ SetAnswer(c, m.line, IF cache[c][m.line] = "I" THEN Nak(m.type)
                                                          ELSE Ack(m.type))
  BY DEF ProbeIdle
<1> DEFINE l == m.line
<1>2. /\ Takes(c, m) /\ m.type \in Recalls /\ answer[c][l] = None
      /\ UNCHANGED <<requests, replies, entry>>
      /\ l \in Lines /\ Agrees(c, l, EntryOf(l))
      /\ Typed(cache[c][l], mshr[c][l], answer[c][l], ReqOf(c, l),
               RepOf(c, l), ProbesOf(c, l), Blind(c, l), AnsOf(c, l),
               RelOf(c, l), RepRelOf(c, l))
  BY <1>1, ProbeTaken
<1>3. m.type \in Probes
  BY <1>2 DEF Probes
<1>4. /\ m.type \in ProbesOf(c, l)
      /\ ProbesOf(c, l)' = ProbesOf(c, l) \ {m.type}
      /\ RepRelOf(c, l)' = RepRelOf(c, l)
      /\ Blind(c, l)' \in BOOLEAN /\ (Blind(c, l)' => Blind(c, l))
  BY <1>2, <1>3, Received DEF IInv
<1>5. /\ cache'[c][l] = "I" /\ mshr'[c][l] = mshr[c][l]
      /\ answer'[c][l] = IF cache[c][l] = "I" THEN Nak(m.type) ELSE Ack(m.type)
      /\ \A d \in Clusters, k \in Lines : ~(d = c /\ k = l) => SameHeld(d, k)
  BY <1>1, <1>2, SetHeld DEF IInv, SameHeld
<1>6. Sound(c, EntryOf(l), cache'[c][l], mshr'[c][l], answer'[c][l],
            ReqOf(c, l), RepOf(c, l), ProbesOf(c, l)', Blind(c, l)',
            AnsOf(c, l), RelOf(c, l), RepRelOf(c, l)')
  BY <1>1, <1>2, <1>4, <1>5, ProbeIdleSound DEF Agrees
<1> QED
  BY <1>2, <1>5, <1>6, ReceiveKeeps

(* A recall squashes a request that has not left.                            *)
LEMMA ProbeSquashesKeeps ==
  ASSUME IInv, NEW c \in Clusters, ProbeSquashes(c)
  PROVE  Distinct' /\ Directed' /\ Coherent'
<1>1. PICK m \in FirstOf(down[c]) :
        /\ ReceiveProbe(c, m, Recalls)
        /\ mshr[c][m.line].type \in Demands /\ ~mshr[c][m.line].acked
        /\ SetMshr(c, m.line, NoMshr) /\ UNCHANGED cache
        /\ SetAnswer(c, m.line, Nak(m.type))
  BY DEF ProbeSquashes
<1> DEFINE l == m.line
<1>2. /\ Takes(c, m) /\ m.type \in Recalls /\ answer[c][l] = None
      /\ UNCHANGED <<requests, replies, entry>>
      /\ l \in Lines /\ Agrees(c, l, EntryOf(l))
      /\ Typed(cache[c][l], mshr[c][l], answer[c][l], ReqOf(c, l),
               RepOf(c, l), ProbesOf(c, l), Blind(c, l), AnsOf(c, l),
               RelOf(c, l), RepRelOf(c, l))
  BY <1>1, ProbeTaken
<1>3. m.type \in Probes
  BY <1>2 DEF Probes
<1>4. /\ m.type \in ProbesOf(c, l)
      /\ ProbesOf(c, l)' = ProbesOf(c, l) \ {m.type}
      /\ RepRelOf(c, l)' = RepRelOf(c, l)
      /\ Blind(c, l)' \in BOOLEAN /\ (Blind(c, l)' => Blind(c, l))
  BY <1>2, <1>3, Received DEF IInv
<1>5. /\ cache'[c][l] = cache[c][l] /\ mshr'[c][l] = NoMshr
      /\ answer'[c][l] = Nak(m.type)
      /\ \A d \in Clusters, k \in Lines : ~(d = c /\ k = l) => SameHeld(d, k)
  BY <1>1, <1>2, SetHeld DEF IInv, SameHeld
<1>6. Sound(c, EntryOf(l), cache'[c][l], mshr'[c][l], answer'[c][l],
            ReqOf(c, l), RepOf(c, l), ProbesOf(c, l)', Blind(c, l)',
            AnsOf(c, l), RelOf(c, l), RepRelOf(c, l)')
  BY <1>1, <1>2, <1>4, <1>5, ProbeSquashesSound DEF Agrees
<1> QED
  BY <1>2, <1>5, <1>6, ReceiveKeeps

(* A recall marks a request that has left.                                   *)
LEMMA ProbeMarksKeeps ==
  ASSUME IInv, NEW c \in Clusters, ProbeMarks(c)
  PROVE  Distinct' /\ Directed' /\ Coherent'
<1>1. PICK m \in FirstOf(down[c]) :
        /\ ReceiveProbe(c, m, Recalls) /\ mshr[c][m.line].acked
        /\ mshr' = [mshr EXCEPT ![c][m.line].nak =
                                  @ \/ mshr[c][m.line].type \in Demands]
        /\ SetAnswer(c, m.line, Nak(m.type)) /\ UNCHANGED cache
  BY DEF ProbeMarks
<1> DEFINE l == m.line
           n == mshr'[c][l]
<1>2. /\ Takes(c, m) /\ m.type \in Recalls /\ answer[c][l] = None
      /\ UNCHANGED <<requests, replies, entry>>
      /\ l \in Lines /\ Agrees(c, l, EntryOf(l))
      /\ Typed(cache[c][l], mshr[c][l], answer[c][l], ReqOf(c, l),
               RepOf(c, l), ProbesOf(c, l), Blind(c, l), AnsOf(c, l),
               RelOf(c, l), RepRelOf(c, l))
  BY <1>1, ProbeTaken
<1>3. m.type \in Probes
  BY <1>2 DEF Probes
<1>4. /\ m.type \in ProbesOf(c, l)
      /\ ProbesOf(c, l)' = ProbesOf(c, l) \ {m.type}
      /\ RepRelOf(c, l)' = RepRelOf(c, l)
      /\ Blind(c, l)' \in BOOLEAN /\ (Blind(c, l)' => Blind(c, l))
  BY <1>2, <1>3, Received DEF IInv
<1>5. /\ n.type = mshr[c][l].type /\ n.acked = mshr[c][l].acked
      /\ n.poison = mshr[c][l].poison
      /\ mshr[c][l].type \in Demands => n.nak
      /\ \A d \in Clusters, k \in Lines :
           ~(d = c /\ k = l) => mshr'[d][k] = mshr[d][k]
  <2> DEFINE nak == mshr[c][l].nak \/ mshr[c][l].type \in Demands
  <2>1. mshr \in [Clusters -> [Lines -> Mshr]]
    BY DEF IInv, Types, TypeOK
  <2>2. /\ n = [mshr[c][l] EXCEPT !.nak = nak]
        /\ \A d \in Clusters, k \in Lines :
             ~(d = c /\ k = l) => mshr'[d][k] = mshr[d][k]
    BY <1>1, <1>2, <2>1
  <2>3. mshr[c][l] \in Mshr /\ (mshr[c][l].type \in Demands => nak = TRUE)
    BY <1>2, <2>1
  <2> HIDE DEF n, nak
  <2> QED
    BY <2>2, <2>3 DEF Mshr
<1>6. /\ cache'[c][l] = cache[c][l] /\ answer'[c][l] = Nak(m.type)
      /\ \A d \in Clusters, k \in Lines : ~(d = c /\ k = l) => SameHeld(d, k)
  BY <1>1, <1>2, <1>5, SetHeld DEF IInv, SameHeld
<1> HIDE DEF n
<1>7. Sound(c, EntryOf(l), cache[c][l], n, Nak(m.type),
            ReqOf(c, l), RepOf(c, l), ProbesOf(c, l) \ {m.type}, Blind(c, l)',
            AnsOf(c, l), RelOf(c, l), RepRelOf(c, l))
  <2> DEFINE t == m.type
             bl2 == Blind(c, l)'
  <2>1. /\ t \in ProbesOf(c, l) /\ t \in Recalls /\ bl2 \in BOOLEAN
        /\ bl2 => Blind(c, l)
        /\ mshr[c][l].acked /\ answer[c][l] = None
    BY <1>1, <1>2, <1>4
  <2>2. /\ Sound(c, EntryOf(l), cache[c][l], mshr[c][l], answer[c][l],
                 ReqOf(c, l), RepOf(c, l), ProbesOf(c, l), Blind(c, l),
                 AnsOf(c, l), RelOf(c, l), RepRelOf(c, l))
        /\ Typed(cache[c][l], mshr[c][l], answer[c][l], ReqOf(c, l),
                 RepOf(c, l), ProbesOf(c, l), Blind(c, l), AnsOf(c, l),
                 RelOf(c, l), RepRelOf(c, l))
    BY <1>2 DEF Agrees
  <2>3. /\ n.type = mshr[c][l].type /\ n.acked = mshr[c][l].acked
        /\ n.poison = mshr[c][l].poison
        /\ mshr[c][l].type \in Demands => n.nak
    BY <1>5
  <2>5. Marked(mshr[c][l], n)
    BY <2>3 DEF Marked
  <2> HIDE DEF t, bl2, l
  <2>4. Sound(c, EntryOf(l), cache[c][l], n, Nak(t),
              ReqOf(c, l), RepOf(c, l), ProbesOf(c, l) \ {t}, bl2,
              AnsOf(c, l), RelOf(c, l), RepRelOf(c, l))
    BY <2>1, <2>2, <2>5, ProbeMarksSound
  <2> QED
    BY <2>4 DEF t, bl2, l
<1>8. Sound(c, EntryOf(l), cache'[c][l], mshr'[c][l], answer'[c][l],
            ReqOf(c, l), RepOf(c, l), ProbesOf(c, l)', Blind(c, l)',
            AnsOf(c, l), RelOf(c, l), RepRelOf(c, l)')
  BY <1>4, <1>6, <1>7 DEF n
<1> QED
  BY <1>2, <1>6, <1>8, ReceiveKeeps

(* A broadcast takes the line.                                               *)
LEMMA BroadcastInvalidatesKeeps ==
  ASSUME IInv, NEW c \in Clusters, BroadcastInvalidates(c)
  PROVE  Distinct' /\ Directed' /\ Coherent'
<1>1. PICK m \in FirstOf(down[c]) :
        /\ ReceiveProbe(c, m, {"BCAST_PROBE"})
        /\ ~ReleaseUnderWay(c, m.line)
        /\ SetMshr(c, m.line, IF Squashable(c, m.line) THEN NoMshr ELSE
             [mshr[c][m.line] EXCEPT !.poison =
                mshr[c][m.line].type = "READ_REQ" /\ m.seen])
        /\ SetCache(c, m.line, "I")
        /\ SetAnswer(c, m.line, "BCAST_ACK")
  BY DEF BroadcastInvalidates
<1> DEFINE l == m.line
           n == mshr'[c][l]
<1>2. /\ Takes(c, m) /\ m.type = "BCAST_PROBE" /\ answer[c][l] = None
      /\ UNCHANGED <<requests, replies, entry>>
      /\ l \in Lines /\ Agrees(c, l, EntryOf(l))
      /\ Typed(cache[c][l], mshr[c][l], answer[c][l], ReqOf(c, l),
               RepOf(c, l), ProbesOf(c, l), Blind(c, l), AnsOf(c, l),
               RelOf(c, l), RepRelOf(c, l))
  BY <1>1, ProbeTaken
<1>3. m.type \in Probes
  BY <1>2 DEF Probes
<1>4. /\ "BCAST_PROBE" \in ProbesOf(c, l)
      /\ ProbesOf(c, l)' = ProbesOf(c, l) \ {"BCAST_PROBE"}
      /\ RepRelOf(c, l)' = RepRelOf(c, l)
      /\ Blind(c, l)' \in BOOLEAN
      /\ Blind(c, l)' => "BCAST_PROBE" \in ProbesOf(c, l)'
      /\ ~m.seen => Blind(c, l)
      /\ m.seen \in BOOLEAN
  BY <1>2, <1>3, Received DEF IInv
<1>5. /\ cache'[c][l] = "I" /\ answer'[c][l] = "BCAST_ACK"
      /\ \A d \in Clusters, k \in Lines : ~(d = c /\ k = l) => SameHeld(d, k)
  BY <1>1, <1>2, SetHeld DEF IInv, SameHeld
<1>6. Sound(c, EntryOf(l), "I", mshr'[c][l], "BCAST_ACK",
            ReqOf(c, l), RepOf(c, l), ProbesOf(c, l) \ {"BCAST_PROBE"},
            Blind(c, l)', AnsOf(c, l), RelOf(c, l), RepRelOf(c, l))
  <2>0. Blind(c, l)' => "BCAST_PROBE" \in ProbesOf(c, l) \ {"BCAST_PROBE"}
    BY <1>4
  <2>1. CASE Squashable(c, l)
    <3>1. /\ n = NoMshr /\ ~mshr[c][l].acked
          /\ mshr[c][l].type \in {"READ_REQ", "RD_RELEASE_REQ"}
      BY <1>1, <1>2, <2>1, SetHeld DEF Squashable, IInv
    <3> QED
      BY <1>2, <1>4, <2>0, <3>1, BroadcastSquashesSound DEF Agrees
  <2>2. CASE ~Squashable(c, l)
    <3> DEFINE poison == mshr[c][l].type = "READ_REQ" /\ m.seen
    <3>1. n = [mshr[c][l] EXCEPT !.poison = poison]
      BY <1>1, <1>2, <2>2, SetHeld DEF IInv
    <3>2. /\ ~(mshr[c][l].type = "RD_RELEASE_REQ" /\ mshr[c][l].acked)
          /\ ~(mshr[c][l].type \in {"READ_REQ", "RD_RELEASE_REQ"}
                 /\ ~mshr[c][l].acked)
      BY <1>1, <2>2 DEF ReleaseUnderWay, Squashable
    <3>3. /\ mshr[c][l] \in Mshr
          /\ poison <=> mshr[c][l].type = "READ_REQ" /\ m.seen
      BY <1>2 DEF Typed
    <3> HIDE DEF poison, n
    <3>4. /\ n.type = mshr[c][l].type /\ n.acked = mshr[c][l].acked
          /\ n.nak = mshr[c][l].nak /\ (n.poison <=> poison)
      BY <3>1, <3>3 DEF Mshr
    <3>6. n.poison <=> mshr[c][l].type = "READ_REQ" /\ m.seen
      BY <3>3, <3>4
    <3>7. Sound(c, EntryOf(l), "I", n, "BCAST_ACK",
            ReqOf(c, l), RepOf(c, l), ProbesOf(c, l) \ {"BCAST_PROBE"},
            Blind(c, l)', AnsOf(c, l), RelOf(c, l), RepRelOf(c, l))
      BY <1>2, <1>4, <2>0, <3>2, <3>4, <3>6, BroadcastInvalidatesSound
         DEF Agrees
    <3> QED
      BY <3>7 DEF n
  <2> QED
    BY <2>1, <2>2
<1>7. Sound(c, EntryOf(l), cache'[c][l], mshr'[c][l], answer'[c][l],
            ReqOf(c, l), RepOf(c, l), ProbesOf(c, l)', Blind(c, l)',
            AnsOf(c, l), RelOf(c, l), RepRelOf(c, l)')
  BY <1>4, <1>5, <1>6
<1> QED
  BY <1>2, <1>5, <1>7, ReceiveKeeps

(* A broadcast meets a release that has left.                                *)
LEMMA BroadcastPoisonsKeeps ==
  ASSUME IInv, NEW c \in Clusters, BroadcastPoisonsRelease(c)
  PROVE  Distinct' /\ Directed' /\ Coherent'
<1>1. PICK m \in FirstOf(down[c]) :
        /\ ReceiveProbe(c, m, {"BCAST_PROBE"})
        /\ ReleaseUnderWay(c, m.line)
        /\ mshr' = [mshr EXCEPT ![c][m.line].poison = TRUE]
        /\ UNCHANGED <<cache, answer>>
  BY DEF BroadcastPoisonsRelease
<1> DEFINE l == m.line
           n == mshr'[c][l]
<1>2. /\ Takes(c, m) /\ m.type = "BCAST_PROBE" /\ answer[c][l] = None
      /\ UNCHANGED <<requests, replies, entry>>
      /\ l \in Lines /\ Agrees(c, l, EntryOf(l))
      /\ Typed(cache[c][l], mshr[c][l], answer[c][l], ReqOf(c, l),
               RepOf(c, l), ProbesOf(c, l), Blind(c, l), AnsOf(c, l),
               RelOf(c, l), RepRelOf(c, l))
  BY <1>1, ProbeTaken
<1>3. m.type \in Probes
  BY <1>2 DEF Probes
<1>4. /\ "BCAST_PROBE" \in ProbesOf(c, l)
      /\ ProbesOf(c, l)' = ProbesOf(c, l) \ {"BCAST_PROBE"}
      /\ RepRelOf(c, l)' = RepRelOf(c, l)
      /\ Blind(c, l)' \in BOOLEAN
      /\ Blind(c, l)' => "BCAST_PROBE" \in ProbesOf(c, l)'
  BY <1>2, <1>3, Received DEF IInv
<1>5. /\ n.type = mshr[c][l].type /\ n.acked = mshr[c][l].acked
      /\ n.nak = mshr[c][l].nak /\ n.poison = TRUE
      /\ \A d \in Clusters, k \in Lines :
           ~(d = c /\ k = l) => mshr'[d][k] = mshr[d][k]
  <2>1. mshr \in [Clusters -> [Lines -> Mshr]]
    BY DEF IInv, Types, TypeOK
  <2>2. /\ n = [mshr[c][l] EXCEPT !.poison = TRUE]
        /\ \A d \in Clusters, k \in Lines :
             ~(d = c /\ k = l) => mshr'[d][k] = mshr[d][k]
    BY <1>1, <1>2, <2>1
  <2>3. mshr[c][l] \in Mshr
    BY <1>2, <2>1
  <2> HIDE DEF n
  <2> QED
    BY <2>2, <2>3 DEF Mshr
<1>6. /\ cache' = cache /\ answer' = answer
      /\ mshr[c][l].type = "RD_RELEASE_REQ" /\ mshr[c][l].acked
      /\ \A d \in Clusters, k \in Lines : ~(d = c /\ k = l) => SameHeld(d, k)
  BY <1>1, <1>5 DEF SameHeld, ReleaseUnderWay
<1> HIDE DEF n
<1>7. Sound(c, EntryOf(l), cache[c][l], n, answer[c][l],
            ReqOf(c, l), RepOf(c, l), ProbesOf(c, l) \ {"BCAST_PROBE"},
            Blind(c, l)', AnsOf(c, l), RelOf(c, l), RepRelOf(c, l))
  <2> DEFINE bl2 == Blind(c, l)'
  <2>1. /\ "BCAST_PROBE" \in ProbesOf(c, l) /\ bl2 \in BOOLEAN
        /\ bl2 => "BCAST_PROBE" \in ProbesOf(c, l) \ {"BCAST_PROBE"}
        /\ mshr[c][l].type = "RD_RELEASE_REQ" /\ mshr[c][l].acked
        /\ answer[c][l] = None
    BY <1>2, <1>4, <1>6
  <2>2. /\ Sound(c, EntryOf(l), cache[c][l], mshr[c][l], answer[c][l],
                 ReqOf(c, l), RepOf(c, l), ProbesOf(c, l), Blind(c, l),
                 AnsOf(c, l), RelOf(c, l), RepRelOf(c, l))
        /\ Typed(cache[c][l], mshr[c][l], answer[c][l], ReqOf(c, l),
                 RepOf(c, l), ProbesOf(c, l), Blind(c, l), AnsOf(c, l),
                 RelOf(c, l), RepRelOf(c, l))
    BY <1>2 DEF Agrees
  <2>3. /\ n.type = mshr[c][l].type /\ n.acked /\ n.poison
        /\ n.nak = mshr[c][l].nak
    BY <1>5, <1>6
  <2> HIDE DEF bl2, l
  <2>4. Sound(c, EntryOf(l), cache[c][l], n, answer[c][l],
              ReqOf(c, l), RepOf(c, l), ProbesOf(c, l) \ {"BCAST_PROBE"}, bl2,
              AnsOf(c, l), RelOf(c, l), RepRelOf(c, l))
    BY <2>1, <2>2, <2>3, BroadcastPoisonsSound
  <2> QED
    BY <2>4 DEF bl2, l
<1>8. Sound(c, EntryOf(l), cache'[c][l], mshr'[c][l], answer'[c][l],
            ReqOf(c, l), RepOf(c, l), ProbesOf(c, l)', Blind(c, l)',
            AnsOf(c, l), RelOf(c, l), RepRelOf(c, l)')
  BY <1>4, <1>6, <1>7 DEF n
<1> QED
  BY <1>2, <1>6, <1>8, ReceiveKeeps

(* The reply to a release arrives.                                           *)
LEMMA ReleaseDoneKeeps ==
  ASSUME IInv, NEW c \in Clusters, ReleaseDone(c)
  PROVE  Distinct' /\ Directed' /\ Coherent'
<1>1. PICK l \in Lines :
        /\ down[c] # <<>> /\ Head(down[c]).type \in Releases
        /\ Head(down[c]).line = l
        /\ down' = [down EXCEPT ![c] = Tail(@)]
        /\ IF mshr[c][l].poison
             THEN SetMshr(c, l, NoMshr) /\ SetAnswer(c, l, "BCAST_ACK")
             ELSE /\ SetMshr(c, l, IF mshr[c][l].upgrade /\ answer[c][l] = None
                                     THEN Pend("WRITE_REQ") ELSE NoMshr)
                  /\ UNCHANGED answer
        /\ UNCHANGED <<cache, requests, replies, up, outbox, entry>>
  BY DEF ReleaseDone, bankVars
<1> DEFINE m == Head(down[c])
<1>2. Takes(c, m) /\ m.line = l /\ m.type \in Releases
  BY <1>1 DEF Takes
<1> HIDE DEF m
<1>3. /\ m.type \in RepRelOf(c, l)
      /\ RepRelOf(c, l)' = RepRelOf(c, l) \ {m.type}
      /\ ProbesOf(c, l)' = ProbesOf(c, l) /\ Blind(c, l)' = Blind(c, l)
  BY <1>2, Received DEF IInv
<1>4. /\ Agrees(c, l, EntryOf(l))
      /\ Typed(cache[c][l], mshr[c][l], answer[c][l], ReqOf(c, l),
               RepOf(c, l), ProbesOf(c, l), Blind(c, l), AnsOf(c, l),
               RelOf(c, l), RepRelOf(c, l))
  BY ViewsTyped DEF IInv, Coherent
<1>5. \A d \in Clusters, k \in Lines : ~(d = c /\ k = l) => SameHeld(d, k)
  BY <1>1, SetHeld DEF IInv, SameHeld
<1> DEFINE t == m.type
<1> HIDE DEF t
<1>s. /\ Sound(c, EntryOf(l), cache[c][l], mshr[c][l], answer[c][l],
               ReqOf(c, l), RepOf(c, l), ProbesOf(c, l), Blind(c, l),
               AnsOf(c, l), RelOf(c, l), RepRelOf(c, l))
      /\ t \in RepRelOf(c, l)
  BY <1>3, <1>4 DEF Agrees, t
<1>6. Sound(c, EntryOf(l), cache[c][l], mshr'[c][l], answer'[c][l],
            ReqOf(c, l), RepOf(c, l), ProbesOf(c, l), Blind(c, l),
            AnsOf(c, l), RelOf(c, l), RepRelOf(c, l) \ {t})
  <2>1. CASE mshr[c][l].poison
    <3>1. mshr'[c][l] = NoMshr /\ answer'[c][l] = "BCAST_ACK"
      BY <1>1, <2>1, SetHeld DEF IInv
    <3>2. t = "RD_RELEASE_REQ"
      BY <1>2, <1>s, <2>1 DEF Sound, Matched, Releases, t
    <3> QED
      BY <1>4, <1>s, <2>1, <3>1, <3>2, ReleaseDonePoisonSound
  <2>2. CASE ~mshr[c][l].poison
    <3>1. /\ mshr'[c][l] = NoMshr \/ mshr'[c][l] = Pend("WRITE_REQ")
          /\ answer'[c][l] = answer[c][l]
      BY <1>1, <2>2, SetHeld DEF IInv
    <3>2. /\ mshr'[c][l].type \in {None, "WRITE_REQ"}
          /\ mshr'[c][l].acked = FALSE /\ mshr'[c][l].poison = FALSE
      BY <3>1, NewMshr
    <3> QED
      <4> DEFINE n == mshr'[c][l]
                 bl == Blind(c, l)
      <4>1. /\ Typed(cache[c][l], mshr[c][l], answer[c][l], ReqOf(c, l),
                     RepOf(c, l), ProbesOf(c, l), bl, AnsOf(c, l),
                     RelOf(c, l), RepRelOf(c, l))
            /\ Sound(c, EntryOf(l), cache[c][l], mshr[c][l], answer[c][l],
                     ReqOf(c, l), RepOf(c, l), ProbesOf(c, l), bl,
                     AnsOf(c, l), RelOf(c, l), RepRelOf(c, l))
        BY <1>4, <1>s
      <4>2. /\ n.type \in {None, "WRITE_REQ"}
            /\ n.acked = FALSE /\ n.poison = FALSE
        BY <3>2
      <4>5. Restarted(n)
        BY <4>2 DEF Restarted
      <4>3. t \in RepRelOf(c, l) /\ ~mshr[c][l].poison
        BY <1>s, <2>2
      <4> HIDE DEF n, bl
      <4>4. Sound(c, EntryOf(l), cache[c][l], n, answer[c][l],
                  ReqOf(c, l), RepOf(c, l), ProbesOf(c, l), bl,
                  AnsOf(c, l), RelOf(c, l), RepRelOf(c, l) \ {t})
        BY <4>1, <4>3, <4>5, ReleaseDoneSound
      <4> QED
        BY <3>1, <4>4 DEF n, bl
  <2> QED
    BY <2>1, <2>2
<1>7. Sound(c, EntryOf(l), cache'[c][l], mshr'[c][l], answer'[c][l],
            ReqOf(c, l), RepOf(c, l), ProbesOf(c, l)', Blind(c, l)',
            AnsOf(c, l), RelOf(c, l), RepRelOf(c, l)')
  <2>1. cache' = cache
    BY <1>1
  <2> QED
    BY <2>1, <1>3, <1>6 DEF t
<1>8. UNCHANGED <<requests, replies, entry>>
  BY <1>1
<1>9. l = m.line
  BY <1>2
<1> QED
  BY <1>2, <1>5, <1>7, <1>8, <1>9, ReceiveKeeps

-----------------------------------------------------------------------------
(* The bank acts on the entry of one line.                                   *)

(* The entry of a line becomes e and no other changes.                       *)
Becomes(l, e) ==
  /\ EntryOf(l)' = e
  /\ \A k \in Lines : k # l => EntryOf(k)' = EntryOf(k)

(* Writing the way that tracks a line, or a free one, does that.             *)
LEMMA EntryWritten ==
  ASSUME Types, NEW l \in Lines, NEW w \in Ways, NEW e, SetEntry(w, e),
         w \in Tracked(l) \/ (Tracked(l) = {} /\ entry[w].state = "INVALID"),
         e.state # "INVALID" => e.addr = l
  PROVE  Becomes(l, IF e.state = "INVALID" THEN Reset ELSE e)
<1>1. /\ entry'[w] = e
      /\ \A v \in Ways : v # w => entry'[v] = entry[v]
  BY DEF SetEntry, Types, TypeOK
<1>2. \A v \in Tracked(l) : v = w
  BY DEF Types, EntryOK
<1>3. Tracked(l)' = IF e.state = "INVALID" THEN {} ELSE {w}
  BY <1>1, <1>2 DEF Tracked
<1>4. EntryOf(l)' = IF e.state = "INVALID" THEN Reset ELSE e
  <2>1. CASE e.state = "INVALID"
    BY <1>3, <2>1 DEF EntryOf
  <2>2. CASE e.state # "INVALID"
    <3>1. Tracked(l)' = {w}
      BY <1>3, <2>2
    <3>2. (CHOOSE v \in Tracked(l)' : TRUE) = w
      BY <3>1
    <3> QED
      BY <1>1, <2>2, <3>1, <3>2 DEF EntryOf
  <2> QED
    BY <2>1, <2>2
<1>5. ASSUME NEW k \in Lines, k # l PROVE EntryOf(k)' = EntryOf(k)
  <2>1. Tracked(k)' = Tracked(k) /\ w \notin Tracked(k)
    BY <1>1, <1>5 DEF Tracked
  <2>2. CASE Tracked(k) = {}
    BY <2>1, <2>2 DEF EntryOf
  <2>3. CASE Tracked(k) # {}
    <3> DEFINE v == CHOOSE v \in Tracked(k) : TRUE
    <3>1. v \in Tracked(k)
      BY <2>3
    <3>2. v \in Ways /\ v # w
      BY <2>1, <3>1 DEF Tracked
    <3>3. EntryOf(k) = entry[v] /\ EntryOf(k)' = entry'[v]
      BY <2>1, <2>3 DEF EntryOf
    <3> QED
      BY <1>1, <3>2, <3>3
  <2> QED
    BY <2>2, <2>3
<1> QED
  BY <1>4, <1>5 DEF Becomes

(* Changing the entry of a tracked line does.                                *)
LEMMA EntryUpdated ==
  ASSUME Types, NEW l \in Lines, NEW w \in Tracked(l), NEW e, SetEntry(w, e),
         e.state # "INVALID", e.addr = l
  PROVE  Becomes(l, e)
<1>1. w \in Ways
  BY DEF Tracked
<1>2. Becomes(l, IF e.state = "INVALID" THEN Reset ELSE e)
  BY <1>1, EntryWritten
<1> QED
  BY <1>2

(* So does freeing it.                                                       *)
LEMMA EntryFreed ==
  ASSUME Types, NEW l \in Lines, NEW w \in Tracked(l), SetEntry(w, Reset)
  PROVE  Becomes(l, Reset)
<1>1. w \in Ways
  BY DEF Tracked
<1> DEFINE e == Reset
<1>2. SetEntry(w, e) /\ e.state = "INVALID"
  BY ResetTypes
<1> HIDE DEF e
<1>3. Becomes(l, IF e.state = "INVALID" THEN Reset ELSE e)
  BY <1>1, <1>2, EntryWritten
<1> QED
  BY <1>2, <1>3 DEF e

(* So does taking a free way for a line without an entry.                    *)
LEMMA EntryTaken ==
  ASSUME Types, NEW l \in Lines, NEW w \in Ways, NEW e, SetEntry(w, e),
         Tracked(l) = {}, entry[w].state = "INVALID",
         e.state # "INVALID", e.addr = l
  PROVE  Becomes(l, e)
<1>1. Becomes(l, IF e.state = "INVALID" THEN Reset ELSE e)
  BY EntryWritten
<1> QED
  BY <1>1

(* What a cluster has of a line agrees with the line's entry.                *)
LEMMA Pair ==
  ASSUME IInv, NEW d \in Clusters, NEW l \in Lines
  PROVE  /\ Sound(d, EntryOf(l), cache[d][l], mshr[d][l], answer[d][l],
                  ReqOf(d, l), RepOf(d, l), ProbesOf(d, l), Blind(d, l),
                  AnsOf(d, l), RelOf(d, l), RepRelOf(d, l))
         /\ Typed(cache[d][l], mshr[d][l], answer[d][l], ReqOf(d, l),
                  RepOf(d, l), ProbesOf(d, l), Blind(d, l), AnsOf(d, l),
                  RelOf(d, l), RepRelOf(d, l))
BY ViewsTyped DEF IInv, Coherent, Agrees

(* A step that writes an entry keeps the invariant if every cluster agrees   *)
(* with the new one.                                                         *)
LEMMA EntryStep ==
  ASSUME IInv, NEW l \in Lines, NEW e, Becomes(l, e),
         UNCHANGED <<cache, mshr, answer, requests, replies, up, down, outbox>>,
         \A d \in Clusters : Agrees(d, l, e)
  PROVE  Distinct' /\ Directed' /\ Coherent'
<1>1. \A d, k : SameSent(d, k)
  BY DemandFrame, UpFrame, DownFrame, ComingFrame, ProbeFrame DEF SameSent
<1>2. \A d, k : SameHeld(d, k)
  BY DEF SameHeld
<1>3. ASSUME NEW d \in Clusters, NEW k \in Lines
      PROVE  Agrees(d, k, EntryOf(k))'
  <2>1. Agrees(d, k, EntryOf(k)')
    <3>1. Agrees(d, k, EntryOf(k))
      BY DEF IInv, Coherent
    <3> QED
      BY <3>1 DEF Becomes
  <2> DEFINE f == EntryOf(k)'
  <2>2. Sound(d, f, cache'[d][k], mshr'[d][k], answer'[d][k],
              ReqOf(d, k)', RepOf(d, k)', ProbesOf(d, k)', Blind(d, k)',
              AnsOf(d, k)', RelOf(d, k)', RepRelOf(d, k)')
    <3>1. Agrees(d, k, f)
      BY <2>1
    <3> HIDE DEF f
    <3> QED
      BY <1>1, <1>2, <3>1, SameAgrees
  <2> QED
    BY <2>2 DEF Agrees
<1> QED
  BY <1>3, QuietQueues DEF IInv, Coherent

(* Probes are sent to clusters none is under way to.                         *)
LEMMA SentProbes ==
  ASSUME Types, Distinct, Directed, NEW cs \in SUBSET Clusters,
         NEW t \in Probes, NEW l \in Lines, SendProbes(cs, t, l),
         UNCHANGED <<up, down>>,
         \A d \in cs : \A u \in ProbesOf(d, l) : FALSE
  PROVE  /\ \A d \in Clusters, k \in Lines : ~(d \in cs /\ k = l) =>
              ProbesOf(d, k)' = ProbesOf(d, k) /\ Blind(d, k)' = Blind(d, k)
         /\ \A d \in cs :
              /\ ProbesOf(d, l)' = ProbesOf(d, l) \cup {t}
              /\ Blind(d, l)' \in BOOLEAN
              /\ Blind(d, l)' => t = "BCAST_PROBE" /\ "READ_REQ" \notin RepOf(d, l)
         /\ Distinct' /\ Directed'
<1> DEFINE seen(c) == t = "BCAST_PROBE" /\ Read(c, l) \in replies
           M(c) == [Plain(t, l) EXCEPT !.seen = seen(c)]
           P(c) == [cluster |-> c, message |-> M(c)]
           S == {P(c) : c \in cs}
           q == ProbesTo(cs, t, l)
<1>1. \A c \in cs : /\ M(c) \in Message /\ M(c).line = l /\ M(c).type = t
                    /\ M(c).seen = seen(c)
                    /\ P(c).cluster = c /\ P(c).message = M(c)
  <2> SUFFICES ASSUME NEW c \in cs
               PROVE  /\ M(c) \in Message /\ M(c).line = l /\ M(c).type = t
                      /\ M(c).seen = seen(c)
                      /\ P(c).cluster = c /\ P(c).message = M(c)
    OBVIOUS
  <2>1. Plain(t, l) \in Message /\ Plain(t, l).line = l /\ Plain(t, l).type = t
    BY MessageTypes DEF Plain
  <2>2. seen(c) \in BOOLEAN
    OBVIOUS
  <2> HIDE DEF seen
  <2> QED
    BY <2>1, <2>2 DEF Message
<1>2. q \in Seq(Probe) /\ outbox \in Seq(Probe) /\ outbox' = outbox \o q
  BY ProbesToTypes DEF SendProbes, Types, TypeOK
<1>3. /\ ToSet(q) = S
      /\ \A i, j \in DOMAIN q : q[i] = q[j] => i = j
  <2>1. IsFiniteSet(S)
    <3>1. IsFiniteSet(cs)
      BY ClustersAssumption, FS_Subset
    <3> DEFINE f == [c \in cs |-> P(c)]
    <3>2. f \in Bijection(cs, S)
      BY DEF Bijection, Injection, Surjection, IsInjective
    <3> QED
      BY <3>1, <3>2, FS_Bijection DEF ExistsBijection
  <2>2. q = SetToSeq(S)
    BY DEF ProbesTo
  <2> HIDE DEF S, q
  <2> QED
    BY <2>1, <2>2, SetToSeqElements
<1> HIDE DEF q, M, seen
<1>4. \A i \in DOMAIN q : \E c \in cs : q[i] = P(c)
  BY <1>3 DEF ToSet
<1>5. ToSet(outbox') = ToSet(outbox) \cup S
  BY <1>2, <1>3, ConcatElements
<1>6. ASSUME NEW d \in Clusters
      PROVE  /\ d \in cs => ComingTo(d)' = ComingTo(d) \cup {M(d)}
             /\ d \notin cs => ComingTo(d)' = ComingTo(d)
  <2>1. \A m : [cluster |-> d, message |-> m] \in S <=> d \in cs /\ m = M(d)
    <3> SUFFICES ASSUME NEW m
                 PROVE [cluster |-> d, message |-> m] \in S <=> d \in cs /\ m = M(d)
      OBVIOUS
    <3>1. ASSUME [cluster |-> d, message |-> m] \in S PROVE d \in cs /\ m = M(d)
      <4>1. PICK c \in cs : [cluster |-> d, message |-> m] = P(c)
        BY <3>1
      <4>2. c = d /\ m = M(c)
        BY <4>1
      <4> QED
        BY <4>2
    <3>2. ASSUME d \in cs, m = M(d) PROVE [cluster |-> d, message |-> m] \in S
      BY <3>2
    <3> QED
      BY <3>1, <3>2
  <2> HIDE DEF S
  <2> QED
    BY <1>1, <1>5, <2>1 DEF ComingTo
<1>7. ASSUME NEW d \in Clusters, NEW k \in Lines, ~(d \in cs /\ k = l)
      PROVE  ProbesOf(d, k)' = ProbesOf(d, k) /\ Blind(d, k)' = Blind(d, k)
  <2>1. CASE d \notin cs
    BY <1>6, <2>1, ProbeFrame
  <2>2. CASE d \in cs /\ k # l
    <3>1. /\ ComingTo(d)' = ComingTo(d) \cup {M(d)} /\ M(d).line # k
      BY <1>1, <1>6, <1>7, <2>2
    <3>2. ProbesOf(d, k)' = ProbesOf(d, k)
      <4> DEFINE C == ComingTo(d)
                 m == M(d)
      <4>1. ProbesOf(d, k)' = TypesIn(C \cup {m}, k, Probes)
        BY <3>1 DEF ProbesOf
      <4>2. ProbesOf(d, k) = TypesIn(C, k, Probes) /\ m.line # k
        BY <3>1 DEF ProbesOf
      <4> HIDE DEF C, m
      <4>3. TypesIn(C \cup {m}, k, Probes) = TypesIn(C, k, Probes)
        BY <4>2 DEF TypesIn
      <4> QED
        BY <4>1, <4>2, <4>3
    <3>3. Blind(d, k)' <=> Blind(d, k)
      BY <3>1 DEF Blind
    <3> QED
      BY <3>2, <3>3 DEF Blind
  <2> QED
    BY <1>7, <2>1, <2>2
<1>8. ASSUME NEW d \in cs
      PROVE  /\ ProbesOf(d, l)' = ProbesOf(d, l) \cup {t}
             /\ Blind(d, l)' \in BOOLEAN
             /\ Blind(d, l)' => t = "BCAST_PROBE" /\ "READ_REQ" \notin RepOf(d, l)
  <2>1. /\ ComingTo(d)' = ComingTo(d) \cup {M(d)}
        /\ M(d).line = l /\ M(d).type = t
    BY <1>1, <1>6, <1>8
  <2>2. ProbesOf(d, l)' = ProbesOf(d, l) \cup {t}
    <3> DEFINE C == ComingTo(d)
               m == M(d)
    <3>1. ProbesOf(d, l)' = TypesIn(C \cup {m}, l, Probes)
      BY <2>1 DEF ProbesOf
    <3>2. /\ ProbesOf(d, l) = TypesIn(C, l, Probes)
          /\ m.line = l /\ m.type = t
      BY <2>1 DEF ProbesOf
    <3> HIDE DEF C, m
    <3>3. TypesIn(C \cup {m}, l, Probes) = TypesIn(C, l, Probes) \cup {t}
      BY <3>2 DEF TypesIn
    <3> QED
      BY <3>1, <3>2, <3>3
  <2>3. ~Blind(d, l)
    BY <1>8 DEF Blind, ProbesOf, TypesIn, Probes
  <2>4. Blind(d, l)' => t = "BCAST_PROBE" /\ ~M(d).seen
    BY <2>1, <2>3 DEF Blind
  <2>5. "READ_REQ" \in RepOf(d, l) => Read(d, l) \in replies
    BY DEF RepOf, Ask, Read
  <2>6. t = "BCAST_PROBE" /\ ~M(d).seen => Read(d, l) \notin replies
    BY <1>1 DEF seen
  <2> QED
    BY <2>2, <2>4, <2>5, <2>6 DEF Blind
<1>9. \A d \in cs : \A m \in ComingTo(d) : ~Alike(m, M(d))
  <2> SUFFICES ASSUME NEW d \in cs, NEW m \in ComingTo(d), Alike(m, M(d))
               PROVE  FALSE
    OBVIOUS
  <2>1. t \in ProbesOf(d, l)
    BY <1>1 DEF Alike, ProbesOf, TypesIn
  <2> QED
    BY <2>1
<1>10. /\ \A p \in ToSet(outbox) : p.message \in ComingTo(p.cluster)
       /\ \A d \in Clusters : ToSet(down[d]) \subseteq ComingTo(d)
  <2>1. \A p \in ToSet(outbox) : p \in Probe
    BY <1>2, QueueElements
  <2>2. \A p \in ToSet(outbox) : /\ p.message \in Message
                                 /\ p = [cluster |-> p.cluster,
                                         message |-> p.message]
    BY <2>1 DEF Probe
  <2>3. \A d \in Clusters : \A m \in ToSet(down[d]) : m \in Message
    <3>1. \A d \in Clusters : down[d] \in Seq(Message)
      BY DEF Types, TypeOK
    <3> QED
      BY <3>1, QueueElements
  <2> QED
    BY <2>2, <2>3 DEF ComingTo
<1>11. Directed'
  <2>1. \A p \in ToSet(outbox') : p.message.type \in Probes
    BY <1>1, <1>5 DEF Directed
  <2> QED
    BY <2>1 DEF Directed
<1>12. Distinct'
  <2>1. \A d \in Clusters : NoTwins(up'[d]) /\ NoTwins(down'[d])
    BY DEF Distinct
  <2>2. \A p \in ToSet(outbox') :
          \A m \in ToSet(down'[p.cluster]) : ~Alike(m, p.message)
    <3> SUFFICES ASSUME NEW p \in ToSet(outbox'),
                        NEW m \in ToSet(down[p.cluster])
                 PROVE  ~Alike(m, p.message)
      OBVIOUS
    <3>1. CASE p \in ToSet(outbox)
      BY <3>1 DEF Distinct
    <3>2. CASE p \in S
      <4>1. PICK c \in cs : p = P(c)
        BY <3>2
      <4>2. p.cluster = c /\ p.message = M(c)
        BY <1>1, <4>1
      <4> QED
        BY <1>9, <1>10, <4>2
    <3> QED
      BY <1>5, <3>1, <3>2
  <2>3. \A i, j \in DOMAIN outbox' : AlikeProbes(outbox'[i], outbox'[j]) => i = j
    <3> DEFINE n == Len(outbox)
    <3>1. /\ n \in Nat /\ Len(q) \in Nat /\ DOMAIN outbox' = 1 .. n + Len(q)
          /\ DOMAIN outbox = 1 .. n /\ DOMAIN q = 1 .. Len(q)
          /\ \A i \in 1 .. n : outbox'[i] = outbox[i]
          /\ \A i \in 1 .. n + Len(q) : i > n =>
               outbox'[i] = q[i - n] /\ i - n \in 1 .. Len(q)
      BY <1>2, ConcatElements
    <3> HIDE DEF n
    <3>2. \A i \in 1 .. n : outbox[i] \in ToSet(outbox)
      BY <3>1 DEF ToSet
    <3>3. \A i \in 1 .. n, j \in 1 .. Len(q) :
            ~AlikeProbes(outbox[i], q[j]) /\ ~AlikeProbes(q[j], outbox[i])
      <4> SUFFICES ASSUME NEW i \in 1 .. n, NEW j \in 1 .. Len(q)
                   PROVE  /\ ~AlikeProbes(outbox[i], q[j])
                          /\ ~AlikeProbes(q[j], outbox[i])
        OBVIOUS
      <4>1. PICK c \in cs : q[j] = P(c)
        BY <1>4, <3>1
      <4>2. q[j].cluster = c /\ q[j].message = M(c)
        BY <1>1, <4>1
      <4>3. outbox[i].message \in ComingTo(outbox[i].cluster)
        BY <1>10, <3>2
      <4>4. outbox[i].cluster = c => ~Alike(outbox[i].message, M(c))
        BY <1>9, <4>3
      <4> QED
        BY <4>2, <4>4 DEF AlikeProbes, Alike
    <3>4. \A i, j \in 1 .. Len(q) : AlikeProbes(q[i], q[j]) => i = j
      <4> SUFFICES ASSUME NEW i \in 1 .. Len(q), NEW j \in 1 .. Len(q),
                          AlikeProbes(q[i], q[j])
                   PROVE  i = j
        OBVIOUS
      <4>1. PICK c \in cs : q[i] = P(c)
        BY <1>4, <3>1
      <4>2. PICK d \in cs : q[j] = P(d)
        BY <1>4, <3>1
      <4>3. c = d
        BY <1>1, <4>1, <4>2 DEF AlikeProbes
      <4> QED
        BY <1>3, <3>1, <4>1, <4>2, <4>3
    <3>5. \A i, j \in 1 .. n : AlikeProbes(outbox[i], outbox[j]) => i = j
      BY <3>1 DEF Distinct
    <3> SUFFICES ASSUME NEW i \in 1 .. n + Len(q), NEW j \in 1 .. n + Len(q),
                        AlikeProbes(outbox'[i], outbox'[j])
                 PROVE  i = j
      BY <3>1
    <3>6. CASE i \in 1 .. n /\ j \in 1 .. n
      BY <3>1, <3>5, <3>6
    <3>7. CASE i > n /\ j > n
      <4>1. i - n = j - n
        BY <3>1, <3>4, <3>7
      <4> QED
        BY <3>1, <4>1
    <3>8. CASE i \in 1 .. n /\ j > n
      BY <3>1, <3>3, <3>8
    <3>9. CASE i > n /\ j \in 1 .. n
      BY <3>1, <3>3, <3>9
    <3> QED
      BY <3>1, <3>6, <3>7, <3>8, <3>9
  <2> QED
    BY <2>1, <2>2, <2>3 DEF Distinct
<1> QED
  BY <1>7, <1>8, <1>11, <1>12

(* The bank sends probes of a line to clusters none is under way to, and     *)
(* writes the line's entry.                                                  *)
LEMMA RecallStep ==
  ASSUME IInv, NEW l \in Lines, NEW e, Becomes(l, e),
         UNCHANGED <<cache, mshr, answer, requests, replies, up, down>>,
         NEW cs \in SUBSET Clusters, NEW t \in Probes, SendProbes(cs, t, l),
         \A d \in cs : \A u \in ProbesOf(d, l) : FALSE,
         \A d \in Clusters \ cs : Agrees(d, l, e),
         \A d \in cs : \A b \in BOOLEAN :
           (b => t = "BCAST_PROBE" /\ "READ_REQ" \notin RepOf(d, l)) =>
             Sound(d, e, cache[d][l], mshr[d][l], answer[d][l],
                   ReqOf(d, l), RepOf(d, l), ProbesOf(d, l) \cup {t}, b,
                   AnsOf(d, l), RelOf(d, l), RepRelOf(d, l))
  PROVE  Distinct' /\ Directed' /\ Coherent'
<1>1. /\ \A d \in Clusters, k \in Lines : ~(d \in cs /\ k = l) =>
           ProbesOf(d, k)' = ProbesOf(d, k) /\ Blind(d, k)' = Blind(d, k)
      /\ \A d \in cs :
           /\ ProbesOf(d, l)' = ProbesOf(d, l) \cup {t}
           /\ Blind(d, l)' \in BOOLEAN
           /\ Blind(d, l)' => t = "BCAST_PROBE" /\ "READ_REQ" \notin RepOf(d, l)
      /\ Distinct' /\ Directed'
  BY SentProbes DEF IInv
<1>2. \A d, k : /\ ReqOf(d, k)' = ReqOf(d, k) /\ RepOf(d, k)' = RepOf(d, k)
                /\ AnsOf(d, k)' = AnsOf(d, k) /\ RelOf(d, k)' = RelOf(d, k)
                /\ RepRelOf(d, k)' = RepRelOf(d, k)
  BY DemandFrame, UpFrame, DownFrame
<1>3. ASSUME NEW d \in Clusters, NEW k \in Lines
      PROVE  Agrees(d, k, EntryOf(k))'
  <2>1. CASE d \in cs /\ k = l
    <3> DEFINE b == Blind(d, l)'
    <3>1. /\ b \in BOOLEAN
          /\ b => t = "BCAST_PROBE" /\ "READ_REQ" \notin RepOf(d, l)
          /\ ProbesOf(d, l)' = ProbesOf(d, l) \cup {t}
      BY <1>1, <2>1
    <3>2. Sound(d, e, cache[d][l], mshr[d][l], answer[d][l],
                ReqOf(d, l), RepOf(d, l), ProbesOf(d, l) \cup {t}, b,
                AnsOf(d, l), RelOf(d, l), RepRelOf(d, l))
      <4> HIDE DEF b
      <4> QED
        BY <2>1, <3>1
    <3>3. Sound(d, e, cache'[d][l], mshr'[d][l], answer'[d][l],
                ReqOf(d, l)', RepOf(d, l)', ProbesOf(d, l)', Blind(d, l)',
                AnsOf(d, l)', RelOf(d, l)', RepRelOf(d, l)')
      BY <1>2, <3>1, <3>2
    <3>4. EntryOf(l)' = e
      BY DEF Becomes
    <3> QED
      BY <2>1, <3>3, <3>4 DEF Agrees
  <2>2. CASE ~(d \in cs /\ k = l)
    <3> DEFINE f == EntryOf(k)'
    <3>1. Agrees(d, k, f)
      <4>1. CASE k = l
        <5>1. d \in Clusters \ cs
          BY <2>2, <4>1
        <5>2. f = e
          BY <4>1 DEF Becomes
        <5> QED
          BY <4>1, <5>1, <5>2
      <4>2. CASE k # l
        BY <4>2 DEF IInv, Coherent, Becomes
      <4> QED
        BY <4>1, <4>2
    <3>2. SameHeld(d, k) /\ SameSent(d, k)
      BY <1>1, <1>2, <2>2 DEF SameHeld, SameSent
    <3>3. Sound(d, f, cache'[d][k], mshr'[d][k], answer'[d][k],
                ReqOf(d, k)', RepOf(d, k)', ProbesOf(d, k)', Blind(d, k)',
                AnsOf(d, k)', RelOf(d, k)', RepRelOf(d, k)')
      <4> HIDE DEF f
      <4> QED
        BY <3>1, <3>2, SameAgrees
    <3> QED
      BY <3>3 DEF Agrees
  <2> QED
    BY <2>1, <2>2
<1> QED
  BY <1>1, <1>3 DEF Coherent

(* What may be said of a cluster and the entry a line is given.              *)
LEMMA StrangerAgrees ==
  ASSUME IInv, NEW d \in Clusters, NEW l \in Lines, NEW e,
         d \notin EntryOf(l).sharers
  PROVE  Agrees(d, l, e)
<1>1. Gone(cache[d][l], mshr[d][l], answer[d][l], RepOf(d, l), ProbesOf(d, l),
           AnsOf(d, l), RelOf(d, l))
  BY Pair, StrangerGone
<1>2. Sound(d, e, cache[d][l], mshr[d][l], answer[d][l],
            ReqOf(d, l), RepOf(d, l), ProbesOf(d, l), Blind(d, l),
            AnsOf(d, l), RelOf(d, l), RepRelOf(d, l))
  BY <1>1, Pair, GoneSound
<1> QED
  BY <1>2 DEF Agrees

(* A cluster whose request for an unlocked line waits agrees with anything.  *)
LEMMA RequesterAgrees ==
  ASSUME IInv, NEW d \in Clusters, NEW l \in Lines, NEW e,
         NEW t \in ReqOf(d, l), EntryOf(l).state \notin LockedStates
  PROVE  Agrees(d, l, e)
<1>1. Holdless(cache[d][l], mshr[d][l], RepOf(d, l), RelOf(d, l))
  BY Pair, RequesterHoldless
<1>2. Tokenless(mshr[d][l], answer[d][l], ProbesOf(d, l), AnsOf(d, l))
  BY Pair, UnlockedTokenless
<1>3. Gone(cache[d][l], mshr[d][l], answer[d][l], RepOf(d, l), ProbesOf(d, l),
           AnsOf(d, l), RelOf(d, l))
  BY <1>1, <1>2 DEF Gone
<1>4. Sound(d, e, cache[d][l], mshr[d][l], answer[d][l],
            ReqOf(d, l), RepOf(d, l), ProbesOf(d, l), Blind(d, l),
            AnsOf(d, l), RelOf(d, l), RepRelOf(d, l))
  BY <1>3, Pair, GoneSound
<1> QED
  BY <1>4 DEF Agrees

(* No probe of a line that is not locked is under way.                       *)
LEMMA UnlockedQuiet ==
  ASSUME IInv, NEW d \in Clusters, NEW l \in Lines,
         EntryOf(l).state \notin LockedStates
  PROVE  \A u \in ProbesOf(d, l) : FALSE
<1>1. Tokenless(mshr[d][l], answer[d][l], ProbesOf(d, l), AnsOf(d, l))
  BY Pair, UnlockedTokenless
<1>2. ProbesOf(d, l) \subseteq {"INVALIDATE_PROBE", "WR_RELEASE_PROBE", "BCAST_PROBE"}
  BY Pair DEF Typed, Probes, Recalls
<1> QED
  BY <1>1, <1>2 DEF Tokenless, ReadToken, WriteToken, BcastToken

(* The bank's recalls: of the readers of a line, of its writer, and of       *)
(* whoever may hold it.                                                      *)
LEMMA RecallReaders ==
  ASSUME IInv, NEW l \in Lines, NEW w \in Tracked(l), NEW e,
         entry[w].state = "READ_SHARED", e.state \in ReadLocks, e.addr = l,
         e.nakWaitlist = entry[w].nakWaitlist,
         e.sharers \subseteq entry[w].sharers,
         \A d \in entry[w].sharers \ e.sharers : \E t \in Demands : t \in ReqOf(d, l),
         SetEntry(w, e), SendProbes(e.sharers, "INVALIDATE_PROBE", l),
         UNCHANGED <<cache, mshr, answer, requests, replies, up, down>>
  PROVE  Distinct' /\ Directed' /\ Coherent'
<1> DEFINE f == EntryOf(l)
           p == "INVALIDATE_PROBE"
<1>0. Types /\ w \in Ways /\ f = entry[w]
  BY EntryFound DEF IInv, Tracked
<1>1. f.state \notin LockedStates /\ f.state = "READ_SHARED"
  BY <1>0 DEF LockedStates, EvictionLocks, BcastStates
<1>2. f.nakWaitlist = {} /\ f.sharers \subseteq Clusters
  BY <1>0, <1>1, EntryFields DEF Types, TypeOK, EntryOK, EntryShape
<1>3. e.state # "INVALID" /\ e.state \in ReadLocks
  BY DEF ReadLocks
<1>4. Becomes(l, e)
  BY <1>0, <1>3, EntryUpdated
<1>5. /\ e.sharers \in SUBSET Clusters /\ e.sharers \subseteq f.sharers
      /\ e.nakWaitlist = {} /\ p \in Probes
      /\ SendProbes(e.sharers, p, l) /\ p # "BCAST_PROBE"
      /\ p = "INVALIDATE_PROBE"
  BY <1>0, <1>2 DEF Probes, Recalls
<1> HIDE DEF p
<1>6. \A d \in Clusters : \A u \in ProbesOf(d, l) : FALSE
  BY <1>1, UnlockedQuiet
<1>7. ASSUME NEW d \in Clusters \ e.sharers PROVE Agrees(d, l, e)
  <2>1. CASE d \in f.sharers
    BY <1>0, <1>1, <1>7, <2>1, RequesterAgrees
  <2>2. CASE d \notin f.sharers
    BY <1>7, <2>2, StrangerAgrees
  <2> QED
    BY <2>1, <2>2
<1>8. ASSUME NEW d \in e.sharers, NEW b \in BOOLEAN,
             b => p = "BCAST_PROBE" /\ "READ_REQ" \notin RepOf(d, l)
      PROVE  Sound(d, e, cache[d][l], mshr[d][l], answer[d][l],
                   ReqOf(d, l), RepOf(d, l), ProbesOf(d, l) \cup {p}, b,
                   AnsOf(d, l), RelOf(d, l), RepRelOf(d, l))
  <2>1. d \in Clusters /\ d \in e.sharers /\ d \notin e.nakWaitlist
    BY <1>5, <1>8
  <2>2. b = FALSE /\ Blind(d, l) = FALSE
    BY <1>5, <1>6, <1>8, <2>1 DEF Blind, ProbesOf, TypesIn, Probes
  <2> HIDE DEF f
  <2>3. Sound(d, e, cache[d][l], mshr[d][l], answer[d][l],
              ReqOf(d, l), RepOf(d, l), ProbesOf(d, l) \cup {p}, Blind(d, l),
              AnsOf(d, l), RelOf(d, l), RepRelOf(d, l))
    BY <1>1, <1>3, <1>5, <2>1, Pair, RecallReadSound DEF f
  <2> QED
    BY <2>2, <2>3
<1>9. /\ e.sharers \in SUBSET Clusters /\ p \in Probes /\ SendProbes(e.sharers, p, l)
      /\ \A d \in e.sharers : \A u \in ProbesOf(d, l) : FALSE
  BY <1>5, <1>6
<1> QED
  BY <1>4, <1>7, <1>8, <1>9, RecallStep

(* The writer of a line is recalled.                                         *)
LEMMA RecallWriter ==
  ASSUME IInv, NEW l \in Lines, NEW w \in Tracked(l), NEW e,
         entry[w].state = "WRITE_PRIV", e.state \in WriteLocks, e.addr = l,
         e.nakWaitlist = entry[w].nakWaitlist, e.sharers = entry[w].sharers,
         SetEntry(w, e),
         SendProbes({Owner(entry[w])}, "WR_RELEASE_PROBE", l),
         UNCHANGED <<cache, mshr, answer, requests, replies, up, down>>
  PROVE  Distinct' /\ Directed' /\ Coherent'
<1> DEFINE f == EntryOf(l)
           p == "WR_RELEASE_PROBE"
<1>0. Types /\ w \in Ways /\ f = entry[w]
  BY EntryFound DEF IInv, Tracked
<1>1. f.state \notin LockedStates /\ f.state = "WRITE_PRIV"
  BY <1>0 DEF LockedStates, EvictionLocks, BcastStates
<1>2. f.nakWaitlist = {} /\ \E c \in Clusters : f.sharers = {c}
  BY <1>0, <1>1 DEF Types, TypeOK, EntryOK, EntryShape, WriteStates
<1>2o. PICK c \in Clusters : f.sharers = {c}
  BY <1>2
<1>2p. Owner(entry[w]) = c
  BY <1>0, <1>2o, OwnerNamed
<1>3. e.state # "INVALID" /\ e.state \in WriteLocks
  BY DEF WriteLocks
<1>4. Becomes(l, e)
  BY <1>0, <1>3, EntryUpdated
<1>5. /\ {c} \in SUBSET Clusters /\ e.sharers = {c}
      /\ e.nakWaitlist = {} /\ p \in Probes
      /\ SendProbes({c}, p, l) /\ p # "BCAST_PROBE"
      /\ p = "WR_RELEASE_PROBE"
  BY <1>0, <1>2, <1>2o, <1>2p DEF Probes, Recalls
<1> HIDE DEF p
<1>6. \A d \in Clusters : \A u \in ProbesOf(d, l) : FALSE
  BY <1>1, UnlockedQuiet
<1>7. \A d \in Clusters \ {c} : Agrees(d, l, e)
  BY <1>2o, StrangerAgrees
<1>8. ASSUME NEW d \in {c}, NEW b \in BOOLEAN,
             b => p = "BCAST_PROBE" /\ "READ_REQ" \notin RepOf(d, l)
      PROVE  Sound(d, e, cache[d][l], mshr[d][l], answer[d][l],
                   ReqOf(d, l), RepOf(d, l), ProbesOf(d, l) \cup {p}, b,
                   AnsOf(d, l), RelOf(d, l), RepRelOf(d, l))
  <2>1. d \in Clusters /\ e.sharers = {d} /\ d \notin e.nakWaitlist
    BY <1>5, <1>8
  <2>2. b = FALSE /\ Blind(d, l) = FALSE
    BY <1>5, <1>6, <1>8, <2>1 DEF Blind, ProbesOf, TypesIn, Probes
  <2> HIDE DEF f
  <2>3. Sound(d, e, cache[d][l], mshr[d][l], answer[d][l],
              ReqOf(d, l), RepOf(d, l), ProbesOf(d, l) \cup {p}, Blind(d, l),
              AnsOf(d, l), RelOf(d, l), RepRelOf(d, l))
    BY <1>1, <1>3, <1>5, <2>1, Pair, RecallWriteSound DEF f
  <2> QED
    BY <2>2, <2>3
<1>9. /\ {c} \in SUBSET Clusters /\ p \in Probes /\ SendProbes({c}, p, l)
      /\ \A d \in {c} : \A u \in ProbesOf(d, l) : FALSE
  BY <1>5, <1>6
<1> QED
  BY <1>4, <1>7, <1>8, <1>9, RecallStep

(* Every cluster but those whose request waits gets the broadcast.           *)
LEMMA RecallAll ==
  ASSUME IInv, NEW l \in Lines, NEW w \in Tracked(l), NEW e,
         entry[w].state = "READ_SHARED", e.state \in BcastStates, e.addr = l,
         e.sharers \in SUBSET Clusters,
         \A d \in Clusters \ e.sharers : \E t \in Demands : t \in ReqOf(d, l),
         SetEntry(w, e), SendProbes(e.sharers, "BCAST_PROBE", l),
         UNCHANGED <<cache, mshr, answer, requests, replies, up, down>>
  PROVE  Distinct' /\ Directed' /\ Coherent'
<1> DEFINE f == EntryOf(l)
           p == "BCAST_PROBE"
<1>0. Types /\ w \in Ways /\ f = entry[w]
  BY EntryFound DEF IInv, Tracked
<1>1. f.state \notin LockedStates /\ f.state = "READ_SHARED"
  BY <1>0 DEF LockedStates, EvictionLocks, BcastStates
<1>3. e.state # "INVALID" /\ e.state \in BcastStates
  BY DEF BcastStates
<1>4. Becomes(l, e)
  BY <1>0, <1>3, EntryUpdated
<1>5. e.sharers \in SUBSET Clusters /\ p \in Probes
  BY DEF Probes
<1>6. \A d \in Clusters : \A u \in ProbesOf(d, l) : FALSE
  BY <1>1, UnlockedQuiet
<1>7. ASSUME NEW d \in Clusters \ e.sharers PROVE Agrees(d, l, e)
  BY <1>1, <1>7, RequesterAgrees
<1>8. ASSUME NEW d \in e.sharers, NEW b \in BOOLEAN,
             b => p = "BCAST_PROBE" /\ "READ_REQ" \notin RepOf(d, l)
      PROVE  Sound(d, e, cache[d][l], mshr[d][l], answer[d][l],
                   ReqOf(d, l), RepOf(d, l), ProbesOf(d, l) \cup {p}, b,
                   AnsOf(d, l), RelOf(d, l), RepRelOf(d, l))
  <2>1. d \in Clusters /\ d \in e.sharers
    BY <1>5, <1>8
  <2>2. b => "READ_REQ" \notin RepOf(d, l)
    BY <1>8
  <2> HIDE DEF f
  <2> QED
    BY <1>1, <1>3, <2>1, <2>2, Pair, BroadcastSound DEF f
<1> QED
  BY <1>4, <1>5, <1>6, <1>7, <1>8, RecallStep

-----------------------------------------------------------------------------
(* Requests.                                                                 *)

(* A request that waits at the bank.                                         *)
LEMMA Requested ==
  ASSUME Types, NEW r \in requests
  PROVE  /\ r.cluster \in Clusters /\ r.line \in Lines /\ r.type \in Demands
         /\ r = Ask(r.cluster, r.line, r.type)
         /\ r.type \in ReqOf(r.cluster, r.line)
BY DEF Types, TypeOK, Request, Ask, ReqOf

(* A permitted request is answered.                                          *)
LEMMA ReplyKeeps ==
  ASSUME IInv, NEW r \in requests, Reply(r)
  PROVE  Distinct' /\ Directed' /\ Coherent'
<1> DEFINE l == r.line
           c == r.cluster
           t == r.type
           f == EntryOf(l)
           e == ClearFillPending(Downgrade(f, t), c)
<1>1. PICK w \in Tracked(l) :
        /\ Permitted(entry[w], r)
        /\ SetEntry(w, ClearFillPending(Downgrade(entry[w], t), c))
        /\ requests' = requests \ {r} /\ replies' = replies \cup {r}
        /\ UNCHANGED <<cache, mshr, answer, up, down, outbox>>
  BY DEF Reply, clusterVars
<1>2. /\ Types /\ c \in Clusters /\ l \in Lines /\ t \in Demands
      /\ r = Ask(c, l, t) /\ t \in ReqOf(c, l)
  BY Requested DEF IInv
<1>3. w \in Ways /\ f = entry[w] /\ f \in Entry /\ EntryShape(f)
  BY <1>2, EntryFound DEF Tracked, Types, TypeOK, EntryOK
<1>4. /\ c \in f.sharers
      /\ \/ f.state = "WRITE_PRIV"
         \/ f.state = "READ_SHARED" /\ t = "READ_REQ"
  BY <1>1, <1>3 DEF Permitted, WritePermitted, ReadPermitted
<1>5. /\ e.sharers = f.sharers /\ e.nakWaitlist = f.nakWaitlist
      /\ e.addr = f.addr
      /\ t = "READ_REQ" => e.state = "READ_SHARED"
      /\ t # "READ_REQ" => e.state = f.state
  BY <1>3 DEF ClearFillPending, Downgrade, Entry
<1>6. /\ f.addr = l /\ f.state \notin LockedStates /\ e.state # "INVALID"
  BY <1>1, <1>3, <1>4, <1>5 DEF Tracked, LockedStates, EvictionLocks,
     BcastStates
<1>7. SetEntry(w, e)
  BY <1>1, <1>3
<1> HIDE DEF e, f, l, c, t
<1>8. Becomes(l, e)
  BY <1>1, <1>2, <1>3, <1>5, <1>6, <1>7, EntryUpdated
<1>9. /\ ReqOf(c, l)' = ReqOf(c, l) \ {t} /\ RepOf(c, l)' = RepOf(c, l) \cup {t}
      /\ \A d, k : ~(d = c /\ k = l) => /\ ReqOf(d, k)' = ReqOf(d, k)
                                        /\ RepOf(d, k)' = RepOf(d, k)
  BY <1>1, <1>2 DEF ReqOf, RepOf, Ask
<1>10. \A d, k : /\ ProbesOf(d, k)' = ProbesOf(d, k)
                 /\ Blind(d, k)' = Blind(d, k)
                 /\ AnsOf(d, k)' = AnsOf(d, k) /\ RelOf(d, k)' = RelOf(d, k)
                 /\ RepRelOf(d, k)' = RepRelOf(d, k)
  BY <1>1, UpFrame, DownFrame, ComingFrame, ProbeFrame
<1>11. Sound(c, e, cache[c][l], mshr[c][l], answer[c][l], ReqOf(c, l) \ {t},
             RepOf(c, l) \cup {t}, ProbesOf(c, l), Blind(c, l),
             AnsOf(c, l), RelOf(c, l), RepRelOf(c, l))
  <2>1. t = "WRITE_REQ" => e.sharers = {c} /\ e.state = "WRITE_PRIV"
    BY <1>3, <1>4, <1>5 DEF EntryShape, WriteStates
  <2>2. t = "READ_REQ" => e.state = "READ_SHARED"
    BY <1>5
  <2>3. c \in e.sharers
    BY <1>4, <1>5
  <2>4. /\ Sound(c, f, cache[c][l], mshr[c][l], answer[c][l],
                 ReqOf(c, l), RepOf(c, l), ProbesOf(c, l), Blind(c, l),
                 AnsOf(c, l), RelOf(c, l), RepRelOf(c, l))
        /\ Typed(cache[c][l], mshr[c][l], answer[c][l], ReqOf(c, l),
                 RepOf(c, l), ProbesOf(c, l), Blind(c, l), AnsOf(c, l),
                 RelOf(c, l), RepRelOf(c, l))
    BY <1>2, Pair DEF f
  <2> QED
    BY <1>2, <1>6, <2>1, <2>2, <2>3, <2>4, ReplySound
<1>12. ASSUME NEW d \in Clusters, d # c PROVE Agrees(d, l, e)
  <2>1. CASE d \notin f.sharers
    BY <1>2, <2>1, StrangerAgrees DEF f
  <2>2. CASE d \in f.sharers
    <3>1. f.state = "READ_SHARED" /\ e.state = "READ_SHARED"
      BY <1>3, <1>4, <1>5, <1>12, <2>2 DEF EntryShape, WriteStates
    <3>2. Sound(d, f, cache[d][l], mshr[d][l], answer[d][l],
                ReqOf(d, l), RepOf(d, l), ProbesOf(d, l), Blind(d, l),
                AnsOf(d, l), RelOf(d, l), RepRelOf(d, l))
      BY <1>2, Pair DEF f
    <3>3. Sound(d, e, cache[d][l], mshr[d][l], answer[d][l],
                ReqOf(d, l), RepOf(d, l), ProbesOf(d, l), Blind(d, l),
                AnsOf(d, l), RelOf(d, l), RepRelOf(d, l))
      BY <1>5, <3>1, <3>2, KeepSound
    <3> QED
      BY <3>3 DEF Agrees
  <2> QED
    BY <2>1, <2>2
<1>13. ASSUME NEW d \in Clusters, NEW k \in Lines
       PROVE  Agrees(d, k, EntryOf(k))'
  <2>1. CASE d = c /\ k = l
    <3>1. Sound(c, e, cache'[c][l], mshr'[c][l], answer'[c][l],
                ReqOf(c, l)', RepOf(c, l)', ProbesOf(c, l)', Blind(c, l)',
                AnsOf(c, l)', RelOf(c, l)', RepRelOf(c, l)')
      BY <1>1, <1>9, <1>10, <1>11
    <3> QED
      BY <1>8, <2>1, <3>1 DEF Agrees, Becomes
  <2>2. CASE ~(d = c /\ k = l)
    <3> DEFINE g == EntryOf(k)'
    <3>1. Agrees(d, k, g)
      <4>1. CASE k = l
        BY <1>8, <1>12, <2>2, <4>1 DEF Becomes
      <4>2. CASE k # l
        BY <1>8, <4>2 DEF IInv, Coherent, Becomes
      <4> QED
        BY <4>1, <4>2
    <3>2. SameHeld(d, k) /\ SameSent(d, k)
      BY <1>1, <1>9, <1>10, <2>2 DEF SameHeld, SameSent
    <3>3. Sound(d, g, cache'[d][k], mshr'[d][k], answer'[d][k],
                ReqOf(d, k)', RepOf(d, k)', ProbesOf(d, k)', Blind(d, k)',
                AnsOf(d, k)', RelOf(d, k)', RepRelOf(d, k)')
      <4> HIDE DEF g
      <4> QED
        BY <3>1, <3>2, SameAgrees
    <3> QED
      BY <3>3 DEF Agrees
  <2> QED
    BY <2>1, <2>2
<1> QED
  BY <1>1, <1>13, QuietQueues DEF IInv, Coherent

(* A reader joins the others.                                                *)
LEMMA ShareLineKeeps ==
  ASSUME IInv, NEW r \in requests, ShareLine(r)
  PROVE  Distinct' /\ Directed' /\ Coherent'
<1> DEFINE l == r.line
           f == EntryOf(l)
           e == [Join(f, r.cluster) EXCEPT !.fillPending = @ \cup {r.cluster}]
<1>1. PICK w \in Tracked(l) :
        /\ entry[w].state = "READ_SHARED"
        /\ SetEntry(w, [Join(entry[w], r.cluster) EXCEPT
                          !.fillPending = @ \cup {r.cluster}])
        /\ UNCHANGED <<cache, mshr, answer, requests, replies, up, down, outbox>>
  BY DEF ShareLine, Hit, clusterVars
<1>2. Types /\ l \in Lines
  BY Requested DEF IInv
<1>3. w \in Ways /\ f = entry[w] /\ f \in Entry
  BY <1>2, EntryFound DEF Tracked, Types, TypeOK
<1>4. /\ f.sharers \subseteq e.sharers /\ e.state = f.state /\ e.addr = f.addr
      /\ f.state = "READ_SHARED"
  BY <1>1, <1>3 DEF Join, Entry
<1>5. f.addr = l /\ SetEntry(w, e)
  BY <1>1, <1>3 DEF Tracked
<1> HIDE DEF e, f, l
<1>6. Becomes(l, e)
  BY <1>1, <1>2, <1>3, <1>4, <1>5, EntryUpdated
<1>7. ASSUME NEW d \in Clusters PROVE Agrees(d, l, e)
  <2>1. Sound(d, f, cache[d][l], mshr[d][l], answer[d][l],
              ReqOf(d, l), RepOf(d, l), ProbesOf(d, l), Blind(d, l),
              AnsOf(d, l), RelOf(d, l), RepRelOf(d, l))
    BY <1>2, Pair DEF f
  <2>2. Sound(d, e, cache[d][l], mshr[d][l], answer[d][l],
              ReqOf(d, l), RepOf(d, l), ProbesOf(d, l), Blind(d, l),
              AnsOf(d, l), RelOf(d, l), RepRelOf(d, l))
    BY <1>4, <2>1, SharersGrowSound
  <2> QED
    BY <2>2 DEF Agrees
<1> QED
  BY <1>1, <1>2, <1>6, <1>7, EntryStep

(* What a request finds when the line has an unlocked entry.                 *)
LEMMA HitEntry ==
  ASSUME IInv, NEW r \in requests, NEW w \in Ways, Hit(r, w)
  PROVE  /\ r.line \in Lines /\ w \in Tracked(r.line)
         /\ EntryOf(r.line) = entry[w] /\ entry[w].addr = r.line
         /\ entry[w] \in Entry /\ EntryShape(entry[w])
         /\ entry[w].state \notin LockedStates
         /\ entry[w].sharers \in SUBSET Clusters
         /\ UNCHANGED <<cache, mshr, answer, requests, replies, up, down>>
<1>1. Types /\ r.line \in Lines
  BY Requested DEF IInv
<1>2. /\ w \in Tracked(r.line) /\ entry[w].state \notin LockedStates
      /\ UNCHANGED <<cache, mshr, answer, requests, replies, up, down>>
  BY DEF Hit, Blocked, clusterVars
<1>3. EntryOf(r.line) = entry[w]
  BY <1>1, <1>2, EntryFound
<1>4. entry[w] \in Entry /\ EntryShape(entry[w])
  BY <1>1 DEF Types, TypeOK, EntryOK
<1>5. entry[w].addr = r.line
  BY <1>2 DEF Tracked
<1> QED
  BY <1>1, <1>2, <1>3, <1>4, <1>5, EntryFields

(* A write request has the readers recalled.                                 *)
LEMMA InvalidateSharersKeeps ==
  ASSUME IInv, NEW r \in requests, InvalidateSharers(r)
  PROVE  Distinct' /\ Directed' /\ Coherent'
<1> DEFINE l == r.line
           c == r.cluster
<1>1. PICK w \in Ways :
        /\ Hit(r, w) /\ entry[w].state = "READ_SHARED"
        /\ SetEntry(w, IF entry[w].sharers = {c}
             THEN [entry[w] EXCEPT !.state = "WRITE_PRIV",
                                   !.fillPending = @ \cup {c}]
             ELSE [entry[w] EXCEPT !.state = "PENDING_WRITE",
                                   !.sharers = entry[w].sharers \ {c},
                                   !.waiting = c])
        /\ SendProbes(entry[w].sharers \ {c}, "INVALIDATE_PROBE", l)
  BY DEF InvalidateSharers
<1> DEFINE f == entry[w]
<1>2. /\ l \in Lines /\ w \in Tracked(l) /\ EntryOf(l) = f /\ f.addr = l
      /\ f \in Entry /\ f.state \notin LockedStates
      /\ f.sharers \in SUBSET Clusters
      /\ UNCHANGED <<cache, mshr, answer, requests, replies, up, down>>
  BY <1>1, HitEntry
<1>3. c \in Clusters /\ r.type \in Demands /\ r.type \in ReqOf(c, l)
  BY Requested DEF IInv
<1>4. CASE f.sharers = {c}
  <2> DEFINE e == [f EXCEPT !.state = "WRITE_PRIV",
                            !.fillPending = @ \cup {c}]
  <2>1. e.state = "WRITE_PRIV" /\ e.addr = l
    BY <1>2 DEF Entry
  <2>2. SetEntry(w, e)
    BY <1>1, <1>4
  <2>3. SendProbes({}, "INVALIDATE_PROBE", l)
    <3>1. f.sharers \ {c} = {}
      BY <1>4
    <3> QED
      BY <1>1, <3>1
  <2> HIDE DEF e
  <2>4. Becomes(l, e)
    BY <1>2, <2>1, <2>2, EntryUpdated DEF IInv
  <2>5. ASSUME NEW d \in Clusters PROVE Agrees(d, l, e)
    <3>1. CASE d = c
      BY <1>2, <1>3, <3>1, RequesterAgrees
    <3>2. CASE d # c
      BY <1>2, <1>4, <3>2, StrangerAgrees
    <3> QED
      BY <3>1, <3>2
  <2> DEFINE p == "INVALIDATE_PROBE"
             cs == {}
  <2>6. /\ p \in Probes /\ SendProbes(cs, p, l) /\ cs \in SUBSET Clusters
        /\ \A d \in cs : FALSE
        /\ \A d \in Clusters \ cs : Agrees(d, l, e)
    BY <2>3, <2>5 DEF Probes, Recalls
  <2> HIDE DEF p, cs
  <2> QED
    BY <1>2, <2>4, <2>6, RecallStep
<1>5. CASE f.sharers # {c}
  <2> DEFINE e == [f EXCEPT !.state = "PENDING_WRITE",
                            !.sharers = f.sharers \ {c}, !.waiting = c]
  <2>1. /\ e.state = "PENDING_WRITE" /\ e.addr = l
        /\ e.nakWaitlist = f.nakWaitlist /\ e.sharers = f.sharers \ {c}
    BY <1>2 DEF Entry
  <2>2. SetEntry(w, e)
    BY <1>1, <1>5
  <2> HIDE DEF e
  <2>3. /\ SendProbes(e.sharers, "INVALIDATE_PROBE", l)
        /\ e.sharers \subseteq f.sharers /\ e.state \in ReadLocks
    BY <1>1, <2>1 DEF ReadLocks
  <2>4. \A d \in f.sharers \ e.sharers : \E t \in Demands : t \in ReqOf(d, l)
    BY <1>3, <2>1
  <2> HIDE DEF l, c
  <2> QED
    BY <1>1, <1>2, <2>1, <2>2, <2>3, <2>4, RecallReaders
<1> QED
  BY <1>4, <1>5

(* A write request has the readers recalled by a broadcast.                  *)
LEMMA InvalidateByBroadcastKeeps ==
  ASSUME IInv, NEW r \in requests, InvalidateByBroadcast(r)
  PROVE  Distinct' /\ Directed' /\ Coherent'
<1> DEFINE l == r.line
           c == r.cluster
<1>1. PICK w \in Ways :
        /\ Hit(r, w) /\ entry[w].state = "READ_SHARED"
        /\ Broadcast(w, "PENDING_WRITE_BCAST", Clusters \ {c})
  BY DEF InvalidateByBroadcast
<1> DEFINE f == entry[w]
           e == [f EXCEPT !.state = "PENDING_WRITE_BCAST",
                          !.sharers = Clusters \ {c}]
<1>2. /\ l \in Lines /\ w \in Tracked(l) /\ EntryOf(l) = f /\ f.addr = l
      /\ f \in Entry
      /\ UNCHANGED <<cache, mshr, answer, requests, replies, up, down>>
  BY <1>1, HitEntry
<1>3. c \in Clusters /\ r.type \in Demands /\ r.type \in ReqOf(c, l)
  BY Requested DEF IInv
<1>4. /\ e.state = "PENDING_WRITE_BCAST" /\ e.addr = l
      /\ e.sharers = Clusters \ {c}
  BY <1>2 DEF Entry
<1>5. SetEntry(w, e) /\ SendProbes(Clusters \ {c}, "BCAST_PROBE", l)
  BY <1>1, <1>2 DEF Broadcast
<1> HIDE DEF e
<1>6. /\ SendProbes(e.sharers, "BCAST_PROBE", l) /\ e.state \in BcastStates
      /\ e.sharers \in SUBSET Clusters
  BY <1>4, <1>5 DEF BcastStates
<1>7. \A d \in Clusters \ e.sharers : \E t \in Demands : t \in ReqOf(d, l)
  BY <1>3, <1>4
<1> HIDE DEF l, c
<1> QED
  BY <1>1, <1>2, <1>4, <1>5, <1>6, <1>7, RecallAll

(* A request has the owner recalled.                                         *)
LEMMA RecallOwnerKeeps ==
  ASSUME IInv, NEW r \in requests, RecallOwner(r)
  PROVE  Distinct' /\ Directed' /\ Coherent'
<1> DEFINE l == r.line
           s == IF r.type = "READ_REQ" THEN "PENDING_WB" ELSE "PENDING_WRITE"
<1>1. PICK w \in Ways :
        /\ Hit(r, w) /\ entry[w].state = "WRITE_PRIV"
        /\ SetEntry(w, [entry[w] EXCEPT !.state = s, !.waiting = r.cluster])
        /\ SendProbes({Owner(entry[w])}, "WR_RELEASE_PROBE", l)
  BY DEF RecallOwner
<1> DEFINE f == entry[w]
           e == [f EXCEPT !.state = s, !.waiting = r.cluster]
<1>2. /\ l \in Lines /\ w \in Tracked(l) /\ f.addr = l
      /\ f \in Entry
      /\ UNCHANGED <<cache, mshr, answer, requests, replies, up, down>>
  BY <1>1, HitEntry
<1>3. s \in WriteLocks
  BY DEF WriteLocks
<1> HIDE DEF s
<1>4. /\ e.state = s /\ e.addr = l /\ e.sharers = f.sharers
      /\ e.nakWaitlist = f.nakWaitlist
  BY <1>2 DEF Entry
<1>5. SetEntry(w, e)
  BY <1>1
<1> HIDE DEF e, l
<1> QED
  BY <1>1, <1>2, <1>3, <1>4, <1>5, RecallWriter

(* A request is given a free entry.                                          *)
LEMMA AllocateKeeps ==
  ASSUME IInv, NEW r \in requests, Allocate(r)
  PROVE  Distinct' /\ Directed' /\ Coherent'
<1> DEFINE l == r.line
           s == IF r.type = "READ_REQ" THEN "READ_SHARED" ELSE "WRITE_PRIV"
           e == Owned(l, s, r.cluster)
<1>1. PICK w \in Ways :
        /\ Tracked(l) = {} /\ entry[w].state = "INVALID" /\ SetEntry(w, e)
        /\ UNCHANGED <<cache, mshr, answer, requests, replies, up, down, outbox>>
  BY DEF Allocate, MayReplace, clusterVars
<1>2. l \in Lines
  BY Requested DEF IInv
<1>3. e.state # "INVALID" /\ e.addr = l
  BY DEF Owned, Reset
<1>4. EntryOf(l) = Reset /\ Reset.sharers = {}
  BY <1>1, <1>2, EntryMissing DEF Reset
<1> HIDE DEF e
<1>5. Becomes(l, e)
  BY <1>1, <1>2, <1>3, EntryTaken DEF IInv
<1>6. \A d \in Clusters : Agrees(d, l, e)
  BY <1>2, <1>4, StrangerAgrees
<1> QED
  BY <1>1, <1>2, <1>5, <1>6, EntryStep

(* The copies of a victim are recalled.                                      *)
LEMMA RecallVictimKeeps ==
  ASSUME IInv, NEW w \in Ways, entry[w].state # "INVALID", ~Blocked(entry[w]),
         RecallVictim(w),
         UNCHANGED <<cache, mshr, answer, requests, replies, up, down>>
  PROVE  Distinct' /\ Directed' /\ Coherent'
<1> DEFINE f == entry[w]
           l == f.addr
<1>1. f \in Entry /\ l \in Lines /\ w \in Tracked(l)
  BY DEF IInv, Types, TypeOK, EntryOK, EntryShape, Tracked
<1>2. f.sharers \in SUBSET Clusters
  BY <1>1, EntryFields
<1>3. f.state \in {"READ_SHARED", "WRITE_PRIV"}
  BY <1>1, EntryFields DEF Blocked, States, LockedStates
<1>4. CASE f.state = "WRITE_PRIV"
  <2> DEFINE e == [f EXCEPT !.state = "EVICTION_LOCK_WRITE"]
  <2>1. /\ e.state = "EVICTION_LOCK_WRITE" /\ e.addr = l
        /\ e.sharers = f.sharers /\ e.nakWaitlist = f.nakWaitlist
    BY <1>1 DEF Entry
  <2>2. SetEntry(w, e) /\ SendProbes({Owner(f)}, "WR_RELEASE_PROBE", l)
    BY <1>4 DEF RecallVictim
  <2> HIDE DEF e
  <2>3. e.state \in WriteLocks
    BY <2>1 DEF WriteLocks
  <2> HIDE DEF l
  <2> QED
    BY <1>1, <1>4, <2>1, <2>2, <2>3, RecallWriter
<1>5. CASE f.state = "READ_SHARED" /\ f.bcast
  <2> DEFINE e == [f EXCEPT !.state = "EVICTION_LOCK_READ_BCAST",
                            !.sharers = Clusters]
  <2>1. /\ e.state = "EVICTION_LOCK_READ_BCAST" /\ e.addr = l
        /\ e.sharers = Clusters
    BY <1>1 DEF Entry
  <2>2. SetEntry(w, e) /\ SendProbes(Clusters, "BCAST_PROBE", l)
    BY <1>5 DEF RecallVictim, Broadcast
  <2> HIDE DEF e
  <2>3. /\ SendProbes(e.sharers, "BCAST_PROBE", l) /\ e.state \in BcastStates
        /\ e.sharers \in SUBSET Clusters /\ Clusters \ e.sharers = {}
    BY <2>1, <2>2 DEF BcastStates
  <2> HIDE DEF l
  <2> QED
    BY <1>1, <1>5, <2>1, <2>2, <2>3, RecallAll
<1>6. CASE f.state = "READ_SHARED" /\ ~f.bcast
  <2> DEFINE e == [f EXCEPT !.state = "EVICTION_LOCK_READ"]
  <2>1. /\ e.state = "EVICTION_LOCK_READ" /\ e.addr = l
        /\ e.sharers = f.sharers /\ e.nakWaitlist = f.nakWaitlist
    BY <1>1 DEF Entry
  <2>2. SetEntry(w, e) /\ SendProbes(f.sharers, "INVALIDATE_PROBE", l)
    BY <1>6 DEF RecallVictim
  <2> HIDE DEF e
  <2>3. /\ e.state \in ReadLocks /\ f.sharers \ e.sharers = {}
        /\ SendProbes(e.sharers, "INVALIDATE_PROBE", l)
        /\ e.sharers \subseteq f.sharers
    BY <2>1, <2>2 DEF ReadLocks
  <2> HIDE DEF l
  <2> QED
    BY <1>1, <1>6, <2>1, <2>2, <2>3, RecallReaders
<1> QED
  BY <1>3, <1>4, <1>5, <1>6

(* Nothing a cluster or its messages could notice.                           *)
LEMMA SilentKeeps ==
  ASSUME IInv, UNCHANGED <<cache, mshr, answer, requests, replies, up, down,
                           entry, outbox>>
  PROVE  Distinct' /\ Directed' /\ Coherent'
<1>1. \A d, k : SameSent(d, k) /\ SameHeld(d, k)
  BY DemandFrame, UpFrame, DownFrame, ComingFrame, ProbeFrame DEF SameSent,
     SameHeld
<1>2. ASSUME NEW d \in Clusters, NEW k \in Lines
      PROVE  Agrees(d, k, EntryOf(k))'
  <2>1. EntryOf(k)' = EntryOf(k)
    BY EntryFrame
  <2>2. Agrees(d, k, EntryOf(k))
    BY DEF IInv, Coherent
  <2>3. Sound(d, EntryOf(k), cache'[d][k], mshr'[d][k], answer'[d][k],
              ReqOf(d, k)', RepOf(d, k)', ProbesOf(d, k)', Blind(d, k)',
              AnsOf(d, k)', RelOf(d, k)', RepRelOf(d, k)')
    BY <1>1, <2>2, SameAgrees
  <2> QED
    BY <2>1, <2>3 DEF Agrees
<1> QED
  BY <1>2, QuietQueues DEF IInv, Coherent

(* A request reserves a way and may have its copies recalled.                *)
LEMMA EvictKeeps ==
  ASSUME IInv, NEW r \in requests, Evict(r)
  PROVE  Distinct' /\ Directed' /\ Coherent'
<1>1. PICK w \in Ways :
        /\ entry[w].state # "INVALID"
        /\ UNCHANGED <<cache, mshr, answer, requests, replies, up, down>>
        /\ \/ ~Blocked(entry[w]) /\ RecallVictim(w)
           \/ UNCHANGED <<entry, outbox>>
  BY DEF Evict, MayReplace, clusterVars
<1> QED
  BY <1>1, RecallVictimKeeps, SilentKeeps

-----------------------------------------------------------------------------
(* Probes out, and what the clusters send in.                                *)

(* A probe leaves the outbox for the queue of its cluster.                   *)
LEMMA SendProbeKeeps ==
  ASSUME IInv, SendProbe
  PROVE  Distinct' /\ Directed' /\ Coherent'
<1> DEFINE p == Head(outbox)
           c == p.cluster
           m == p.message
<1>1. /\ outbox # <<>> /\ outbox' = Tail(outbox)
      /\ down' = [down EXCEPT ![c] = Append(@, m)]
      /\ UNCHANGED <<cache, mshr, answer, requests, replies, up, entry>>
  BY DEF SendProbe, NextProbe, clusterVars
<1>2. outbox \in Seq(Probe) /\ Types /\ Distinct /\ Directed
  BY DEF IInv, Types, TypeOK
<1>3. /\ p \in Probe /\ p = outbox[1] /\ p \in ToSet(outbox)
      /\ ToSet(outbox) = ToSet(outbox') \cup {p}
      /\ DOMAIN outbox' = 1 .. Len(outbox) - 1 /\ Len(outbox) \in Nat
      /\ DOMAIN outbox = 1 .. Len(outbox) /\ 1 \in DOMAIN outbox
      /\ \A i \in DOMAIN outbox' : outbox'[i] = outbox[i + 1]
  BY <1>1, <1>2, TailElements
<1>4. /\ c \in Clusters /\ m \in Message /\ p = [cluster |-> c, message |-> m]
      /\ m.type \in Probes
  BY <1>2, <1>3 DEF Probe, Directed
<1>5. /\ down[c] \in Seq(Message) /\ down'[c] = Append(down[c], m)
      /\ \A d \in Clusters : d # c => down'[d] = down[d]
  BY <1>1, <1>2, <1>4 DEF Types, TypeOK
<1>6. /\ NoTwins(down[c]) /\ \A x \in ToSet(down[c]) : ~Alike(x, m)
  BY <1>2, <1>3, <1>4 DEF Distinct
<1>7. NoTwins(down'[c]) /\ ToSet(down'[c]) = ToSet(down[c]) \cup {m}
  BY <1>4, <1>5, <1>6, Enqueue
<1>8. \A q \in ToSet(outbox') : q \in ToSet(outbox) /\ ~AlikeProbes(q, p)
  <2> SUFFICES ASSUME NEW i \in DOMAIN outbox'
               PROVE  outbox'[i] \in ToSet(outbox) /\ ~AlikeProbes(outbox'[i], p)
    BY DEF ToSet
  <2>1. i + 1 \in DOMAIN outbox /\ i + 1 # 1 /\ outbox'[i] = outbox[i + 1]
    BY <1>3
  <2>2. ~AlikeProbes(outbox[i + 1], outbox[1])
    BY <1>2, <1>3, <2>1 DEF Distinct
  <2> QED
    BY <1>3, <2>1, <2>2 DEF ToSet
<1>9. \A d \in Clusters : ComingTo(d)' = ComingTo(d)
  <2> SUFFICES ASSUME NEW d \in Clusters PROVE ComingTo(d)' = ComingTo(d)
    OBVIOUS
  <2> HIDE DEF p
  <2>1. CASE d = c
    BY <1>3, <1>4, <1>7, <2>1 DEF ComingTo
  <2>2. CASE d # c
    <3>1. \A x : [cluster |-> d, message |-> x] # p
      BY <1>4, <2>2
    <3> QED
      BY <1>3, <1>5, <2>2, <3>1 DEF ComingTo
  <2> QED
    BY <2>1, <2>2
<1>10. \A d \in Clusters, k \in Lines : RepRelOf(d, k)' = RepRelOf(d, k)
  <2> SUFFICES ASSUME NEW d \in Clusters, NEW k \in Lines
               PROVE  RepRelOf(d, k)' = RepRelOf(d, k)
    OBVIOUS
  <2> HIDE DEF p
  <2>1. CASE d = c
    <3> DEFINE S == ToSet(down[c])
               n == m
    <3>1. /\ RepRelOf(d, k)' = TypesIn(S \cup {n}, k, Releases)
          /\ RepRelOf(d, k) = TypesIn(S, k, Releases) /\ n.type \notin Releases
      BY <1>4, <1>7, <2>1, MessageKinds DEF RepRelOf
    <3> HIDE DEF S, n
    <3>2. TypesIn(S \cup {n}, k, Releases) = TypesIn(S, k, Releases)
      BY <3>1 DEF TypesIn
    <3> QED
      BY <3>1, <3>2
  <2>2. CASE d # c
    BY <1>5, <2>2, DownFrame
  <2> QED
    BY <2>1, <2>2
<1>11. Directed'
  BY <1>1, <1>2, <1>4, <1>5, <1>7, <1>8 DEF Directed
<1>12. Distinct'
  <2>1. \A d \in Clusters : NoTwins(up'[d]) /\ NoTwins(down'[d])
    BY <1>1, <1>2, <1>5, <1>7 DEF Distinct
  <2>2. \A i, j \in DOMAIN outbox' : AlikeProbes(outbox'[i], outbox'[j]) => i = j
    <3> SUFFICES ASSUME NEW i \in DOMAIN outbox', NEW j \in DOMAIN outbox',
                        AlikeProbes(outbox'[i], outbox'[j])
                 PROVE  i = j
      OBVIOUS
    <3>1. i + 1 \in DOMAIN outbox /\ j + 1 \in DOMAIN outbox
      BY <1>3
    <3>2. i + 1 = j + 1
      BY <1>2, <1>3, <3>1 DEF Distinct
    <3> QED
      BY <1>3, <3>2
  <2>3. \A q \in ToSet(outbox') : \A x \in ToSet(down'[q.cluster]) : ~Alike(x, q.message)
    <3> SUFFICES ASSUME NEW q \in ToSet(outbox'), NEW x \in ToSet(down'[q.cluster])
                 PROVE  ~Alike(x, q.message)
      OBVIOUS
    <3>1. q \in ToSet(outbox) /\ ~AlikeProbes(q, p) /\ q \in Probe
      BY <1>2, <1>8, QueueElements
    <3>2. q.cluster \in Clusters
      BY <3>1 DEF Probe
    <3>3. CASE x \in ToSet(down[q.cluster])
      BY <1>2, <3>1, <3>3 DEF Distinct
    <3>4. CASE x = m /\ q.cluster = c
      <4>1. ~Alike(q.message, m)
        BY <3>1, <3>4 DEF AlikeProbes
      <4> QED
        BY <3>4, <4>1 DEF Alike
    <3> QED
      BY <1>5, <1>7, <3>2, <3>3, <3>4
  <2> QED
    BY <2>1, <2>2, <2>3 DEF Distinct
<1>13. Coherent'
  <2> SUFFICES ASSUME NEW d \in Clusters, NEW k \in Lines
               PROVE  Agrees(d, k, EntryOf(k))'
    BY DEF Coherent
  <2>1. SameHeld(d, k)
    BY <1>1 DEF SameHeld
  <2>2. SameSent(d, k)
    BY <1>1, <1>9, <1>10, DemandFrame, UpFrame, ProbeFrame DEF SameSent
  <2>3. EntryOf(k)' = EntryOf(k)
    BY <1>1, EntryFrame
  <2>4. Agrees(d, k, EntryOf(k))
    BY DEF IInv, Coherent
  <2>5. Sound(d, EntryOf(k), cache'[d][k], mshr'[d][k], answer'[d][k],
              ReqOf(d, k)', RepOf(d, k)', ProbesOf(d, k)', Blind(d, k)',
              AnsOf(d, k)', RelOf(d, k)', RepRelOf(d, k)')
    BY <2>1, <2>2, <2>4, SameAgrees
  <2> QED
    BY <2>3, <2>5 DEF Agrees
<1> QED
  BY <1>11, <1>12, <1>13

(* The directory takes the next message of a cluster.                        *)
Gets(c, m, w) == up[c] # <<>> /\ m = Head(up[c]) /\ Receive(c, m, w)

(* The message is an answer or a release of its cluster.                     *)
LEMMA TakenUp ==
  ASSUME Types, Distinct, Directed, NEW c \in Clusters, NEW m, NEW w,
         Gets(c, m, w)
  PROVE  /\ m \in Message /\ m.line \in Lines
         /\ m.type \in Answers \cup Releases
         /\ m.type \in Answers => m.type \in AnsOf(c, m.line)
         /\ m.type \in Releases => m.type \in RelOf(c, m.line)
<1>1. /\ up[c] \in Seq(Message) /\ up[c] # <<>> /\ m = Head(up[c])
  BY DEF Types, TypeOK, Gets
<1>2. m \in Message /\ m \in ToSet(up[c])
  BY <1>1, TailElements
<1>3. m.type \in Answers \cup Releases /\ m.line \in Lines
  BY <1>2, MessageTypes DEF Directed, Message
<1> QED
  BY <1>2, <1>3 DEF AnsOf, RelOf, TypesIn

(* The views of the queues when the directory takes a message.               *)
LEMMA Delivered ==
  ASSUME Types, Distinct, Directed, NEW c \in Clusters, NEW m, NEW w,
         Gets(c, m, w),
         m.type \in Releases => m.type \notin RepRelOf(c, m.line)
  PROVE  /\ \A d \in Clusters, k \in Lines : ~(d = c /\ k = m.line) =>
              /\ AnsOf(d, k)' = AnsOf(d, k) /\ RelOf(d, k)' = RelOf(d, k)
              /\ RepRelOf(d, k)' = RepRelOf(d, k)
         /\ m.type \in Answers =>
              /\ AnsOf(c, m.line)' = AnsOf(c, m.line) \ {m.type}
              /\ RelOf(c, m.line)' = RelOf(c, m.line)
              /\ RepRelOf(c, m.line)' = RepRelOf(c, m.line)
         /\ m.type \in Releases =>
              /\ AnsOf(c, m.line)' = AnsOf(c, m.line)
              /\ RelOf(c, m.line)' = RelOf(c, m.line) \ {m.type}
              /\ RepRelOf(c, m.line)' = RepRelOf(c, m.line) \cup {m.type}
         /\ \A d \in Clusters, k \in Lines :
              ProbesOf(d, k)' = ProbesOf(d, k) /\ Blind(d, k)' = Blind(d, k)
         /\ Distinct' /\ Directed'
<1> DEFINE U == ToSet(up'[c])
           D == ToSet(down[c])
<1>1. /\ m \in Message /\ m.line \in Lines /\ m.type \in Answers \cup Releases
  BY TakenUp
<1>2. /\ up[c] \in Seq(Message) /\ NoTwins(up[c]) /\ up[c] # <<>>
      /\ m = Head(up[c]) /\ up'[c] = Tail(up[c])
      /\ \A d \in Clusters : d # c => up'[d] = up[d]
      /\ outbox' = outbox
      /\ down[c] \in Seq(Message) /\ NoTwins(down[c])
  BY DEF Types, TypeOK, Distinct, Gets, Receive
<1>3. /\ \A d \in Clusters : d # c => down'[d] = down[d]
      /\ m.type \in Releases => down'[c] = Append(down[c], m)
      /\ m.type \notin Releases => down' = down
  BY DEF Types, TypeOK, Gets, Receive
<1>4. /\ NoTwins(up'[c]) /\ ToSet(up[c]) = U \cup {m}
      /\ \A x \in U : ~Alike(x, m)
  BY <1>2, Dequeue
<1>5. ASSUME m.type \in Releases
      PROVE  NoTwins(down'[c]) /\ ToSet(down'[c]) = D \cup {m}
  <2>1. \A x \in D : ~Alike(x, m)
    BY <1>5 DEF Alike, RepRelOf, TypesIn
  <2> QED
    BY <1>1, <1>2, <1>3, <1>5, <2>1, Enqueue
<1> HIDE DEF U, D
<1>6. \A d \in Clusters : d # c =>
        \A k : /\ AnsOf(d, k)' = AnsOf(d, k) /\ RelOf(d, k)' = RelOf(d, k)
               /\ RepRelOf(d, k)' = RepRelOf(d, k)
               /\ ProbesOf(d, k)' = ProbesOf(d, k) /\ Blind(d, k)' = Blind(d, k)
  BY <1>2, <1>3, UpFrame, DownFrame, ComingFrame, ProbeFrame
<1>7. \A k : /\ AnsOf(c, k) = TypesIn(U \cup {m}, k, Answers)
             /\ RelOf(c, k) = TypesIn(U \cup {m}, k, Releases)
             /\ AnsOf(c, k)' = TypesIn(U, k, Answers)
             /\ RelOf(c, k)' = TypesIn(U, k, Releases)
             /\ RepRelOf(c, k) = TypesIn(D, k, Releases)
  BY <1>4 DEF AnsOf, RelOf, RepRelOf, U, D
<1>8. ASSUME m.type \in Releases
      PROVE  \A k : RepRelOf(c, k)' = TypesIn(D \cup {m}, k, Releases)
  BY <1>5, <1>8 DEF RepRelOf
<1>9. ASSUME m.type \notin Releases
      PROVE  \A k : RepRelOf(c, k)' = RepRelOf(c, k)
  BY <1>3, <1>9, DownFrame
<1>10. \A k : /\ k # m.line \/ m.type \notin Answers =>
                   TypesIn(U \cup {m}, k, Answers) = TypesIn(U, k, Answers)
              /\ k # m.line \/ m.type \notin Releases =>
                   TypesIn(U \cup {m}, k, Releases) = TypesIn(U, k, Releases)
              /\ k # m.line \/ m.type \notin Releases =>
                   TypesIn(D \cup {m}, k, Releases) = TypesIn(D, k, Releases)
  BY DEF TypesIn
<1>11. /\ TypesIn(U, m.line, Answers)
            = TypesIn(U \cup {m}, m.line, Answers) \ {m.type}
       /\ TypesIn(U, m.line, Releases)
            = TypesIn(U \cup {m}, m.line, Releases) \ {m.type}
  BY <1>4, FewerTypes
<1>12. m.type \in Releases =>
         TypesIn(D \cup {m}, m.line, Releases)
           = TypesIn(D, m.line, Releases) \cup {m.type}
  BY DEF TypesIn
<1>13. \A k : ProbesOf(c, k)' = ProbesOf(c, k) /\ Blind(c, k)' = Blind(c, k)
  <2>1. CASE m.type \notin Releases
    <3>1. ComingTo(c)' = ComingTo(c)
      BY <1>2, <1>3, <2>1, ComingFrame
    <3> QED
      BY <3>1, ProbeFrame
  <2>2. CASE m.type \in Releases
    <3> DEFINE C == ComingTo(c)
    <3>1. ComingTo(c)' = C \cup {m} /\ m.type \notin Probes
      BY <1>1, <1>2, <1>5, <2>2, MessageKinds DEF ComingTo, D
    <3>2. m.type # "BCAST_PROBE"
      BY <3>1 DEF Probes
    <3>3. \A k : /\ ProbesOf(c, k) = TypesIn(C, k, Probes)
                 /\ ProbesOf(c, k)' = TypesIn(C \cup {m}, k, Probes)
                 /\ Blind(c, k) <=> \E x \in C :
                      x.line = k /\ x.type = "BCAST_PROBE" /\ ~x.seen
                 /\ Blind(c, k)' <=> \E x \in C \cup {m} :
                      x.line = k /\ x.type = "BCAST_PROBE" /\ ~x.seen
      BY <3>1 DEF ProbesOf, Blind
    <3> HIDE DEF C
    <3>4. \A k : TypesIn(C \cup {m}, k, Probes) = TypesIn(C, k, Probes)
      BY <3>1 DEF TypesIn
    <3>5. \A k : Blind(c, k)' <=> Blind(c, k)
      BY <3>2, <3>3
    <3>6. \A k : Blind(c, k)' = Blind(c, k)
      BY <3>5 DEF Blind
    <3> QED
      BY <3>3, <3>4, <3>6
  <2> QED
    BY <2>1, <2>2
<1>14. \A d \in Clusters, k \in Lines : ~(d = c /\ k = m.line) =>
         /\ AnsOf(d, k)' = AnsOf(d, k) /\ RelOf(d, k)' = RelOf(d, k)
         /\ RepRelOf(d, k)' = RepRelOf(d, k)
  <2>1. \A k : k # m.line => AnsOf(c, k)' = AnsOf(c, k) /\ RelOf(c, k)' = RelOf(c, k)
    BY <1>7, <1>10
  <2>2. \A k : k # m.line => RepRelOf(c, k)' = RepRelOf(c, k)
    BY <1>7, <1>8, <1>9, <1>10
  <2> QED
    BY <1>6, <2>1, <2>2
<1>15. m.type \in Answers =>
         /\ AnsOf(c, m.line)' = AnsOf(c, m.line) \ {m.type}
         /\ RelOf(c, m.line)' = RelOf(c, m.line)
         /\ RepRelOf(c, m.line)' = RepRelOf(c, m.line)
  <2> SUFFICES ASSUME m.type \in Answers
               PROVE  /\ AnsOf(c, m.line)' = AnsOf(c, m.line) \ {m.type}
                      /\ RelOf(c, m.line)' = RelOf(c, m.line)
                      /\ RepRelOf(c, m.line)' = RepRelOf(c, m.line)
    OBVIOUS
  <2>1. m.type \notin Releases
    BY MessageKinds
  <2> QED
    BY <1>7, <1>9, <1>10, <1>11, <2>1
<1>16. m.type \in Releases =>
         /\ AnsOf(c, m.line)' = AnsOf(c, m.line)
         /\ RelOf(c, m.line)' = RelOf(c, m.line) \ {m.type}
         /\ RepRelOf(c, m.line)' = RepRelOf(c, m.line) \cup {m.type}
  <2> SUFFICES ASSUME m.type \in Releases
               PROVE  /\ AnsOf(c, m.line)' = AnsOf(c, m.line)
                      /\ RelOf(c, m.line)' = RelOf(c, m.line) \ {m.type}
                      /\ RepRelOf(c, m.line)' = RepRelOf(c, m.line) \cup {m.type}
    OBVIOUS
  <2>1. m.type \notin Answers
    BY MessageKinds
  <2> QED
    BY <1>7, <1>8, <1>10, <1>11, <1>12, <2>1
<1>17. Directed'
  <2>1. \A x \in ToSet(up'[c]) : x.type \in Answers \cup Releases
    BY <1>4 DEF Directed, U
  <2>2. \A x \in ToSet(down'[c]) : x.type \in Probes \cup Releases
    BY <1>3, <1>5 DEF Directed, D
  <2> QED
    BY <1>2, <1>3, <2>1, <2>2 DEF Directed
<1>18. Distinct'
  <2>1. \A d \in Clusters : NoTwins(up'[d]) /\ NoTwins(down'[d])
    BY <1>2, <1>3, <1>4, <1>5 DEF Distinct
  <2>2. \A p \in ToSet(outbox') : \A x \in ToSet(down'[p.cluster]) : ~Alike(x, p.message)
    <3> SUFFICES ASSUME NEW p \in ToSet(outbox), NEW x \in ToSet(down'[p.cluster])
                 PROVE  ~Alike(x, p.message)
      BY <1>2
    <3>1. p \in Probe /\ p.message.type \in Probes
      <4>1. outbox \in Seq(Probe)
        BY DEF Types, TypeOK
      <4> QED
        BY <4>1, QueueElements DEF Directed
    <3>2. p.cluster \in Clusters
      BY <3>1 DEF Probe
    <3>3. CASE x \in ToSet(down[p.cluster])
      BY <3>3 DEF Distinct
    <3>4. CASE m.type \in Releases /\ x = m
      BY <3>1, <3>4, MessageKinds DEF Alike
    <3> QED
      BY <1>3, <1>5, <3>2, <3>3, <3>4 DEF D
  <2> QED
    BY <1>2, <2>1, <2>2 DEF Distinct
<1> QED
  BY <1>6, <1>13, <1>14, <1>15, <1>16, <1>17, <1>18

(* What a cluster has of a line when the directory has taken its message;    *)
(* that it has no token or no claim left; and the answers that complete a    *)
(* recall by themselves.                                                     *)
Left(c, l, e) ==
  Sound(c, e, cache[c][l], mshr[c][l], answer[c][l], ReqOf(c, l), RepOf(c, l),
        ProbesOf(c, l), Blind(c, l), AnsOf(c, l)', RelOf(c, l)', RepRelOf(c, l)')
NoToken(c, l) == Tokenless(mshr[c][l], answer[c][l], ProbesOf(c, l), AnsOf(c, l)')
NoCopy(c, l) == Holdless(cache[c][l], mshr[c][l], RepOf(c, l), RelOf(c, l)')
Finals == {"INVALIDATE_ACK", "WR_RELEASE_ACK", "BCAST_ACK"}

(* A release is not replied to twice.                                        *)
LEMMA NewRelease ==
  ASSUME IInv, NEW c \in Clusters, NEW m, NEW w, Gets(c, m, w)
  PROVE  m.type \in Releases => m.type \notin RepRelOf(c, m.line)
<1>1. /\ m.line \in Lines
      /\ m.type \in Releases => m.type \in RelOf(c, m.line)
  BY TakenUp DEF IInv
<1>2. RelOf(c, m.line) \cap RepRelOf(c, m.line) = {}
  BY <1>1, Pair DEF Sound, Matched
<1> QED
  BY <1>1, <1>2

(* What is left agrees with the entry as it was: an answer was the only      *)
(* token, a release or a final answer the only claim, and the second message *)
(* of a pair leaves neither.                                                 *)
LEMMA LeftSound ==
  ASSUME IInv, NEW c \in Clusters, NEW m, NEW w, Gets(c, m, w)
  PROVE  /\ Left(c, m.line, EntryOf(m.line))
         /\ c \in EntryOf(m.line).sharers
         /\ m.type \in Answers => NoToken(c, m.line)
         /\ m.type \in Releases => NoCopy(c, m.line)
         /\ m.type \in Finals => NoCopy(c, m.line)
         /\ /\ c \in EntryOf(m.line).nakWaitlist
            /\ EntryOf(m.line).state \notin BcastStates
            => NoToken(c, m.line) /\ NoCopy(c, m.line)
         /\ EntryOf(m.line).state \notin LockedStates => NoToken(c, m.line)
<1> DEFINE l == m.line
           t == m.type
           e == EntryOf(l)
<1>1. /\ l \in Lines /\ t \in Answers \cup Releases
      /\ t \in Answers => t \in AnsOf(c, l)
      /\ t \in Releases => t \in RelOf(c, l)
  BY TakenUp DEF IInv
<1>2. /\ t \in Answers => /\ AnsOf(c, l)' = AnsOf(c, l) \ {t}
                          /\ RelOf(c, l)' = RelOf(c, l)
                          /\ RepRelOf(c, l)' = RepRelOf(c, l)
      /\ t \in Releases => /\ AnsOf(c, l)' = AnsOf(c, l)
                           /\ RelOf(c, l)' = RelOf(c, l) \ {t}
                           /\ RepRelOf(c, l)' = RepRelOf(c, l) \cup {t}
  BY Delivered, NewRelease DEF IInv
<1>3. /\ Sound(c, e, cache[c][l], mshr[c][l], answer[c][l],
               ReqOf(c, l), RepOf(c, l), ProbesOf(c, l), Blind(c, l),
               AnsOf(c, l), RelOf(c, l), RepRelOf(c, l))
      /\ Typed(cache[c][l], mshr[c][l], answer[c][l], ReqOf(c, l),
               RepOf(c, l), ProbesOf(c, l), Blind(c, l), AnsOf(c, l),
               RelOf(c, l), RepRelOf(c, l))
  BY <1>1, Pair
<1> HIDE DEF l, t, e
<1>4. c \in e.sharers
  <2>1. (AnsOf(c, l) # {}) \/ (\E u \in RelOf(c, l) : u \in Releases)
    BY <1>1
  <2> QED
    BY <1>3, <2>1, NakHolds
<1>5. CASE t \in Answers
  <2>1. /\ Sound(c, e, cache[c][l], mshr[c][l], answer[c][l],
                 ReqOf(c, l), RepOf(c, l), ProbesOf(c, l), Blind(c, l),
                 AnsOf(c, l) \ {t}, RelOf(c, l), RepRelOf(c, l))
        /\ Tokenless(mshr[c][l], answer[c][l], ProbesOf(c, l), AnsOf(c, l) \ {t})
    BY <1>1, <1>3, <1>5, AnswerTakenSound
  <2>2. Left(c, l, e) /\ NoToken(c, l)
    BY <1>2, <1>5, <2>1 DEF Left, NoToken
  <2>3. t \in Finals => NoCopy(c, l)
    <3>1. t \in Finals =>
            Holdless(cache[c][l], mshr[c][l], RepOf(c, l), RelOf(c, l))
      BY <1>1, <1>3, <1>5, AnsweredHoldless DEF Finals
    <3> QED
      BY <1>2, <1>5, <3>1 DEF NoCopy
  <2>4. c \in e.nakWaitlist /\ e.state \notin BcastStates => NoCopy(c, l)
    <3> SUFFICES ASSUME c \in e.nakWaitlist, e.state \notin BcastStates
                 PROVE  NoCopy(c, l)
      OBVIOUS
    <3>1. \/ Holdless(cache[c][l], mshr[c][l], RepOf(c, l), RelOf(c, l))
          \/ Tokenless(mshr[c][l], answer[c][l], ProbesOf(c, l), AnsOf(c, l))
      BY <1>3, <1>4, WaitlistedPair
    <3>2. ~Tokenless(mshr[c][l], answer[c][l], ProbesOf(c, l), AnsOf(c, l))
      BY <1>1, <1>5 DEF Tokenless, ReadToken, WriteToken, BcastToken, Has,
                        Answers, Naks
    <3> QED
      BY <1>2, <1>5, <3>1, <3>2 DEF NoCopy
  <2>5. t \notin Releases
    BY <1>5, MessageKinds
  <2> QED
    BY <1>4, <2>2, <2>3, <2>4, <2>5 DEF l, t, e
<1>6. CASE t \in Releases
  <2>1. /\ Sound(c, e, cache[c][l], mshr[c][l], answer[c][l],
                 ReqOf(c, l), RepOf(c, l), ProbesOf(c, l), Blind(c, l),
                 AnsOf(c, l), RelOf(c, l) \ {t}, RepRelOf(c, l) \cup {t})
        /\ Holdless(cache[c][l], mshr[c][l], RepOf(c, l), RelOf(c, l) \ {t})
    BY <1>1, <1>3, <1>6, ReleaseTakenSound
  <2>2. Left(c, l, e) /\ NoCopy(c, l)
    BY <1>2, <1>6, <2>1 DEF Left, NoCopy
  <2>3. c \in e.nakWaitlist /\ e.state \notin BcastStates => NoToken(c, l)
    <3> SUFFICES ASSUME c \in e.nakWaitlist, e.state \notin BcastStates
                 PROVE  NoToken(c, l)
      OBVIOUS
    <3>1. \/ Holdless(cache[c][l], mshr[c][l], RepOf(c, l), RelOf(c, l))
          \/ Tokenless(mshr[c][l], answer[c][l], ProbesOf(c, l), AnsOf(c, l))
      BY <1>3, <1>4, WaitlistedPair
    <3>2. ~Holdless(cache[c][l], mshr[c][l], RepOf(c, l), RelOf(c, l))
      <4>1. mshr[c][l].type = t
        BY <1>1, <1>3, <1>6 DEF Sound, Matched
      <4> QED
        BY <1>1, <1>6, <4>1 DEF Holdless, HoldsS, HoldsM, Releases
    <3> QED
      BY <1>2, <1>6, <3>1, <3>2 DEF NoToken
  <2>4. e.state \notin LockedStates => NoToken(c, l)
    <3>1. e.state \notin LockedStates =>
            Tokenless(mshr[c][l], answer[c][l], ProbesOf(c, l), AnsOf(c, l))
      BY <1>3, UnlockedTokenless
    <3> QED
      BY <1>2, <1>6, <3>1 DEF NoToken
  <2>5. t \notin Answers
    BY <1>6, MessageKinds
  <2> QED
    BY <1>4, <2>2, <2>3, <2>4, <2>5 DEF l, t, e
<1> QED
  BY <1>1, <1>5, <1>6

(* A sender with neither agrees with any entry.                              *)
LEMMA LeftGone ==
  ASSUME NEW c, NEW l, NEW e, NEW e2, Left(c, l, e), NoToken(c, l), NoCopy(c, l)
  PROVE  Left(c, l, e2)
<1>1. Gone(cache[c][l], mshr[c][l], answer[c][l], RepOf(c, l), ProbesOf(c, l),
           AnsOf(c, l)', RelOf(c, l)')
  BY DEF Gone, NoToken, NoCopy
<1> QED
  BY <1>1, GoneSound DEF Left

(* A step of the directory that takes a message and writes the line's entry. *)
LEMMA MessageStep ==
  ASSUME IInv, NEW c \in Clusters, NEW m, NEW w, Gets(c, m, w),
         NEW e, Becomes(m.line, e), Left(c, m.line, e),
         \A d \in Clusters : d # c => Agrees(d, m.line, e)
  PROVE  Distinct' /\ Directed' /\ Coherent'
<1> DEFINE l == m.line
<1>1. /\ l \in Lines
      /\ UNCHANGED <<cache, mshr, answer, requests, replies>>
  BY TakenUp DEF IInv, Gets, Receive, clusterVars
<1>2. /\ \A d \in Clusters, k \in Lines : ~(d = c /\ k = l) =>
           /\ AnsOf(d, k)' = AnsOf(d, k) /\ RelOf(d, k)' = RelOf(d, k)
           /\ RepRelOf(d, k)' = RepRelOf(d, k)
      /\ \A d \in Clusters, k \in Lines :
           ProbesOf(d, k)' = ProbesOf(d, k) /\ Blind(d, k)' = Blind(d, k)
      /\ Distinct' /\ Directed'
  BY Delivered, NewRelease DEF IInv
<1>3. \A d, k : ReqOf(d, k)' = ReqOf(d, k) /\ RepOf(d, k)' = RepOf(d, k)
  BY <1>1, DemandFrame
<1>4. Left(c, l, e) /\ Becomes(l, e) /\ \A d \in Clusters : d # c => Agrees(d, l, e)
  OBVIOUS
<1> HIDE DEF l
<1>5. ASSUME NEW d \in Clusters, NEW k \in Lines
      PROVE  Agrees(d, k, EntryOf(k))'
  <2>1. CASE d = c /\ k = l
    <3>1. Sound(c, e, cache'[c][l], mshr'[c][l], answer'[c][l],
                ReqOf(c, l)', RepOf(c, l)', ProbesOf(c, l)', Blind(c, l)',
                AnsOf(c, l)', RelOf(c, l)', RepRelOf(c, l)')
      BY <1>1, <1>2, <1>3, <1>4 DEF Left
    <3> QED
      BY <1>4, <2>1, <3>1 DEF Agrees, Becomes
  <2>2. CASE ~(d = c /\ k = l)
    <3> DEFINE g == EntryOf(k)'
    <3>1. Agrees(d, k, g)
      <4>1. CASE k = l
        BY <1>4, <2>2, <4>1 DEF Becomes
      <4>2. CASE k # l
        BY <1>4, <4>2 DEF IInv, Coherent, Becomes
      <4> QED
        BY <4>1, <4>2
    <3>2. SameHeld(d, k) /\ SameSent(d, k)
      BY <1>1, <1>2, <1>3, <2>2 DEF SameHeld, SameSent
    <3>3. Sound(d, g, cache'[d][k], mshr'[d][k], answer'[d][k],
                ReqOf(d, k)', RepOf(d, k)', ProbesOf(d, k)', Blind(d, k)',
                AnsOf(d, k)', RelOf(d, k)', RepRelOf(d, k)')
      <4> HIDE DEF g
      <4> QED
        BY <3>1, <3>2, SameAgrees
    <3> QED
      BY <3>3 DEF Agrees
  <2> QED
    BY <2>1, <2>2
<1> QED
  BY <1>2, <1>5 DEF Coherent

(* The entry a message finds.                                                *)
LEMMA EntryAgain ==
  ASSUME IInv, NEW c \in Clusters, NEW m, NEW w, Gets(c, m, w)
  PROVE  /\ m.line \in Lines /\ w \in Tracked(m.line)
         /\ EntryOf(m.line) = entry[w]
         /\ entry[w] \in Entry /\ EntryShape(entry[w])
         /\ entry[w].addr = m.line /\ entry[w].state # "INVALID"
         /\ entry[w].sharers \in SUBSET Clusters
<1>1. /\ m.line \in Lines /\ w \in Tracked(m.line) /\ Types
  BY TakenUp DEF IInv, Gets, Receive
<1>2. /\ w \in Ways /\ entry[w].addr = m.line /\ entry[w].state # "INVALID"
  BY <1>1 DEF Tracked
<1>3. entry[w] \in Entry /\ EntryShape(entry[w])
  BY <1>1, <1>2 DEF Types, TypeOK, EntryOK
<1> QED
  BY <1>1, <1>2, <1>3, EntryFound, EntryFields

(* The first message of a pair is noted.                                     *)
LEMMA NotedStep ==
  ASSUME IInv, NEW c \in Clusters, NEW m, NEW w, Gets(c, m, w), Note(w, c),
         NoToken(c, m.line) \/ NoCopy(c, m.line)
  PROVE  Distinct' /\ Directed' /\ Coherent'
<1> DEFINE l == m.line
           f == entry[w]
           e == [f EXCEPT !.nakWaitlist = @ \cup {c}]
<1>1. /\ l \in Lines /\ w \in Tracked(l) /\ EntryOf(l) = f /\ f \in Entry
      /\ f.addr = l /\ f.state # "INVALID"
  BY EntryAgain
<1>2. /\ e.state = f.state /\ e.addr = l /\ e.sharers = f.sharers
      /\ e.nakWaitlist = f.nakWaitlist \cup {c}
  BY <1>1 DEF Entry
<1>3. SetEntry(w, e)
  BY DEF Note
<1>4. Left(c, l, f) /\ (NoToken(c, l) \/ NoCopy(c, l))
  BY <1>1, LeftSound
<1> HIDE DEF e, f
<1>5. Becomes(l, e)
  BY <1>1, <1>2, <1>3, EntryUpdated DEF IInv
<1>6. Left(c, l, e)
  BY <1>2, <1>4, NoteSound DEF Left, NoToken, NoCopy
<1>7. ASSUME NEW d \in Clusters, d # c PROVE Agrees(d, l, e)
  <2>1. Sound(d, f, cache[d][l], mshr[d][l], answer[d][l],
              ReqOf(d, l), RepOf(d, l), ProbesOf(d, l), Blind(d, l),
              AnsOf(d, l), RelOf(d, l), RepRelOf(d, l))
    BY <1>1, Pair
  <2>2. Sound(d, e, cache[d][l], mshr[d][l], answer[d][l],
              ReqOf(d, l), RepOf(d, l), ProbesOf(d, l), Blind(d, l),
              AnsOf(d, l), RelOf(d, l), RepRelOf(d, l))
    BY <1>2, <1>7, <2>1, KeepSound
  <2> QED
    BY <2>2 DEF Agrees
<1> QED
  BY <1>5, <1>6, <1>7, MessageStep

(* The sender has nothing left and leaves the entry to the others.           *)
LEMMA LeavesStep ==
  ASSUME IInv, NEW c \in Clusters, NEW m, NEW w, Gets(c, m, w),
         NoToken(c, m.line), NoCopy(c, m.line),
         SetEntry(w, IF entry[w].sharers \ {c} = {} THEN Reset
                     ELSE [entry[w] EXCEPT !.sharers = entry[w].sharers \ {c}])
  PROVE  Distinct' /\ Directed' /\ Coherent'
<1> DEFINE l == m.line
           f == entry[w]
           rest == f.sharers \ {c}
           e == IF rest = {} THEN Reset ELSE [f EXCEPT !.sharers = rest]
<1>1. /\ l \in Lines /\ w \in Tracked(l) /\ EntryOf(l) = f /\ f \in Entry
      /\ f.addr = l /\ f.state # "INVALID"
  BY EntryAgain
<1>2. rest = {} => e = Reset
  OBVIOUS
<1>3. rest # {} => /\ e.state = f.state /\ e.addr = l /\ e.sharers = rest
                   /\ e.nakWaitlist = f.nakWaitlist
  BY <1>1 DEF Entry
<1>4. SetEntry(w, e) /\ Left(c, l, f) /\ NoToken(c, l) /\ NoCopy(c, l)
  BY <1>1, LeftSound
<1>5. c \in f.sharers
  BY <1>1, LeftSound
<1> HIDE DEF e
<1>6. Becomes(l, e)
  <2>1. CASE rest = {}
    BY <1>1, <1>2, <1>4, <2>1, EntryFreed DEF IInv
  <2>2. CASE rest # {}
    BY <1>1, <1>3, <1>4, <2>2, EntryUpdated DEF IInv
  <2> QED
    BY <2>1, <2>2
<1>7. Left(c, l, e)
  BY <1>4, LeftGone
<1>8. ASSUME NEW d \in Clusters, d # c PROVE Agrees(d, l, e)
  <2>1. CASE d \notin f.sharers
    BY <1>1, <2>1, StrangerAgrees
  <2>2. CASE d \in f.sharers
    <3>1. /\ e.state = f.state /\ e.nakWaitlist = f.nakWaitlist
          /\ d \in e.sharers <=> d \in f.sharers
          /\ f.sharers = {d} => e.sharers = {d}
      BY <1>3, <1>5, <1>8, <2>2
    <3>2. Sound(d, f, cache[d][l], mshr[d][l], answer[d][l],
                ReqOf(d, l), RepOf(d, l), ProbesOf(d, l), Blind(d, l),
                AnsOf(d, l), RelOf(d, l), RepRelOf(d, l))
      BY <1>1, Pair
    <3> HIDE DEF f
    <3>3. Sound(d, e, cache[d][l], mshr[d][l], answer[d][l],
                ReqOf(d, l), RepOf(d, l), ProbesOf(d, l), Blind(d, l),
                AnsOf(d, l), RelOf(d, l), RepRelOf(d, l))
      BY <3>1, <3>2, KeepSound
    <3> QED
      BY <3>3 DEF Agrees
  <2> QED
    BY <2>1, <2>2
<1> QED
  BY <1>6, <1>7, <1>8, MessageStep

(* The sender, alone in the entry, leaves it free or to another cluster.     *)
LEMMA OwnerStep ==
  ASSUME IInv, NEW c \in Clusters, NEW m, NEW w, Gets(c, m, w),
         NoToken(c, m.line), NoCopy(c, m.line), entry[w].sharers = {c},
         NEW e, SetEntry(w, e),
         e = Reset \/ (e.state # "INVALID" /\ e.addr = m.line)
  PROVE  Distinct' /\ Directed' /\ Coherent'
<1> DEFINE l == m.line
<1>1. /\ l \in Lines /\ w \in Tracked(l) /\ EntryOf(l) = entry[w]
  BY EntryAgain
<1>2. Becomes(l, e)
  <2>1. CASE e = Reset
    BY <1>1, <2>1, EntryFreed DEF IInv
  <2>2. CASE e.state # "INVALID" /\ e.addr = l
    BY <1>1, <2>2, EntryUpdated DEF IInv
  <2> QED
    BY <2>1, <2>2
<1>3. Left(c, l, e)
  <2>1. Left(c, l, entry[w])
    BY <1>1, LeftSound
  <2> QED
    BY <2>1, LeftGone
<1>4. \A d \in Clusters : d # c => Agrees(d, l, e)
  BY <1>1, StrangerAgrees
<1> QED
  BY <1>2, <1>3, <1>4, MessageStep

(* A reader gives the line back.                                             *)
LEMMA SharerLeavesKeeps ==
  ASSUME IInv, NEW c \in Clusters, SharerLeaves(c)
  PROVE  Distinct' /\ Directed' /\ Coherent'
<1>1. PICK w \in Ways, m \in FirstOf(up[c]) :
        /\ Receive(c, m, w) /\ m.type \in ReadMessages \ Naks
        /\ entry[w].state = "READ_SHARED"
        /\ SetEntry(w, IF entry[w].sharers \ {c} = {} THEN Reset
             ELSE [entry[w] EXCEPT !.sharers = entry[w].sharers \ {c}])
  BY DEF SharerLeaves
<1>2. Gets(c, m, w)
  BY <1>1 DEF Gets, FirstOf
<1>3. EntryOf(m.line) = entry[w] /\ entry[w].state \notin LockedStates
  BY <1>1, <1>2, EntryAgain DEF LockedStates, EvictionLocks, BcastStates
<1>4. m.type \in Finals \cup Releases
  BY <1>1 DEF ReadMessages, Naks, Finals, Releases
<1>5. NoToken(c, m.line) /\ NoCopy(c, m.line)
  BY <1>2, <1>3, <1>4, LeftSound
<1> QED
  BY <1>1, <1>2, <1>5, LeavesStep

(* A reader of a locked line answers or gives it back.                       *)
LEMMA ReadReleaseKeeps ==
  ASSUME IInv, NEW c \in Clusters, ReadRelease(c)
  PROVE  Distinct' /\ Directed' /\ Coherent'
<1>1. PICK w \in Ways, m \in FirstOf(up[c]) :
        /\ Receive(c, m, w) /\ m.type \in ReadMessages
        /\ entry[w].state \in EvictionLocks \cup {"PENDING_WRITE"}
        /\ \/ ~Completes(entry[w], c, m) /\ Note(w, c)
           \/ /\ Completes(entry[w], c, m)
              /\ SetEntry(w, IF entry[w].sharers \ {c} = {} THEN Reset
                   ELSE [entry[w] EXCEPT !.sharers = entry[w].sharers \ {c}])
  BY DEF ReadRelease
<1>2. Gets(c, m, w)
  BY <1>1 DEF Gets, FirstOf
<1>3. /\ EntryOf(m.line) = entry[w] /\ entry[w].state \notin BcastStates
      /\ m.type \in Answers \cup Releases
  BY <1>1, <1>2, EntryAgain
     DEF EvictionLocks, BcastStates, ReadMessages, Answers, Naks, Releases
<1>4. CASE ~Completes(entry[w], c, m) /\ Note(w, c)
  <2>1. NoToken(c, m.line) \/ NoCopy(c, m.line)
    BY <1>2, <1>3, LeftSound
  <2> QED
    BY <1>2, <1>4, <2>1, NotedStep
<1>5. CASE /\ Completes(entry[w], c, m)
           /\ SetEntry(w, IF entry[w].sharers \ {c} = {} THEN Reset
                ELSE [entry[w] EXCEPT !.sharers = entry[w].sharers \ {c}])
  <2>1. m.type \in Finals \/ c \in entry[w].nakWaitlist
    BY <1>5 DEF Completes, Finals
  <2>2. m.type \in Finals => m.type \in Answers
    BY DEF Finals, Answers
  <2>3. NoToken(c, m.line) /\ NoCopy(c, m.line)
    BY <1>2, <1>3, <2>1, <2>2, LeftSound
  <2> QED
    BY <1>2, <1>5, <2>3, LeavesStep
<1> QED
  BY <1>1, <1>4, <1>5

(* A cluster answers a broadcast.                                            *)
LEMMA BroadcastReleaseKeeps ==
  ASSUME IInv, NEW c \in Clusters, BroadcastRelease(c)
  PROVE  Distinct' /\ Directed' /\ Coherent'
<1>1. PICK w \in Ways, m \in FirstOf(up[c]) :
        /\ Receive(c, m, w) /\ m.type \in {"BCAST_ACK", "RD_RELEASE_REQ"}
        /\ \/ m.type = "RD_RELEASE_REQ" /\ SetEntry(w, entry[w])
           \/ /\ m.type = "BCAST_ACK"
              /\ SetEntry(w, IF entry[w].sharers \ {c} = {} THEN Reset
                   ELSE [entry[w] EXCEPT !.sharers = entry[w].sharers \ {c}])
  BY DEF BroadcastRelease
<1>2. Gets(c, m, w)
  BY <1>1 DEF Gets, FirstOf
<1>3. CASE m.type = "RD_RELEASE_REQ" /\ SetEntry(w, entry[w])
  <2> DEFINE l == m.line
             e == entry[w]
  <2>1. /\ l \in Lines /\ w \in Tracked(l) /\ EntryOf(l) = e
        /\ e.addr = l /\ e.state # "INVALID"
    BY <1>2, EntryAgain
  <2>2. Left(c, l, e)
    BY <1>2, <2>1, LeftSound
  <2>3. SetEntry(w, e)
    BY <1>3
  <2> HIDE DEF e
  <2>4. Becomes(l, e)
    BY <2>1, <2>3, EntryUpdated DEF IInv
  <2>5. \A d \in Clusters : d # c => Agrees(d, l, e)
    BY <2>1 DEF IInv, Coherent
  <2> QED
    BY <1>2, <2>2, <2>4, <2>5, MessageStep
<1>4. CASE /\ m.type = "BCAST_ACK"
           /\ SetEntry(w, IF entry[w].sharers \ {c} = {} THEN Reset
                ELSE [entry[w] EXCEPT !.sharers = entry[w].sharers \ {c}])
  <2>1. m.type \in Finals /\ m.type \in Answers
    BY <1>4 DEF Finals, Answers
  <2>2. NoToken(c, m.line) /\ NoCopy(c, m.line)
    BY <1>2, <2>1, LeftSound
  <2> QED
    BY <1>2, <1>4, <2>2, LeavesStep
<1> QED
  BY <1>1, <1>3, <1>4

(* The owner gives the line back.                                            *)
LEMMA OwnerLeavesKeeps ==
  ASSUME IInv, NEW c \in Clusters, OwnerLeaves(c)
  PROVE  Distinct' /\ Directed' /\ Coherent'
<1>1. PICK w \in Ways, m \in FirstOf(up[c]) :
        /\ Receive(c, m, w) /\ m.type = "EVICT_REQ"
        /\ entry[w].state = "WRITE_PRIV" /\ entry[w].sharers = {c}
        /\ SetEntry(w, Reset)
  BY DEF OwnerLeaves
<1>2. Gets(c, m, w)
  BY <1>1 DEF Gets, FirstOf
<1>3. EntryOf(m.line) = entry[w] /\ entry[w].state \notin LockedStates
  BY <1>1, <1>2, EntryAgain DEF LockedStates, EvictionLocks, BcastStates
<1>4. m.type \in Releases
  BY <1>1 DEF Releases
<1>5. NoToken(c, m.line) /\ NoCopy(c, m.line)
  BY <1>2, <1>3, <1>4, LeftSound
<1> QED
  BY <1>1, <1>2, <1>5, OwnerStep

(* The owner of a locked line answers or gives it back.                      *)
LEMMA WriteReleaseKeeps ==
  ASSUME IInv, NEW c \in Clusters, WriteRelease(c)
  PROVE  Distinct' /\ Directed' /\ Coherent'
<1>1. PICK w \in Ways, m \in FirstOf(up[c]) :
        /\ Receive(c, m, w) /\ m.type \in WriteMessages
        /\ entry[w].state \in LockedStates \ BcastStates
        /\ entry[w].sharers = {c}
        /\ \/ ~Completes(entry[w], c, m) /\ Note(w, c)
           \/ /\ Completes(entry[w], c, m)
              /\ SetEntry(w, IF entry[w].state \in EvictionLocks THEN Reset
                   ELSE Owned(entry[w].addr,
                              IF entry[w].state = "PENDING_WB"
                                THEN "READ_SHARED" ELSE "WRITE_PRIV",
                              entry[w].waiting))
  BY DEF WriteRelease
<1>2. Gets(c, m, w)
  BY <1>1 DEF Gets, FirstOf
<1>3. /\ EntryOf(m.line) = entry[w] /\ entry[w].state \notin BcastStates
      /\ entry[w].addr = m.line
      /\ m.type \in Answers \cup Releases
  BY <1>1, <1>2, EntryAgain DEF WriteMessages, Answers, Naks, Releases
<1>4. CASE ~Completes(entry[w], c, m) /\ Note(w, c)
  <2>1. NoToken(c, m.line) \/ NoCopy(c, m.line)
    BY <1>2, <1>3, LeftSound
  <2> QED
    BY <1>2, <1>4, <2>1, NotedStep
<1>5. CASE Completes(entry[w], c, m)
  <2> DEFINE s == IF entry[w].state = "PENDING_WB" THEN "READ_SHARED"
                                                   ELSE "WRITE_PRIV"
             o == Owned(entry[w].addr, s, entry[w].waiting)
             e == IF entry[w].state \in EvictionLocks THEN Reset ELSE o
  <2>1. m.type \in Finals \/ c \in entry[w].nakWaitlist
    BY <1>5 DEF Completes, Finals
  <2>2. m.type \in Finals => m.type \in Answers
    BY DEF Finals, Answers
  <2>3. NoToken(c, m.line) /\ NoCopy(c, m.line)
    BY <1>2, <1>3, <2>1, <2>2, LeftSound
  <2>4. SetEntry(w, e)
    BY <1>1, <1>5
  <2>5. o.state # "INVALID" /\ o.addr = m.line
    BY <1>3 DEF Owned, Reset
  <2>6. e = Reset \/ (e.state # "INVALID" /\ e.addr = m.line)
    BY <2>5
  <2> HIDE DEF e
  <2> QED
    BY <1>1, <1>2, <2>3, <2>4, <2>6, OwnerStep
<1> QED
  BY <1>1, <1>4, <1>5

-----------------------------------------------------------------------------
(* The invariant.                                                            *)

(* In the first states nothing is held or under way.                         *)
LEMMA InitCoherent == Init => Distinct /\ Directed /\ Coherent
<1> SUFFICES ASSUME Init PROVE Distinct /\ Directed /\ Coherent
  OBVIOUS
<1>1. /\ \A c \in Clusters : up[c] = <<>> /\ down[c] = <<>>
      /\ outbox = <<>> /\ requests = {} /\ replies = {}
      /\ \A c \in Clusters, l \in Lines :
           cache[c][l] = "I" /\ mshr[c][l] = NoMshr /\ answer[c][l] = None
  BY DEF Init
<1>2. ToSet(<<>>) = {} /\ NoTwins(<<>>) /\ DOMAIN <<>> = {}
  BY DEF ToSet, NoTwins
<1>3. Distinct /\ Directed
  BY <1>1, <1>2 DEF Distinct, Directed
<1>4. ASSUME NEW c \in Clusters, NEW l \in Lines
      PROVE  Agrees(c, l, EntryOf(l))
  <2>1. /\ \A u \in ReqOf(c, l) : FALSE
        /\ \A u \in RepOf(c, l) : FALSE
    BY <1>1 DEF ReqOf, RepOf
  <2>2. \A m \in ComingTo(c) : FALSE
    BY <1>1, <1>2 DEF ComingTo
  <2>3. /\ \A u \in ProbesOf(c, l) : FALSE
        /\ ~Blind(c, l)
    BY <2>2 DEF ProbesOf, Blind, TypesIn
  <2>4. /\ \A u \in AnsOf(c, l) : FALSE
        /\ \A u \in RelOf(c, l) : FALSE
        /\ \A u \in RepRelOf(c, l) : FALSE
    BY <1>1, <1>2 DEF AnsOf, RelOf, RepRelOf, TypesIn
  <2>5. cache[c][l] = "I" /\ mshr[c][l] = NoMshr /\ answer[c][l] = None
    BY <1>1
  <2>6. NoMshr.type = "none" /\ NoMshr.poison = FALSE /\ None = "none"
    BY DEF NoMshr, None
  <2> DEFINE e == EntryOf(l)
  <2> HIDE DEF e
  <2>7. Gone(cache[c][l], mshr[c][l], answer[c][l], RepOf(c, l),
             ProbesOf(c, l), AnsOf(c, l), RelOf(c, l))
    BY <2>1, <2>3, <2>4, <2>5, <2>6
       DEF Gone, Tokenless, Holdless, ReadToken, WriteToken, BcastToken, Has,
           HeldBack, HoldsS, HoldsM
  <2>8. Sound(c, e, cache[c][l], mshr[c][l], answer[c][l], ReqOf(c, l),
              RepOf(c, l), ProbesOf(c, l), Blind(c, l), AnsOf(c, l),
              RelOf(c, l), RepRelOf(c, l))
    <3>1. /\ OnePlace(mshr[c][l], answer[c][l], ProbesOf(c, l), AnsOf(c, l))
          /\ Matched(mshr[c][l], ReqOf(c, l), RepOf(c, l), RelOf(c, l),
                     RepRelOf(c, l))
      BY <2>1, <2>3, <2>4, <2>5, <2>6 DEF OnePlace, Matched
    <3>2. ~Acked(answer[c][l], AnsOf(c, l)) /\ ~Refused(answer[c][l], AnsOf(c, l))
      BY <2>4, <2>5, <2>6 DEF Acked, Refused, Has
    <3> QED
      BY <2>3, <2>5, <2>7, <3>1, <3>2
         DEF Sound, Known, Settled, Gone, Tokenless, Holdless
  <2> QED
    BY <2>8 DEF Agrees, e
<1> QED
  BY <1>3, <1>4 DEF Coherent

(* Every step keeps the queues apart and every pair in agreement.            *)
LEMMA StepKeeps ==
  ASSUME IInv, Next
  PROVE  Distinct' /\ Directed' /\ Coherent'
<1>1. ASSUME NEW c \in Clusters, Cluster(c)
      PROVE  Distinct' /\ Directed' /\ Coherent'
  <2>1. ASSUME NEW l \in Lines,
               \/ \E demand \in Demands : Miss(c, l, demand)
               \/ StoreToShared(c, l) \/ GiveBack(c, l)
               \/ Inject(c, l) \/ InjectAnswer(c, l) \/ Fill(c, l)
        PROVE  Distinct' /\ Directed' /\ Coherent'
    <3>1. CASE \E demand \in Demands : Miss(c, l, demand)
      BY <3>1, MissKeeps
    <3>2. CASE StoreToShared(c, l) \/ GiveBack(c, l)
      BY <3>2, GiveBackKeeps
    <3>3. CASE Inject(c, l)
      BY <3>3, InjectKeeps
    <3>4. CASE InjectAnswer(c, l)
      BY <3>4, InjectAnswerKeeps
    <3>5. CASE Fill(c, l)
      BY <3>5, FillKeeps
    <3> QED
      BY <2>1, <3>1, <3>2, <3>3, <3>4, <3>5
  <2>2. CASE ProbeIdle(c)
    BY <2>2, ProbeIdleKeeps
  <2>3. CASE ProbeSquashes(c)
    BY <2>3, ProbeSquashesKeeps
  <2>4. CASE ProbeMarks(c)
    BY <2>4, ProbeMarksKeeps
  <2>5. CASE BroadcastInvalidates(c)
    BY <2>5, BroadcastInvalidatesKeeps
  <2>6. CASE BroadcastPoisonsRelease(c)
    BY <2>6, BroadcastPoisonsKeeps
  <2>7. CASE ReleaseDone(c)
    BY <2>7, ReleaseDoneKeeps
  <2> QED
    BY <1>1, <2>1, <2>2, <2>3, <2>4, <2>5, <2>6, <2>7 DEF Cluster
<1>2. ASSUME NEW c \in Clusters, ProbeResponse(c)
      PROVE  Distinct' /\ Directed' /\ Coherent'
  <2>1. CASE SharerLeaves(c)
    BY <2>1, SharerLeavesKeeps
  <2>2. CASE ReadRelease(c)
    BY <2>2, ReadReleaseKeeps
  <2>3. CASE BroadcastRelease(c)
    BY <2>3, BroadcastReleaseKeeps
  <2>4. CASE OwnerLeaves(c)
    BY <2>4, OwnerLeavesKeeps
  <2>5. CASE WriteRelease(c)
    BY <2>5, WriteReleaseKeeps
  <2> QED
    BY <1>2, <2>1, <2>2, <2>3, <2>4, <2>5
       DEF ProbeResponse, ReleaseRead, ReleaseWrite
<1>3. ASSUME NEW r \in requests, Serve(r)
      PROVE  Distinct' /\ Directed' /\ Coherent'
  <2>1. CASE Reply(r)
    BY <2>1, ReplyKeeps
  <2>2. CASE ShareLine(r)
    BY <2>2, ShareLineKeeps
  <2>3. CASE InvalidateSharers(r)
    BY <2>3, InvalidateSharersKeeps
  <2>4. CASE InvalidateByBroadcast(r)
    BY <2>4, InvalidateByBroadcastKeeps
  <2>5. CASE RecallOwner(r)
    BY <2>5, RecallOwnerKeeps
  <2>6. CASE Allocate(r)
    BY <2>6, AllocateKeeps
  <2>7. CASE Evict(r)
    BY <2>7, EvictKeeps
  <2> QED
    BY <1>3, <2>1, <2>2, <2>3, <2>4, <2>5, <2>6, <2>7
       DEF Serve, RequestRead, RequestWrite
<1>4. CASE SendProbe
  BY <1>4, SendProbeKeeps
<1> QED
  BY <1>1, <1>2, <1>3, <1>4 DEF Next

(* What every cluster holds of every line, what is pending there and what is *)
(* under way between it and the directory always agree with the entry of the *)
(* line: the invariant the protocol's promises rest on.                      *)
THEOREM Invariance == Spec => []IInv
<1>1. Init => IInv
  BY InitTypes, InitCoherent DEF IInv
<1>2. IInv /\ [Next]_vars => IInv'
  <2>1. CASE Next
    <3>1. IInv /\ Next => Types'
      BY StepTypes DEF IInv
    <3>2. IInv /\ Next => Distinct' /\ Directed' /\ Coherent'
      BY StepKeeps
    <3> QED
      BY <2>1, <3>1, <3>2 DEF IInv
  <2>2. CASE UNCHANGED vars
    <3> SUFFICES ASSUME IInv, UNCHANGED vars PROVE IInv'
      BY <2>2
    <3>1. Types'
      BY DEF IInv, Types, TypeOK, EntryOK, Tracked, vars, clusterVars, bankVars
    <3>2. Distinct' /\ Directed' /\ Coherent'
      BY SilentKeeps DEF vars, clusterVars, bankVars
    <3> QED
      BY <3>1, <3>2 DEF IInv
  <2> QED
    BY <2>1, <2>2
<1> QED
  BY <1>1, <1>2, PTL DEF Spec

-----------------------------------------------------------------------------
(* The promises of the protocol.                                             *)

(* A cluster that an entry of a line names is named by an entry in a way.    *)
LEMMA NamedIsTracked ==
  ASSUME IInv, NEW l \in Lines, NEW c, c \in EntryOf(l).sharers
  PROVE  \E w \in Tracked(l) : EntryOf(l) = entry[w]
<1>1. Tracked(l) # {}
  BY EntryMissing DEF Reset
<1> QED
  BY <1>1, EntryFound DEF IInv

(* The invariant implies that every copy is tracked.                         *)
LEMMA TrackedCopies == IInv => CopiesTracked
<1> SUFFICES ASSUME IInv, NEW c \in Clusters, NEW l \in Lines, cache[c][l] # "I"
             PROVE  \E w \in Tracked(l) :
                      /\ c \in entry[w].sharers
                      /\ cache[c][l] = "M" =>
                           entry[w].sharers = {c} /\ entry[w].state # "READ_SHARED"
  BY DEF CopiesTracked
<1>1. /\ cache[c][l] \in {"I", "S", "M"}
      /\ cache[c][l] = "S" => c \in EntryOf(l).sharers
      /\ cache[c][l] = "M" => /\ EntryOf(l).sharers = {c}
                              /\ EntryOf(l).state \in WriteLocks \cup {"WRITE_PRIV"}
  BY Pair DEF Sound, Typed, Known, HoldsS, HoldsM
<1>2. c \in EntryOf(l).sharers
  BY <1>1
<1>3. PICK w \in Tracked(l) : EntryOf(l) = entry[w]
  BY <1>2, NamedIsTracked
<1> QED
  BY <1>1, <1>2, <1>3 DEF WriteLocks

(* What a cluster holds the directory knows (directory.cpp): the entry of    *)
(* the line names it, and a written copy is the only one it knows of.        *)
THEOREM CopiesAreTracked == Spec => []CopiesTracked
BY Invariance, TrackedCopies, PTL

(* While a cluster holds a line it may write, no other holds it at all       *)
(* (global_cache_coherence.cpp).                                             *)
THEOREM OneWriter == Spec => []SingleWriter
<1>1. ASSUME IInv PROVE SingleWriter
  <2> SUFFICES ASSUME NEW l \in Lines, NEW c \in Clusters, NEW d \in Clusters,
                      cache[c][l] = "M", c # d
               PROVE  cache[d][l] = "I"
    BY DEF SingleWriter
  <2>1. EntryOf(l).sharers = {c}
    BY <1>1, Pair DEF Sound, Known, HoldsM
  <2>2. cache[d][l] \in {"I", "S", "M"} /\ (cache[d][l] # "I" => d \in EntryOf(l).sharers)
    BY <1>1, Pair DEF Sound, Typed, Known, HoldsS, HoldsM
  <2> QED
    BY <2>1, <2>2
<1> QED
  BY <1>1, Invariance, PTL

(* A probe never meets a valid copy of a line the cluster also has something *)
(* pending for: "We should never get here" (cluster_cache_coherence.cpp).    *)
THEOREM CopyNotPending == Spec => []NoPendingCopy
<1>1. ASSUME IInv PROVE NoPendingCopy
  BY <1>1, Pair DEF NoPendingCopy, IsPending, Sound
<1> QED
  BY <1>1, Invariance, PTL

(* A message that arrives from a cluster is one of what it has sent.         *)
LEMMA Arrived ==
  ASSUME IInv, NEW c \in Clusters, NEW m \in ToSet(up[c])
  PROVE  /\ m.line \in Lines
         /\ m.type \in AnsOf(c, m.line) \/ m.type \in RelOf(c, m.line)
<1>1. up[c] \in Seq(Message)
  BY DEF IInv, Types, TypeOK
<1>2. m \in Message
  BY <1>1, QueueElements
<1>3. m.type \in Answers \cup Releases
  BY DEF IInv, Directed
<1> QED
  BY <1>2, <1>3, MessageTypes DEF AnsOf, RelOf, TypesIn

(* "A release message should only come from clusters that had ownership to   *)
(* begin with" (directory.cpp): every answer and release finds an entry that *)
(* names its sender in a state that expects it.                              *)
THEOREM ReleasesExpected == Spec => []ReleaseExpected
<1>1. ASSUME IInv PROVE ReleaseExpected
  <2> SUFFICES ASSUME NEW c \in Clusters, NEW m \in FirstOf(up[c])
               PROVE  \E w \in Tracked(m.line) :
                        LET e == entry[w] IN
                        /\ c \in e.sharers
                        /\ \/ /\ m.type \in ReadMessages
                              /\ \/ e.state = "READ_SHARED" /\ m.type \notin Naks
                                 \/ e.state \in EvictionLocks \cup {"PENDING_WRITE"}
                           \/ /\ m.type \in {"BCAST_ACK", "RD_RELEASE_REQ"}
                              /\ e.state \in BcastStates
                           \/ /\ m.type \in WriteMessages /\ e.sharers = {c}
                              /\ \/ e.state = "WRITE_PRIV" /\ m.type = "EVICT_REQ"
                                 \/ e.state \in LockedStates \ BcastStates
    BY DEF ReleaseExpected
  <2>1. up[c] # <<>> /\ m = Head(up[c]) /\ up[c] \in Seq(Message)
    BY <1>1 DEF FirstOf, IInv, Types, TypeOK
  <2>2. m \in ToSet(up[c])
    BY <2>1, TailElements
  <2>3. m.line \in Lines /\ (m.type \in AnsOf(c, m.line) \/ m.type \in RelOf(c, m.line))
    BY <1>1, <2>2, Arrived
  <2> DEFINE l == m.line
             e == EntryOf(l)
             S == Sound(c, e, cache[c][l], mshr[c][l], answer[c][l],
                        ReqOf(c, l), RepOf(c, l), ProbesOf(c, l), Blind(c, l),
                        AnsOf(c, l), RelOf(c, l), RepRelOf(c, l))
  <2>4. S /\ AnsOf(c, l) \subseteq Answers /\ RelOf(c, l) \subseteq Releases
    BY <1>1, <2>3, Pair DEF Typed
  <2>5. /\ m.type \in AnsOf(c, l) /\ m.type \in {"INVALIDATE_ACK", "INVALIDATE_NAK"} =>
             c \in e.sharers /\ e.state \in ReadLocks
        /\ m.type \in AnsOf(c, l) /\ m.type \in {"WR_RELEASE_ACK", "WR_RELEASE_NAK"} =>
             e.sharers = {c} /\ e.state \in WriteLocks
        /\ m.type \in AnsOf(c, l) /\ m.type = "BCAST_ACK" =>
             c \in e.sharers /\ e.state \in BcastStates
    BY <2>4 DEF Sound, Known, ReadToken, WriteToken, BcastToken, Has
  <2>6. /\ m.type \in RelOf(c, l) => m.type = mshr[c][l].type
        /\ m.type \in RelOf(c, l) /\ m.type = "RD_RELEASE_REQ" =>
             /\ c \in e.sharers
             /\ e.state \in ReadLocks \cup BcastStates \cup {"READ_SHARED"}
        /\ m.type \in RelOf(c, l) /\ m.type = "EVICT_REQ" =>
             e.sharers = {c} /\ e.state \in WriteLocks \cup {"WRITE_PRIV"}
    BY <2>4 DEF Sound, Known, Matched, HoldsS, HoldsM
  <2>7. c \in e.sharers
    BY <2>3, <2>4, <2>5, <2>6 DEF Answers, Naks, Releases
  <2>8. PICK w \in Tracked(l) : e = entry[w]
    BY <1>1, <2>3, <2>7, NamedIsTracked
  <2> HIDE DEF e, l
  <2>9. /\ c \in e.sharers
        /\ \/ /\ m.type \in ReadMessages
              /\ \/ e.state = "READ_SHARED" /\ m.type \notin Naks
                 \/ e.state \in EvictionLocks \cup {"PENDING_WRITE"}
           \/ /\ m.type \in {"BCAST_ACK", "RD_RELEASE_REQ"}
              /\ e.state \in BcastStates
           \/ /\ m.type \in WriteMessages /\ e.sharers = {c}
              /\ \/ e.state = "WRITE_PRIV" /\ m.type = "EVICT_REQ"
                 \/ e.state \in LockedStates \ BcastStates
    BY <2>3, <2>4, <2>5, <2>6, <2>7 DEF Answers, Naks, Releases, ReadMessages,
       WriteMessages, ReadLocks, WriteLocks, LockedStates, EvictionLocks, BcastStates, l
  <2> QED
    BY <2>8, <2>9 DEF l
<1> QED
  BY <1>1, Invariance, PTL

(* A permitted request is answered with the latest data: nobody still holds  *)
(* or is sending a written copy of the line.                                 *)
THEOREM DataIsFresh == Spec => []FreshData
<1>1. ASSUME IInv PROVE FreshData
  <2> SUFFICES ASSUME NEW r \in requests, NEW c \in Clusters,
                      NEW w \in Tracked(r.line), Permitted(entry[w], r)
               PROVE  /\ c # r.cluster => cache[c][r.line] # "M"
                      /\ \A i \in DOMAIN up[c] :
                           up[c][i].line = r.line =>
                             up[c][i].type \notin {"EVICT_REQ", "WR_RELEASE_ACK"}
    BY DEF FreshData
  <2> DEFINE l == r.line
             d == r.cluster
  <2>1. /\ d \in Clusters /\ l \in Lines /\ r.type \in Demands
        /\ r = Ask(d, l, r.type) /\ r.type \in ReqOf(d, l)
    BY <1>1 DEF IInv, Types, TypeOK, Request, Ask, ReqOf
  <2>2. EntryOf(l) = entry[w]
    BY <1>1, <2>1, EntryFound DEF IInv
  <2>3. /\ d \in EntryOf(l).sharers
        /\ EntryOf(l).state \in {"WRITE_PRIV", "READ_SHARED"}
    BY <2>2 DEF Permitted, WritePermitted, ReadPermitted
  <2>4. mshr[d][l].type = r.type
    BY <1>1, <2>1, Pair DEF Sound, Matched
  <2> HIDE DEF l, d
  <2>5. c # d => cache[c][l] # "M"
    BY <1>1, <2>1, <2>3, Pair DEF Sound, Known, HoldsM
  <2>6. ASSUME NEW i \in DOMAIN up[c], up[c][i].line = l,
               up[c][i].type \in {"EVICT_REQ", "WR_RELEASE_ACK"}
        PROVE  FALSE
    <3> DEFINE m == up[c][i]
    <3>1. m \in ToSet(up[c])
      BY DEF ToSet
    <3>2. m.type \in AnsOf(c, l) \/ m.type \in RelOf(c, l)
      BY <1>1, <2>6, <3>1, Arrived
    <3>3. CASE m.type \in AnsOf(c, l)
      <4>1. m.type = "WR_RELEASE_ACK"
        BY <1>1, <2>1, <2>6, <3>3, Pair DEF Typed, Answers, Naks
      <4>2. EntryOf(l).state \in WriteLocks
        BY <1>1, <2>1, <3>3, <4>1, Pair DEF Sound, Known, WriteToken, Has
      <4> QED
        BY <2>3, <4>2 DEF WriteLocks
    <3>4. CASE m.type \in RelOf(c, l)
      <4>1. m.type = "EVICT_REQ"
        BY <1>1, <2>1, <2>6, <3>4, Pair DEF Typed, Releases
      <4>2. mshr[c][l].type = "EVICT_REQ" /\ EntryOf(l).sharers = {c}
        BY <1>1, <2>1, <3>4, <4>1, Pair DEF Sound, Known, Matched, HoldsM
      <4>3. d = c
        BY <2>3, <4>2
      <4> QED
        BY <2>1, <2>4, <4>2, <4>3 DEF Demands
    <3> QED
      BY <3>2, <3>3, <3>4
  <2> QED
    BY <2>5, <2>6 DEF l, d
<1> QED
  BY <1>1, Invariance, PTL

-----------------------------------------------------------------------------
(* The reservation of a set.                                                 *)

(* An entry that goes on standing for its line, or is freed, makes no line   *)
(* tracked that was not.                                                     *)
LEMMA NoneTracked ==
  ASSUME Types, NEW w \in Ways, NEW e, SetEntry(w, e),
         \/ e.state = "INVALID"
         \/ entry[w].state # "INVALID" /\ e.addr = entry[w].addr
  PROVE  \A l : Tracked(l) = {} => Tracked(l)' = {}
<1>1. entry'[w] = e /\ (\A v \in Ways : v # w => entry'[v] = entry[v])
  BY DEF SetEntry, Types, TypeOK
<1> QED
  BY <1>1 DEF Tracked

(* What a step does to the reservation of the set: it leaves it, or takes it *)
(* for a line that is asked for and has no entry, or gives it up.            *)
StillWaiting(l) == (\E r \in requests : r.line = l) /\ Tracked(l) = {}
Reserves ==
  \/ replacing' = NoReplacement
  \/ StillWaiting(replacing.aggressor)'
  \/ /\ replacing' = replacing
     /\ \A l : StillWaiting(l) => StillWaiting(l)'

(* The fields of an entry that a request, a release or a note changes leave  *)
(* it standing for its line.                                                 *)
LEMMA StandsForLine ==
  /\ \A e : /\ \A s : [e EXCEPT !.state = s].addr = e.addr
            /\ \A cs : /\ [e EXCEPT !.sharers = cs].addr = e.addr
                       /\ [e EXCEPT !.nakWaitlist = cs].addr = e.addr
  /\ Reset.state = "INVALID"
BY DEF Reset

(* The caches do not touch the reservation.                                  *)
LEMMA ClusterReserves ==
  ASSUME Types, NEW c \in Clusters, Cluster(c)
  PROVE  Reserves
<1>1. replacing' = replacing /\ entry' = entry /\ requests \subseteq requests'
  <2>1. ASSUME NEW l \in Lines, Inject(c, l)
        PROVE  replacing' = replacing /\ entry' = entry /\ requests \subseteq requests'
    BY <2>1 DEF Inject
  <2> QED
    BY <2>1 DEF Cluster, Miss, StoreToShared, GiveBack, InjectAnswer, Fill,
       ProbeIdle, ProbeSquashes, ProbeMarks, BroadcastInvalidates,
       BroadcastPoisonsRelease, ReleaseDone, ReceiveProbe, bankVars
<1> QED
  BY <1>1 DEF Reserves, StillWaiting, Tracked

(* An answer or a release may give it up.                                    *)
LEMMA ResponseReserves ==
  ASSUME Types, NEW c \in Clusters, ProbeResponse(c)
  PROVE  Reserves
<1>1. PICK w, e :
        /\ w \in Ways
        /\ entry[w].state # "INVALID" /\ SetEntry(w, e)
        /\ \/ e.state = "INVALID" \/ e.addr = entry[w].addr
        /\ requests' = requests
        /\ replacing' \in {replacing, NoReplacement}
  <2>1. CASE SharerLeaves(c)
    BY <2>1, StandsForLine DEF SharerLeaves, Receive, Tracked
  <2>2. CASE ReadRelease(c)
    BY <2>2, StandsForLine DEF ReadRelease, Receive, Tracked, Note
  <2>3. CASE BroadcastRelease(c)
    BY <2>3, StandsForLine DEF BroadcastRelease, Receive, Tracked
  <2>4. CASE OwnerLeaves(c)
    BY <2>4, StandsForLine DEF OwnerLeaves, Receive, Tracked
  <2>5. CASE WriteRelease(c)
    BY <2>5, StandsForLine DEF WriteRelease, Receive, Tracked, Note, Owned,
       Reset
  <2> QED
    BY <2>1, <2>2, <2>3, <2>4, <2>5 DEF ProbeResponse, ReleaseRead, ReleaseWrite
<1>2. \A l : Tracked(l) = {} => Tracked(l)' = {}
  BY <1>1, NoneTracked
<1> QED
  BY <1>1, <1>2 DEF Reserves, StillWaiting

(* A request may take it, for itself, or give it up.                         *)
LEMMA RequestReserves ==
  ASSUME Types, NEW r \in requests, Serve(r)
  PROVE  Reserves
<1>1. CASE Reply(r)
  <2>1. PICK w \in Tracked(r.line) :
          /\ SetEntry(w, ClearFillPending(Downgrade(entry[w], r.type), r.cluster))
          /\ requests' = requests \ {r} /\ replacing' = replacing
    BY <1>1 DEF Reply
  <2> DEFINE e == ClearFillPending(Downgrade(entry[w], r.type), r.cluster)
  <2>2. w \in Ways /\ entry[w].state # "INVALID" /\ e.addr = entry[w].addr
    BY DEF Tracked, ClearFillPending, Downgrade
  <2>3. SetEntry(w, e)
    BY <2>1
  <2> HIDE DEF e
  <2>4. \A l : Tracked(l) = {} => Tracked(l)' = {}
    BY <2>2, <2>3, NoneTracked
  <2> QED
    BY <2>1, <2>4 DEF Reserves, StillWaiting
<1>2. CASE Allocate(r)
  BY <1>2 DEF Allocate, Reserves
<1>3. CASE Evict(r)
  <2>1. PICK w \in Ways :
          /\ Tracked(r.line) = {} /\ entry[w].state # "INVALID"
          /\ requests' = requests
          /\ replacing' = [way |-> w, aggressor |-> r.line]
          /\ RecallVictim(w) \/ entry' = entry
    BY <1>3 DEF Evict, MayReplace
  <2>2. Tracked(r.line)' = {}
    <3>1. CASE entry' = entry
      BY <2>1, <3>1 DEF Tracked
    <3>2. CASE RecallVictim(w)
      <4> DEFINE e == [entry[w] EXCEPT !.state = "EVICTION_LOCK_WRITE"]
                 f == [entry[w] EXCEPT !.state = "EVICTION_LOCK_READ"]
                 g == [entry[w] EXCEPT !.state = "EVICTION_LOCK_READ_BCAST",
                                       !.sharers = Clusters]
      <4>1. SetEntry(w, e) \/ SetEntry(w, f) \/ SetEntry(w, g)
        BY <3>2 DEF RecallVictim, Broadcast
      <4>2. /\ e.addr = entry[w].addr /\ f.addr = entry[w].addr
            /\ g.addr = entry[w].addr
        OBVIOUS
      <4> HIDE DEF e, f, g
      <4> QED
        BY <2>1, <4>1, <4>2, NoneTracked
    <3> QED
      BY <2>1, <3>1, <3>2
  <2>3. replacing'.aggressor = r.line
    BY <2>1
  <2> QED
    BY <2>1, <2>2, <2>3 DEF Reserves, StillWaiting
<1>4. CASE ShareLine(r) \/ InvalidateSharers(r) \/ InvalidateByBroadcast(r)
             \/ RecallOwner(r)
  <2>1. PICK w, e :
          /\ w \in Ways
          /\ entry[w].state # "INVALID" /\ SetEntry(w, e)
          /\ e.addr = entry[w].addr
          /\ requests' = requests /\ replacing' = replacing
    <3>1. CASE ShareLine(r)
      <4>1. PICK w \in Ways :
              /\ Hit(r, w)
              /\ SetEntry(w, [Join(entry[w], r.cluster) EXCEPT
                                !.fillPending = @ \cup {r.cluster}])
        BY <3>1 DEF ShareLine
      <4> DEFINE e == [Join(entry[w], r.cluster) EXCEPT
                         !.fillPending = @ \cup {r.cluster}]
      <4>2. SetEntry(w, e) /\ e.addr = entry[w].addr
        BY <4>1 DEF Join
      <4> HIDE DEF e
      <4> QED
        BY <4>1, <4>2 DEF Hit, Tracked
    <3>2. CASE InvalidateSharers(r)
      <4> DEFINE E(w) == [entry[w] EXCEPT !.state = "WRITE_PRIV",
                                          !.fillPending = @ \cup {r.cluster}]
                 F(w) == [entry[w] EXCEPT !.state = "PENDING_WRITE",
                            !.sharers = entry[w].sharers \ {r.cluster},
                            !.waiting = r.cluster]
      <4>1. PICK w \in Ways :
              Hit(r, w) /\ (SetEntry(w, E(w)) \/ SetEntry(w, F(w)))
        BY <3>2 DEF InvalidateSharers
      <4>2. E(w).addr = entry[w].addr /\ F(w).addr = entry[w].addr
        OBVIOUS
      <4> HIDE DEF E, F
      <4> QED
        BY <4>1, <4>2 DEF Hit, Tracked
    <3>3. CASE InvalidateByBroadcast(r)
      <4> DEFINE E(w) == [entry[w] EXCEPT !.state = "PENDING_WRITE_BCAST",
                                          !.sharers = Clusters \ {r.cluster}]
      <4>1. PICK w \in Ways : Hit(r, w) /\ SetEntry(w, E(w))
        BY <3>3 DEF InvalidateByBroadcast, Broadcast
      <4>2. E(w).addr = entry[w].addr
        OBVIOUS
      <4> HIDE DEF E
      <4> QED
        BY <4>1, <4>2 DEF Hit, Tracked
    <3>4. CASE RecallOwner(r)
      <4> DEFINE E(w) == [entry[w] EXCEPT
                   !.state = IF r.type = "READ_REQ" THEN "PENDING_WB"
                                                    ELSE "PENDING_WRITE",
                   !.waiting = r.cluster]
      <4>1. PICK w \in Ways : Hit(r, w) /\ SetEntry(w, E(w))
        BY <3>4 DEF RecallOwner
      <4>2. E(w).addr = entry[w].addr
        OBVIOUS
      <4> HIDE DEF E
      <4> QED
        BY <4>1, <4>2 DEF Hit, Tracked
    <3> QED
      BY <1>4, <3>1, <3>2, <3>3, <3>4
  <2>2. \A l : Tracked(l) = {} => Tracked(l)' = {}
    BY <2>1, NoneTracked
  <2> QED
    BY <2>1, <2>2 DEF Reserves, StillWaiting
<1> QED
  BY <1>1, <1>2, <1>3, <1>4 DEF Serve, RequestRead, RequestWrite

(* A set is reserved only for a line that is asked for and has no entry      *)
(* (replace_entry): the aggressor that may take it still comes.              *)
THEOREM ReservationAwaited == Spec => []ReservedForWaiter
<1>1. Init => ReservedForWaiter
  BY DEF Init, ReservedForWaiter
<1>2. Types /\ ReservedForWaiter /\ [Next]_vars => ReservedForWaiter'
  <2> SUFFICES ASSUME Types, ReservedForWaiter, [Next]_vars
               PROVE  ReservedForWaiter'
    OBVIOUS
  <2>1. CASE Next
    <3>1. SendProbe => Reserves
      BY DEF SendProbe, Reserves, StillWaiting, Tracked
    <3>2. Reserves
      BY <2>1, <3>1, ClusterReserves, ResponseReserves, RequestReserves DEF Next
    <3>3. replacing # NoReplacement => StillWaiting(replacing.aggressor)
      BY DEF ReservedForWaiter, StillWaiting
    <3>4. replacing' # NoReplacement => StillWaiting(replacing.aggressor)'
      BY <3>2, <3>3 DEF Reserves
    <3> QED
      BY <3>4 DEF ReservedForWaiter, StillWaiting
  <2>2. CASE UNCHANGED vars
    BY <2>2 DEF vars, clusterVars, bankVars, ReservedForWaiter, Tracked
  <2> QED
    BY <2>1, <2>2
<1> QED
  BY <1>1, <1>2, TypesInvariant, PTL DEF Spec
============================================================================
