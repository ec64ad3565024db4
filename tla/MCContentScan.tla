---------------------------- MODULE MCContentScan ----------------------------
(***************************************************************************)
(* ContentScan for TLC: every sequence of up to three objects, from each   *)
(* source, under a cap of two, without an export, and every sequence of up *)
(* to two entries of an export, for a dataset of at most one object.       *)
(* Images cannot be read.                                                  *)
(***************************************************************************)
EXTENDS ContentScan

Whole(format, near, far) ==
    [format |-> format, near |-> near, far |-> far, past |-> {}, damaged |-> FALSE,
     excluded |-> FALSE, fate |-> "ok"]

Cut(object, past) == [object EXCEPT !.past = past]

MCObjects ==
    {Whole("text", {"cin"}, {"political"}), Whole("text", {"email", "phone"}, {}),
     Cut(Whole("text", {}, {"union"}), {"racial"}), Cut(Whole("text", {}, {}), {"health"}),
     Cut(Whole("pdf", {"health", "religious"}, {}), {"criminal"}),
     Whole("image", {"criminal"}, {}), Whole("unscannable", {"cin"}, {}),
     Whole("other", {"racial"}, {})}
    \cup {[Whole("text", {"racial"}, {}) EXCEPT !.fate = "refused"],
          [Whole("text", {"racial"}, {}) EXCEPT !.fate = "broken"],
          [Whole("unscannable", {}, {}) EXCEPT !.fate = "broken"],
          [Whole("pdf", {"health"}, {}) EXCEPT !.damaged = TRUE],
          [Whole("text", {"criminal"}, {}) EXCEPT !.excluded = TRUE]}

Detection(type, top) == [type |-> type, top |-> top]

Named(words) == [words |-> words]

MCItems ==
    [about : {"this"}, broken : BOOLEAN,
     labels : {{}, {Detection("EMAIL_ADDRESS", "HEALTH")},
               {Detection("EMAIL_ADDRESS", "PERSONAL_INFORMATION"),
                Detection("MEDICAL_RECORD_NUMBER", "PERSONAL_INFORMATION")},
               {Detection("UNKNOWN", "HEALTH")}, {Detection("UNKNOWN", "UNKNOWN")},
               {Named({"PERSONAL", "HEALTH"}), [blank |-> TRUE]}, {[blank |-> TRUE]},
               {Named({"FINANCIAL", "UNION"}), Named({"BANK"})}, {Named({})}}]
    \cup [about : {"another", "nothing"}, broken : {FALSE},
          labels : {{Detection("GENETIC_INFORMATION", "UNKNOWN")}}]

Macie(item) == \A l \in item.labels : "type" \in DOMAIN l

Purview(item) == \A l \in item.labels : "type" \notin DOMAIN l

Scan(source, listing, objects, file, items) ==
    [source |-> source, listing |-> listing, objects |-> objects, file |-> file,
     export |-> items]

MCInputs ==
    {Scan(s, "ok", o, "items", <<>>) :
        s \in {"s3", "blob", "repo"}, o \in BoundedSeq(MCObjects, 3)}
    \cup {Scan(s, l, o, f, <<>>) :
        s \in {"s3", "blob"}, l \in {"ok", "refused", "broken"},
        o \in BoundedSeq(MCObjects, 1), f \in {"items", "unreadable", "misshapen"}}
    \cup {Scan("s3", "ok", o, "items", e) :
        o \in BoundedSeq(MCObjects, 1), e \in BoundedSeq({i \in MCItems : Macie(i)}, 2)}
    \cup {Scan("blob", "ok", o, "items", e) :
        o \in BoundedSeq(MCObjects, 1), e \in BoundedSeq({i \in MCItems : Purview(i)}, 2)}
=============================================================================
