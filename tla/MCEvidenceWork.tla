--------------------------- MODULE MCEvidenceWork ---------------------------
(* Instances of EvidenceWork: which calls meet, and what they find.        *)
EXTENDS EvidenceWork, TLC

CONSTANTS s1, s2, c1, c2, c3, o1, o2, m1, m2

MCLegacy == <<[id |-> 1, readable |-> TRUE], [id |-> 2, readable |-> FALSE],
              [id |-> 3, readable |-> TRUE]>>

(* Sizes around the limits: 2 for media, 3 for an extraction.              *)
Content(size, form) == [size |-> size, form |-> form]
Small == Content(2, "sqlite")
Image == Content(2, "image")
Grown == Content(3, "image")
MCContents == {Small, Image, Grown, Content(4, "sqlite")}

None == [kind |-> "none"]
Open(s, flat) == [kind |-> "open", source |-> s, flat |-> flat]
Save(id) == [kind |-> "save", id |-> id]
Update(supported) == [kind |-> "append", supported |-> supported]
Start == [kind |-> "initialize"]
Tool(k) == [kind |-> k, valid |-> TRUE, shown |-> 2, form |-> "image"]
Invalid(k) == [Tool(k) EXCEPT !.valid = FALSE]
Ask(k, o, m) ==
  [kind |-> k, objective |-> o, config |-> m, valid |-> TRUE]

World(x, y, z) ==
  [jobs |-> c1 :> x @@ c2 :> y @@ c3 :> z, evidence |-> s1,
   report |-> FALSE, source |-> Image,
   listed |-> [rows |-> 1, own |-> TRUE, size |-> 2],
   dumps |-> [d \in MCContents |-> "none"]]

New(w) == [w EXCEPT !.evidence = NoSource]
Reporting(w) == [w EXCEPT !.report = TRUE]
Holding(w, d) == [w EXCEPT !.source = d, !.listed.size = d.size]

MCWorlds ==
  {New(World(Open(s1, TRUE), Open(s2, TRUE), Open(s1, FALSE))),
   New(World(Open(s1, TRUE), Open(s1, TRUE), Start)),
   World(Save(1), Save(1), Open(s2, TRUE)),
   World(Save(1), Save(2), Start),
   Reporting(World(Update(TRUE), Update(TRUE), Update(TRUE))),
   Reporting(World(Update(TRUE), Update(FALSE), Start)),
   New(World(Start, Update(TRUE), Open(s1, TRUE))),
   Holding(World(Tool("query_sqlite_file"), Ask("sqlite", o1, m1), None),
           Small),
   Holding(World(Invalid("query_sqlite_file"), Tool("shell"),
                 Tool("list_dir")), Small),
   World(Tool("extract_file"), Tool("describe_image"), None),
   [World(Tool("transcribe_audio"), Tool("extract_file"), None)
      EXCEPT !.dumps[Image] = "torn"],
   [World(Tool("describe_image"), Tool("query_index"), Tool("extract_file"))
      EXCEPT !.listed = [rows |-> 0, own |-> TRUE, size |-> 0]],
   [World(Tool("describe_image"), Tool("other"), None)
      EXCEPT !.listed.own = FALSE],
   World(Ask("image", o1, m1), Ask("image", o2, m1), Ask("image", o1, m1)),
   World(Ask("audio", o1, m1), Ask("audio", o1, m2), Ask("image", o1, m2)),
   Holding(World(Ask("sqlite", o1, m1), Ask("sqlite", o1, m1), None), Small)}
=============================================================================
