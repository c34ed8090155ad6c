----------------------------- MODULE MCSession -----------------------------
(***************************************************************************)
(* Three targets: the first two share a database and the last two a forest *)
(* file.  Files that are whole, incomplete, repeat a key, or end in a line *)
(* that is bad, delays whose product with a factor fits, overflows below   *)
(* the delay, and overflows past it.                                       *)
(***************************************************************************)
EXTENDS Session

Text(n, form) == [len |-> n, space |-> FALSE, form |-> form, num |-> <<>>, real |-> FALSE]
Number(n)     == [len |-> 3, space |-> FALSE, form |-> "plain", num |-> <<n>>, real |-> TRUE]

Http   == Text(10, "plain")    \* http://a.b
Dotted == Text(3, "plain")     \* a.b
Under  == Text(4, "plain")     \* a_b
Words  == Text(9, "txt")
Json1  == [Text(6, "json") EXCEPT !.num = <<2>>]  \* 2.json
Pass1  == Text(127, "plain")
Pass2  == Text(8, "plain")

MCValues == {Http, Dotted, Under, Words, Json1, Pass1, Pass2}
            \cup {Number(n) : n \in {1, 4, 40, 70}}

Gives(k, v) == [noise |-> FALSE, key |-> k, val |-> v]
Noise       == [noise |-> TRUE, key |-> "", val |-> Words]

MCFiles ==
  [rfo |-> {<<Gives("target", Http)>>,
            <<Gives("target", Dotted), Gives("target", Under), Noise>>,
            <<Gives("port", Number(1)), Gives("target", Dotted)>>},
   rso |-> {<<Gives("json_file_path", Json1), Gives("wordlist_path", Words),
              Gives("delay", Number(40))>>,
            <<Gives("wordlist_path", Words), Gives("delay", Number(70))>>,
            <<Gives("wordlist_path", Words), Gives("json_file_path", Words)>>},
   rxo |-> {<<Gives("db_password", Pass1), Gives("num_trees", Number(1)),
              Gives("sub_sample_size", Number(4))>>,
            <<Gives("num_trees", Number(1)), Gives("db_password", Pass1)>>,
            <<Gives("db_password", Pass2), Gives("trees", Number(1))>>}]

MCIntMax   == 32767
MCGarbage  == {Json1}
MCDbName(v)   == CASE v \in {Http, Dotted} -> "a.b" [] v = Under -> "a_b" [] OTHER -> ""
MCTreeName(v) == CASE v = Http -> "http___a_b" [] v \in {Dotted, Under} -> "a_b"
                   [] OTHER -> ""
MCDbNames   == {"a.b", "a_b", ""}
MCTreeNames == {"http___a_b", "a_b", ""}
MCMaxCommands == 8
=============================================================================
