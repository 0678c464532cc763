--------------------------- MODULE MCLogFileView ----------------------------
(* A request with two tool results, one of them with an image, laid out with *)
(* one value on a line, and the start of it on one line.  "text" is a file    *)
(* that is not JSON.                                                          *)
EXTENDS LogFileView

Value(p, value, start, end) == [path |-> p, value |-> value, start |-> start, end |-> end]

M(i) == <<"messages", i>>

Long == {
  Value(<<>>, "object", 0, 21),
  Value(<<"messages">>, "array", 1, 20),
  Value(M("0"), "object", 2, 5),
  Value(M("0") \o <<"role">>, "tool", 3, 3),
  Value(M("0") \o <<"content">>, "a", 4, 4),
  Value(M("1"), "object", 6, 19),
  Value(M("1") \o <<"role">>, "tool", 7, 7),
  Value(M("1") \o <<"content">>, "array", 8, 18),
  Value(M("1") \o <<"content", "0">>, "object", 9, 14),
  Value(M("1") \o <<"content", "0", "type">>, "image", 10, 10),
  Value(M("1") \o <<"content", "0", "source">>, "object", 11, 13),
  Value(M("1") \o <<"content", "0", "source", "data">>, "b", 12, 12),
  Value(M("1") \o <<"content", "1">>, "object", 15, 17),
  Value(M("1") \o <<"content", "1", "type">>, "text", 16, 16) }

OneLine == {[v EXCEPT !.start = 0, !.end = 0] : v \in {w \in Long : w.start < 6}}

Files == [a |-> Long, b |-> OneLine]
=============================================================================
