------------------------------- MODULE MCLinks -------------------------------
EXTENDS Links

(* "pkg", "ab1", and two that are no names.                                *)
SomeBuckets == {Pkg, <<97, 98, 49>>, <<45, 97, 98>>, <<49, 46, 50, 46, 51, 46, 52>>}

(* "d e%66/g/h/" and what is in it: a space, an escape, three levels.      *)
Deep == <<100, 32, 101, 37, 54, 54, 47, 103, 47, 104, 47>>

(* "h", "h-i", "h/i", ".", "h?i", and two that are refused; four to which  *)
(* one more can be added.                                                  *)
SomeStores ==
  {{<<104>>, <<104, 45, 105>>, <<104, 47, 105>>, <<46>>, <<104, 63, 105>>,
    <<46, 46>>, [i \in 1..40 |-> 104]},
   {Deep \o <<105>>, Deep \o <<106>>, Deep \o <<107>>, <<104, 47, 105>>}}

(* "h", "k l", "m#n".                                                      *)
SomeFiles == {<<104>>, <<107, 32, 108>>, <<109, 35, 110>>}

(* "h" and "d e%66/g", a part of a folder's name.                          *)
SomeFilters == {<<104>>, SubSeq(Deep, 1, 8)}

(* One second before the end of February 29, 2024, and noon of the first   *)
(* day of 2100, no leap year.                                              *)
SomeTimes == {[day |-> 19782, second |-> 86399], [day |-> 47482, second |-> 43200]}
=============================================================================
