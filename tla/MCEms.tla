------------------------------- MODULE MCEms --------------------------------
(* Two handles, two windows and a few backing pages. *)
EXTENDS Ems

\* What a window holds while nothing is mapped there is never read.
Seen ==
  <<eh, page_owner, used_pages, saved_map, store, cur_map,
    {<<w, frame[w]>> : w \in {v \in Window : cur_map[v] # EMS_UNMAPPED}}>>
=============================================================================
