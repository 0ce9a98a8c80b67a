------------------------------ MODULE MCNoteIndex ------------------------------
(* Small configurations of the notes and their index.                          *)
EXTENDS NoteIndex

(* No generators, with deletions, crashes and repairs; titles; tags.           *)
MCConfigs ==
    {[clients |-> {}, named |-> {TRUE}, tags |-> {{}}, saves |-> 3, events |-> 1],
     [clients |-> {"title"}, named |-> BOOLEAN, tags |-> {{}}, saves |-> 2, events |-> 0],
     [clients |-> {"tags"}, named |-> {TRUE}, tags |-> {{}, Tags}, saves |-> 1, events |-> 2]}

(* One note, saved twice.                                                      *)
MCTwoSaves ==
    {[clients |-> {}, named |-> {TRUE}, tags |-> {{}}, saves |-> 2, events |-> 0]}
===============================================================================
