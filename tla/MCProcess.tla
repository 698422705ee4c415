----------------------------- MODULE MCProcess ------------------------------
(* A PSP of one paragraph, a few paragraphs of memory, and program files     *)
(* that fit, that do not, and that are cut short.                            *)
EXTENDS Process

MCImages == {Com(1, FALSE), Com(3, FALSE), Exe(1, 1, 0, FALSE), Exe(1, 0, 2, FALSE),
             Exe(0, 1, 9, TRUE)}

NoAnswer == <<mcb, parent, resident, cur, origin>>
=============================================================================
