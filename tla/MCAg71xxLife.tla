---------------------------- MODULE MCAg71xxLife ----------------------------
(* Small instances of Ag71xxLife.  The three kinds of board are those the   *)
(* machine files of arch/mips/ar71xx register: a PHY or switch on either    *)
(* generation of the chip, and an AR71xx MAC with a fixed link to a switch. *)
EXTENDS Ag71xxLife

Board(ar724x, linkPoll, watchdog) ==
    [ar724x |-> ar724x, linkPoll |-> linkPoll, watchdog |-> watchdog]

AllBoards  == {Board(FALSE, TRUE, FALSE), Board(TRUE, TRUE, FALSE), Board(FALSE, FALSE, FALSE),
               Board(FALSE, TRUE, TRUE), Board(FALSE, FALSE, TRUE)}
OnlyPolled == {Board(FALSE, TRUE, FALSE)}

=============================================================================
