---------------------------- MODULE MCFlashTool ----------------------------
(***************************************************************************)
(* FlashTool for TLC: pages of two bytes, the bootloader at address 4.     *)
(***************************************************************************)
EXTENDS FlashTool

Segment(type, paddr, data) ==
  [type |-> type, paddr |-> paddr, memsz |-> Len(data), data |-> data]

MCElfs ==
  { \* two segments out of order that share a page; the last page is not full
    <<Segment("note", 0, <<9>>), Segment("load", 3, <<4, 5>>), Segment("load", 0, <<1, 2, 3>>)>>,
    \* a page of the bootloader
    <<Segment("load", 2, <<6>>), Segment("load", 6, <<7, 8>>)>>,
    \* a segment that is longer in memory than in the file
    <<[type |-> "load", paddr |-> 0, memsz |-> 2, data |-> <<1>>]>> }

MCGapElfs == { <<Segment("load", 0, <<1>>), Segment("load", 3, <<2>>)>> }

ASSUME MCAssumption == \A e \in MCElfs : SideBySide(ProgramOf(e))
=============================================================================
