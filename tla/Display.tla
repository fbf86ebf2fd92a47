------------------------------ MODULE Display ------------------------------
(***************************************************************************)
(* What tty.c and vga.h compute for the screen: text cells, the page       *)
(* tables setup_paging fills, and the bytes of the frame buffer the        *)
(* drawing functions write, as sets of offsets from FRAMEBUFFER_ADDRESS.   *)
(***************************************************************************)
EXTENDS Integers, Sequences

VGA_HEIGHT == 25
PAGE_SIZE == 4096
FRAMEBUFFER_ADDRESS == 655360
FRAMEBUFFER_SIZE == VGA_HEIGHT * 600

(* A colour byte and a text cell, both by shifting fields together.        *)
vga_entry_color(fg, bg) == (fg + bg * 16) % 256
vga_entry(uc, color) == (uc + color * 256) % 65536

-----------------------------------------------------------------------------
(* setup_paging: a directory without present entries and a table that maps *)
(* the first 4 MB, then the pages of the frame buffer, then the table's    *)
(* own address in the first directory entry.  Flags: 1 present, 2 write.   *)
IdentityTable_Shifted == [i \in 0 .. 1023 |-> (i + 1) * PAGE_SIZE + 3]
IdentityTable == [i \in 0 .. 1023 |-> i * PAGE_SIZE + 3]
FramebufferPages ==
  [i \in 0 .. FRAMEBUFFER_SIZE \div PAGE_SIZE - 1 |-> FRAMEBUFFER_ADDRESS + i * PAGE_SIZE + 3]
setup_paging(table) ==
  LET base == FRAMEBUFFER_ADDRESS \div PAGE_SIZE
  IN [table |-> [i \in 0 .. 1023 |-> IF i - base \in DOMAIN FramebufferPages
                                     THEN FramebufferPages[i - base] ELSE IdentityTable[i]],
      directory |-> [i \in 0 .. 1023 |-> IF i = 0 THEN table + 3 ELSE 2]]

(* The processor's walk, once enable_paging has set the bit in cr0: the    *)
(* physical address, or -1 for a page fault.  Only the table at `table' is *)
(* one.                                                                    *)
Present(e) == e % 2 = 1
Translate(paging, table, page, offset) ==
  LET pde == paging.directory[page \div 1024]
      pte == paging.table[page % 1024]
  IN IF Present(pde) /\ pde \div PAGE_SIZE = table \div PAGE_SIZE /\ Present(pte)
     THEN (pte \div PAGE_SIZE) * PAGE_SIZE + offset ELSE -1

-----------------------------------------------------------------------------
setup_framebuffer == 0 .. FRAMEBUFFER_SIZE - 1
draw_pixel(x, y) == y * 800 + x
draw_horizontal_line(x1, x2, y) == {draw_pixel(x, y) : x \in x1 .. x2}
draw_vertical_line(y1, y2, x) == {draw_pixel(x, y) : y \in y1 .. y2}
draw_box(x1, y1, x2, y2) ==
  draw_horizontal_line(x1, x2, y1) \cup draw_horizontal_line(x1, x2, y2)
  \cup draw_vertical_line(y1, y2, x1) \cup draw_vertical_line(y1, y2, x2)

(* The font has 62 rows, from `A' at index 0 on, none of them with a zero  *)
(* byte; it is indexed by the code of the character.  Rows do not advance  *)
(* by a line: row i of the glyph lands i bytes further.                    *)
FontRows == 62
draw_char(x, y, c) ==
  IF c < FontRows THEN {(y + i) + (x + j) : i \in 0 .. 7, j \in 0 .. 7} ELSE {}
draw_string(x, y, str) ==
  UNION {draw_char(x + (i - 1) * 8, y, str[i]) : i \in 1 .. Len(str)}
=============================================================================
