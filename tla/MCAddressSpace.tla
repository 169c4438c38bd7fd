--------------------------- MODULE MCAddressSpace ---------------------------
(* Memory maps of 32 pages of two units: low memory, a kernel of three or   *)
(* four pages, the region the early pages come from, the boot loader's      *)
(* memory with the stack and the old tables, ACPI and framebuffer memory.   *)
EXTENDS AddressSpace

E(type, base, end) == [type |-> type, base |-> base, end |-> end]
B(map, kernel, text, rodata, data, stack, old) ==
    [map |-> map, kernel |-> kernel, text |-> text, rodata |-> rodata, data |-> data,
     rsp |-> Hhdm + stack, cr3 |-> old]

MCBoots ==
    { \* everything aligned to big leaves
      B(<<E("USABLE", 0, 4), E("KERNEL", 4, 12), E("USABLE", 12, 52),
          E("BOOTLOADER", 52, 56), E("ACPI", 56, 60), E("FRAMEBUFFER", 60, 64)>>,
        2, 1, 1, 2, 26, 27),
      \* odd pages, partial pages and a hole
      B(<<E("USABLE", 0, 1), E("RESERVED", 1, 4), E("KERNEL", 6, 12), E("USABLE", 12, 54),
          E("BOOTLOADER", 54, 58), E("ACPI", 58, 59), E("ACPI", 59, 61), E("FRAMEBUFFER", 62, 64)>>,
        3, 1, 1, 1, 28, 27),
      \* low memory unknown to the map, a second usable region, old tables in low memory
      B(<<E("RESERVED", 0, 2), E("KERNEL", 4, 10), E("USABLE", 10, 48), E("RESERVED", 48, 50),
          E("USABLE", 50, 56), E("BOOTLOADER", 56, 58)>>,
        2, 2, 0, 1, 28, 1),
      \* hardly enough, and not enough, early pages
      B(<<E("USABLE", 0, 4), E("KERNEL", 4, 10), E("USABLE", 10, 40), E("BOOTLOADER", 40, 44)>>,
        2, 1, 1, 1, 20, 21),
      B(<<E("USABLE", 0, 4), E("KERNEL", 4, 10), E("USABLE", 10, 30), E("BOOTLOADER", 30, 34)>>,
        2, 1, 1, 1, 15, 16),
      \* a page shared by two entries: below a big leaf of the first, where the
      \* kernel stops, and below one of the second, which replaces a table
      B(<<E("USABLE", 0, 4), E("KERNEL", 4, 10), E("USABLE", 10, 44), E("BOOTLOADER", 44, 48),
          E("ACPI", 48, 55), E("FRAMEBUFFER", 55, 64)>>,
        2, 1, 1, 1, 22, 23),
      B(<<E("USABLE", 0, 4), E("KERNEL", 4, 10), E("USABLE", 10, 44), E("BOOTLOADER", 44, 48),
          E("ACPI", 48, 53), E("FRAMEBUFFER", 53, 64)>>,
        2, 1, 1, 1, 22, 23) }
=============================================================================
