---------------------------- MODULE NanosLoader ----------------------------
(***************************************************************************)
(* The file table, the ramdisk and the ELF loader of nanos-lite            *)
(* (src/fs.c, ramdisk.c, loader.c), as operators on a disk: a record of    *)
(* the file table and of the ramdisk's words.  An ELF header is four words *)
(* (magic, entry, phoff, phnum) and a program header five (type, offset,   *)
(* vaddr, filesz, memsz).                                                  *)
(***************************************************************************)
EXTENDS Naturals, Sequences

CONSTANTS ElfMagic, PtLoad

EhdrWords == 4
PhdrWords == 5

\* The first entry with that name; 0 when there is none.
FileIndex(disk, name) ==
  LET same == {i \in DOMAIN disk.table : disk.table[i].name = name} IN
  IF same = {} THEN 0 ELSE CHOOSE i \in same : \A j \in same : i <= j

DiskOffset(disk, name, off) == disk.table[FileIndex(disk, name)].disk_offset + off

\* fs_read and ramdisk_read: the file's own size is not looked at.
FsReadable(disk, name, off, len) ==
  /\ FileIndex(disk, name) # 0
  /\ DiskOffset(disk, name, off) + len <= Len(disk.words)

FsWord(disk, name, off) == disk.words[DiskOffset(disk, name, off) + 1]

Ehdr(disk, name) ==
  [magic |-> FsWord(disk, name, 0), entry |-> FsWord(disk, name, 1),
   phoff |-> FsWord(disk, name, 2), phnum |-> FsWord(disk, name, 3)]

EhdrOk(disk, name) ==
  FsReadable(disk, name, 0, EhdrWords) /\ Ehdr(disk, name).magic = ElfMagic

PhdrOffset(disk, name, i) == Ehdr(disk, name).phoff + i * PhdrWords

Phdr(disk, name, i) ==
  LET at == PhdrOffset(disk, name, i)
      w(k) == FsWord(disk, name, at + k)
  IN  [type |-> w(0), offset |-> w(1), vaddr |-> w(2), filesz |-> w(3), memsz |-> w(4)]

\* Every fs_read of iteration i stays on the ramdisk.
PhdrOk(disk, name, i) ==
  /\ FsReadable(disk, name, PhdrOffset(disk, name, i), PhdrWords)
  /\ LET ph == Phdr(disk, name, i) IN
     ph.type = PtLoad => FsReadable(disk, name, ph.offset, ph.filesz)

\* (bug: what follows the file's part of the segment keeps its old contents)
LoadPhdrNoBss(disk, name, i, m) ==
  LET ph == Phdr(disk, name, i)
      filled == ph.vaddr .. ph.vaddr + ph.filesz - 1
  IN  IF ph.type # PtLoad THEN m
      ELSE [a \in DOMAIN m |-> IF a \in filled
                               THEN FsWord(disk, name, ph.offset + a - ph.vaddr) ELSE m[a]]
\* One iteration of loader()'s loop, on the memory m.
LoadPhdr(disk, name, i, m) ==
  LET ph == Phdr(disk, name, i)
      filled == ph.vaddr .. ph.vaddr + ph.filesz - 1
      zeroed == ph.vaddr + ph.filesz .. ph.vaddr + ph.memsz - 1
  IN  IF ph.type # PtLoad THEN m
      ELSE [a \in DOMAIN m |->
              CASE a \in filled -> FsWord(disk, name, ph.offset + a - ph.vaddr)
                [] a \in zeroed -> 0
                [] OTHER -> m[a]]
=============================================================================
