CONSTANTS
  NPROC = 2
  NPAGE = 16
  Lasts <- MCLasts
  PGSIZE = 2
  NPTENTRIES = 2
  UPD = 2
  KPD = 1
  UINT = 16
  Images <- MCImages
  Grows <- MCGrows
  MaxCalls = 4
SPECIFICATION Spec
INVARIANTS PagesAccounted LoadedTableLive 
CHECK_DEADLOCK FALSE
