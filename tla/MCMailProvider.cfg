SPECIFICATION Spec
CONSTANTS
  Sessions = {1, 2}
  Together = FALSE
  Mails = {1, 2}
  Folders <- MCFolders
  FolderOf <- MCFolderOf
  Root <- MCRoot
  MaxMishaps = 1
INVARIANTS SeenIsAccounted NothingBuffered
PROPERTIES Served
CHECK_DEADLOCK FALSE
