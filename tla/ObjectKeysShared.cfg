SPECIFICATION Spec
CONSTANTS
  c1 = c1
  c2 = c2
  Chapter = {c1, c2}
  Idx = {1}
  Char <- Chars
  Word <- Letters
  Space = {"tab"}
  Wide = {"nbsp"}
  Raw <- SomeNames
  Ext = {".jpg", ".webp", ".WEBP"}
  UrlExt <- Urls
  MimeOf <- Mimes
  Body = {"jpeg", "page"}
  Convertible = {"jpeg"}
CHECK_DEADLOCK FALSE
INVARIANTS
  ListedIsStored
  RightlyLabelled
PROPERTIES
  ReplacedByAlike
